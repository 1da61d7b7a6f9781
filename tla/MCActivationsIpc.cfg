CONSTANTS
  MAX_ACTIVATIONS = 3
  MAX_MSG = 4
  Arg = {1, 2}
  NULL = NULL
  ZERO = ZERO
  UNIQUE_MOD = 2
  REPLY_MOD = 2
  ForeignCtrl = FALSE
  Revocable = {}
  MaxCalls = 1
  Irq = {4}
  INT = 1
  Drivers = {2}
SPECIFICATION Spec
PROPERTY RefinesIpc
VIEW DataView
CONSTRAINT FewMessages
