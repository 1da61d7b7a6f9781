CONSTANTS
  MAX_ACTIVATIONS = 3
  MAX_MSG = 2
  Arg = {1}
  NULL = NULL
  ZERO = ZERO
  UNIQUE_MOD = 4
  REPLY_MOD = 4
  ForeignCtrl = TRUE
  Revocable = {}
  MaxCalls = 1
  Irq = {}
  INT = 1
  Drivers = {}
SPECIFICATION Spec
INVARIANT AssertionsHold
