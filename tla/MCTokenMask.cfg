CONSTANTS
  MAX_ACTIVATIONS = 3
  MAX_MSG = 2
  Arg = {1}
  NULL = NULL
  ZERO = ZERO
  UNIQUE_MOD = 8
  REPLY_MOD = 2
  ForeignCtrl = FALSE
  Revocable = {}
  MaxCalls = 2
  Irq = {}
  INT = 1
  Drivers = {}
SPECIFICATION Spec
INVARIANT AnswersExpected
