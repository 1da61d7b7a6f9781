CONSTANTS
  MAX_ACTIVATIONS = 7
  MAX_MSG = 2
  Arg <- MCArg
  NULL = NULL
  ZERO = ZERO
  UNIQUE_MOD = 64
  REPLY_MOD = 64
  Daemons = 1
  MaxOps = 3
  UnknownMethods = TRUE
SPECIFICATION Spec
INVARIANTS
  AnswersExpected
