CONSTANTS
  MAX_ACTIVATIONS = 8
  MAX_MSG = 2
  Arg <- MCArg
  NULL = NULL
  ZERO = ZERO
  UNIQUE_MOD = 512
  REPLY_MOD = 512
  Daemons = 2
  MaxOps = 3
  UnknownMethods = TRUE
SPECIFICATION Spec
INVARIANTS
  TypeOK
  NeverStops
  AnswersMatch
  OwesWhileBlocked
PROPERTY Shutdown
