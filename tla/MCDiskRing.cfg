CONSTANTS
  MAX_ACTIVATIONS = 4
  MAX_MSG = 2
  Arg <- MCArg
  INT <- MCINT
  OK <- MCOK
  NULL = NULL
  ZERO = ZERO
  UNIQUE_MOD = 16
  REPLY_MOD = 16
  Irq = {4}
  Sectors = {s1, s2}
  Values = {1, 2}
  num = 3
  MaxCalls = 7
  MaxRequests = 4
SPECIFICATION Spec
INVARIANT RingInBounds
