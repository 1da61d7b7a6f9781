CONSTANTS
  MAX_ACTIVATIONS = 6
  MAX_MSG = 4
  Arg <- MCArg
  INT <- MCINT
  NULL = NULL
  ZERO = ZERO
  UNIQUE_MOD = 1
  REPLY_MOD = 1
  Irq = {}
  MAX_SOCKET = 2
  MAX_PORT = 1
  NB_MSG = 2
  Servers = {3}
  Clients = {4, 5}
SPECIFICATION Spec
INVARIANTS
  TypeOK
  NeverStops
  Echoed
  NotFreed
  NoSendError
PROPERTY Finished
VIEW View
