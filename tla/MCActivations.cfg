CONSTANTS
  MAX_ACTIVATIONS = 4
  MAX_MSG = 2
  Arg = {1}
  NULL = NULL
  ZERO = ZERO
  UNIQUE_MOD = 8
  REPLY_MOD = 4
  ForeignCtrl = FALSE
  Revocable = {2, 3}
  MaxCalls = 2
  Irq = {4}
  INT = 1
  Drivers = {2}
SPECIFICATION Spec
INVARIANTS
  TypeOK
  NoKernelFault
  RunQueueExact
  NoLostWakeup
  CurrRunnable
  TerminatedStays
  TokensOwed
  TokensUnique
  BlockedHasToken
  IrqOwned
VIEW View
