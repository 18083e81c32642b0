CONSTANTS
  Threads = {t1, t2}
  NoThread = NoThread
  MaxConnectTimes = 2
  MaxAttempts = 8
  MaxAccepts = 1
SPECIFICATION Spec
CHECK_DEADLOCK FALSE
INVARIANTS OneLink RetryBudget DialsArePaidFor FlagsTruthful
PROPERTIES DisconnectIsFinal ImplementsTcpLink
