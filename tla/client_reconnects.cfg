CONSTANTS
  Threads = {t1}
  NoThread = NoThread
  MaxConnectTimes = 2
  MaxAttempts = 8
  MaxAccepts = 1
SPECIFICATION Spec
CHECK_DEADLOCK FALSE
INVARIANTS GivesUpAfterMaxReconnects
