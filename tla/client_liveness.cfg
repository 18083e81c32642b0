CONSTANTS
  Threads = {t1, t2}
  NoThread = NoThread
  MaxConnectTimes = 1
  MaxAttempts = 5
  MaxAccepts = 1
SPECIFICATION FairSpec
CHECK_DEADLOCK FALSE
PROPERTIES DisconnectEnds ThreadSettles
