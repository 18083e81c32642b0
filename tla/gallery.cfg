SPECIFICATION Spec
CONSTANTS
  MaxFiles = 4
  MaxTimers = 3
  MaxPending = 2
INVARIANTS
  CrashNeedsTrim
  CountdownStops
PROPERTIES
  RemovesWhatIsSeen
CHECK_DEADLOCK FALSE
