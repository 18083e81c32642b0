SPECIFICATION Spec
CONSTANTS
  MaxPlugs = 2
  MaxOthers = 2
INVARIANTS
  StopsForGood
  OneConnection
  UnplugIsNoticed
PROPERTIES
  LoneCameraPlays
CHECK_DEADLOCK FALSE
