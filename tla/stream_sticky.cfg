CONSTANTS
  Messages <- RobotMessages
  MaxSent = 3
  MaxStreams = 1
SPECIFICATION StreamSpec
CHECK_DEADLOCK FALSE
INVARIANTS EveryFrameArrives
