CONSTANTS
  Messages <- RobotMessages
  MaxSent = 2
  MaxStreams = 2
SPECIFICATION StreamSpec
CHECK_DEADLOCK FALSE
INVARIANTS OnlySentFrames NoMixedConnections CleanFramesArrive ActsInOrder
