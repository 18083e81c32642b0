CONSTANTS
  MaxStarts = 2
  MaxFrames = 3
SPECIFICATION FairSpec
CHECK_DEADLOCK FALSE
INVARIANTS OneRenderer ShownInOrder NoBlankOfItsOwn QueueIsSound
PROPERTIES StopReturns FrameIsShown
