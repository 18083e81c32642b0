CONSTANTS
  MaxCaptures = 3
  MaxRecords = 3
  MaxPictures = 2
SPECIFICATION Spec
CHECK_DEADLOCK FALSE
INVARIANTS LonePicture ButtonsMatchRecorder
