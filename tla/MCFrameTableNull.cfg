SPECIFICATION Spec
CONSTANTS
  TotalUts = 8
  FramesPerPage = 3
  FrameLimit = 0
  MaxSide = 1
INVARIANT
  AllocFailureReturns
CHECK_DEADLOCK FALSE
