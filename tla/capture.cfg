SPECIFICATION CaptureFair
CONSTANTS
  Readers = {"t1", "t2"}
  Addrs <- TheAddrs
  Libs <- TheLibs
  Fixed <- TheFixed
  MaxRanges = 3
  MaxLoads = 1
  Modes <- TheModes
  Depth = 3
  FpDepth = 1
  MaxCaptures = 2
CHECK_DEADLOCK FALSE
INVARIANTS SearchCorrect WalkSurvives FramesWritten ActionRestored
PROPERTIES CaptureEnds
