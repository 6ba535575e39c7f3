SPECIFICATION BGSpec
CONSTANTS
  Parts = {"stream", "frames", "watchdog"}
  Capacity = 4
  Window = 2
  MaxBatch = 3
  MaxSamples = 6
  FrameKinds = {"DoubleBuffer", "DoubleSeqLock"}
  Size = 2
  MaxMany = 3
  MaxFrames = 4
  Timeout = 4
INVARIANTS
  WindowsInOrder
  FramesWhole
  AlarmsBounded
PROPERTIES
  WindowsProcessed
  ReadFrontEnds
  SilenceReported
CHECK_DEADLOCK FALSE
