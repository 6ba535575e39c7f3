SPECIFICATION Spec
CONSTANTS
  Samples <- SomeSamples
  SeqCounts = {0, 16383, 16384}
  Timestamps <- SomeTimestamps
  Emergencies <- SomeEmergencies
  Commands <- SomeCommands
  BufferLens = {27, 28, 31, 32, 35, 36, 37, 64}
  WrongBytes = {0, 1, 8, 12, 13, 24, 66, 127, 128, 255}
  MaxSamples = 2
INVARIANTS
  DecodedIsSent
CHECK_DEADLOCK FALSE
