SPECIFICATION FairSpec
CONSTANTS
  Wire <- SomeWire
  ChannelSize = 1
  RingSize = 3
  LatestSize = 3
  BatchSize = 2
  Callers = {c1, c2}
  MaxStarts = 2
  MaxStops = 2
  RestartWire = 1
INVARIANTS
  FlowBalances
  GapsCounted
  StopIsClean
PROPERTIES
  StopEnds
CHECK_DEADLOCK FALSE
