SPECIFICATION FairSpec
CONSTANTS
  Scores <- ScoreClasses
  ThrusterCount = 1
  HealthThreshold = 35
  ConsecutiveAnomalies = 2
  LockDuration = 2
  MinLockInterval = 0
  AuditSize = 2
  ChannelSize = 1
  BufferSize = 2
  Skew = 1
  MaxTime = 2
  MaxRow = 2
  MaxLocks = 2
  MaxResets = 1
INVARIANTS
  ValveInv
  AuditAgrees
  RecentIsLatest
  ReportBalances
PROPERTIES
  LockLasts
  EveryLockCompletes
  EveryLockEnds
CHECK_DEADLOCK FALSE
