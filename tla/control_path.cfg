SPECIFICATION FairControlSpec
CONSTANTS
  Readings <- GoodAndBad
  HistSize = 1
  DevPercent = 25
  Threshold = 1
  Cooldown = 0
  AutoRecovery = TRUE
  CountMod = 2
  MaxTime = 1
  Skew = 0
  Axes = 2
INVARIANTS
  ControlInv
  OneBatchAfterFault
  OneBatchAfterDisable
  OneUpdateSurvives
PROPERTY EveryCheckReturns
