SPECIFICATION ControlSpec
CONSTANTS
  Readings <- GoodAndBad
  HistSize = 1
  DevPercent = 25
  Threshold = 2
  Cooldown = 0
  AutoRecovery = TRUE
  CountMod = 3
  MaxTime = 1
  Skew = 0
  Axes = 2
INVARIANT FaultsAreReported
