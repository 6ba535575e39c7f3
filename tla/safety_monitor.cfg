SPECIFICATION MonitorSpec
CONSTANTS
  Readings <- AllReadings
  HistSize = 2
  DevPercent = 25
  Threshold = 3
  Cooldown = 1
  AutoRecovery = TRUE
  CountMod = 5
  MaxTime = 3
  Skew = 1
INVARIANTS
  DetectionBound
  MonitorInv
PROPERTIES
  NoTripOnIsolatedFault
  CooldownKept
