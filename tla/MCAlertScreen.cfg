CONSTANTS
  Metrics = {"cpu"}
  Parts = {"total"}
  Labels = {"busy"}
  Snapshots <- MCSnapshots
  Configs <- MCConfigs
  SubCap = 2
  OutCap = 2
  DefaultMax = 50
  MaxSnapshots = 3
  BusCap = 2
SPECIFICATION ScreenSpec
PROPERTIES AlertsReachScreen
CHECK_DEADLOCK FALSE
