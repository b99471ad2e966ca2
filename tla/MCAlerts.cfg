CONSTANTS
  Metrics <- MCMetrics
  Parts <- MCParts
  Labels <- MCLabels
  Snapshots <- MCSnapshots
  Configs <- MCConfigs
  SubCap = 2
  OutCap = 2
  DefaultMax = 2
  MaxSnapshots = 3
SPECIFICATION FairSpec
INVARIANTS TypeOK RecentHistory ActiveExplained
PROPERTIES ImplementsBoard EverythingExamined
CHECK_DEADLOCK FALSE
