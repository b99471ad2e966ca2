SPECIFICATION Spec
CONSTANTS
  Rules <- MCRules
  Width = 2
  MaxGrowth = 1
  Objects <- MCObjects
  Pids <- MCPids
  Paths <- MCPaths
  MaxEvents = 3
  Units <- MCUnits
  RunsAs <- MCRunsAs
  Chunk = 4
  maxLines = 2
  TabStop = 2
  MaxText = 4
INVARIANTS TypeOK DeletesShown RateIsGrowth TreeWhole ListingTrue EnginesAgree ScreenShowsOutput
PROPERTIES AppendOnly WrittenAsConfigured
CHECK_DEADLOCK FALSE
