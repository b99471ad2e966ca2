CONSTANTS
  Tabs = {"Process", "Docker", "Packages", "Services", "Firewall", "Users", "Advanced",
          "Network", "Dashboard"}
  Listings <- MCListings
  Kept <- MCKept
  Engines <- MCEngines
  SvcEngine = "e1"
  Heights <- MCHeights
  MaxInput = 2
  MaxFilter = 1
  Mortal = {"b"}
  Hits <- MCHits
  MaxCmds = 1
  Columns <- MCColumns
  Rank <- MCRank
  Signals <- MCSignals
  PidText <- MCPidText
  DetailLines = 17
  LogLines = 18
  MaxScroll = 5
  Categories = 2
  Phrase <- MCPhrase
  MaxCursor = 3
  Panels <- MCPanels
  PanelHeight <- MCPanelHeight
  Keys <- MCKeys
SPECIFICATION Spec
INVARIANTS TypeOK ActsAsAsked TypedInFull WindowSafe LayoutWhole
CHECK_DEADLOCK FALSE
