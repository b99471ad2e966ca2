CONSTANTS
  Keys <- MCKeys
  TypingTabs = {"Network", "Firewall"}
  Metrics <- MCMetrics
  Ops <- MCOps
  MaxInput = 2
  MaxRules = 1
SPECIFICATION Spec
PROPERTIES TypingKeepsTab
CHECK_DEADLOCK FALSE
