CONSTANTS
  Keys <- MCKeys
  TypingTabs = {"Packages", "Firewall"}
  Metrics <- MCMetrics
  Ops <- MCOps
  MaxInput = 2
  MaxRules = 1
SPECIFICATION Spec
INVARIANTS TypeOK WizardWhole
PROPERTIES CapturerKeepsKeys QuitOnlyFromBase
CHECK_DEADLOCK FALSE
