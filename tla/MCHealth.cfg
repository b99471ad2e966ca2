CONSTANTS
  Services = {s1}
  Kinds = {"stream"}
  OutCap = 1
  BusCap = 1
  LineCap = 1
  MaxReadings = 2
SPECIFICATION Spec
INVARIANTS HealthTellsEnd
CHECK_DEADLOCK FALSE
