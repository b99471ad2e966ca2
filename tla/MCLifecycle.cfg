CONSTANTS
  Services = {s1}
  Kinds = {"ticker", "seeded", "initial", "background", "stream"}
  OutCap = 2
  BusCap = 2
  LineCap = 1
  MaxReadings = 3
SPECIFICATION FairSpec
INVARIANTS TypeOK InOrder QuietAfterStop
PROPERTIES QuitExits
CHECK_DEADLOCK FALSE
