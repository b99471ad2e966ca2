CONSTANTS
  MaxStarts = 4
  MaxSizes = 3
SPECIFICATION FairSpec
INVARIANTS TypeOK CurrentShellRead NeverDead OrderlyWithoutOverlap
PROPERTIES Recovers
CHECK_DEADLOCK FALSE
