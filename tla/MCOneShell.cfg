CONSTANTS
  MaxStarts = 2
  MaxSizes = 2
SPECIFICATION Spec
INVARIANTS OneShell
CHECK_DEADLOCK FALSE
