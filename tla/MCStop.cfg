SPECIFICATION Spec
CONSTANTS
  N = 4
  Stops = {3}
  Foreign = {2}
  Limit = 2
  MaxStarts = 3
  Crashes = FALSE
INVARIANTS
  StopEndsOneProcess
CHECK_DEADLOCK FALSE
