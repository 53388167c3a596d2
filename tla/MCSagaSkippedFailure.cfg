SPECIFICATION Spec
CONSTANTS
  N = 2
  Runners = {r1}
  MaxStops = 1
INVARIANTS FailedUndoIsNotSkipped
CHECK_DEADLOCK FALSE
