SPECIFICATION Spec
CONSTANTS
  N = 2
  Runners = {r1}
  MaxStops = 2
INVARIANTS CompensatedLeavesNoDone
CHECK_DEADLOCK FALSE
