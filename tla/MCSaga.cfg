SPECIFICATION FairSpec
CONSTANTS
  N = 4
  Runners = {r1}
  MaxStops = 4
INVARIANTS CompletedIsApplied CompensatedOrFlagged
PROPERTIES EffectsInOrder Terminates
CHECK_DEADLOCK FALSE
