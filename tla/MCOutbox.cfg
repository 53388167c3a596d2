SPECIFICATION FairSpec
CONSTANTS
  NumIds = 3
  Poison = {1, 2}
  Relays = {r1, r2}
  Batch = 2
  Lease = 1
  StaleBackoff = 1
  MaxBackoff = 2
  MaxAttempts = 1
  MaxFaults = 2
INVARIANTS TypeOK LeaseExclusive
PROPERTIES DoneIsFinal EventuallyDone
