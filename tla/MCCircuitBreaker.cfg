SPECIFICATION FairSpec
CONSTANTS
  Callers = {c1, c2, c3}
  Probes = 2
  OpenDuration = 1
  Window = 2
  Num = 1
  Den = 2
  MaxPerWindow = 6
  MaxCancels = 3
INVARIANTS TypeOK NoPermitLeak
PROPERTIES OpensOnFreshEvidence Recovers
