SPECIFICATION Spec
CONSTANTS
  Workers = {0, 1}
  WorkerIds = 2
  Threads = {t1, t2}
  PerMs = 2
  MaxTimestamp = 1
  MaxClock = 2
  MaxRollbacks = 1
SYMMETRY Symmetry
INVARIANTS TypeOK Unique NoFalseRollback
PROPERTIES Increasing
