SPECIFICATION FairSpec
CONSTANTS
  Tx = {t1}
  N = 3
  Recoverers = {r1, r2}
  MaxFaults = 3
  MaxCrashes = 2
INVARIANTS TypeOK Atomicity FinalLogIsTrue CallerIsTold
PROPERTIES DecisionStable ImplementsAtomicCommit RecoveryResolves
CHECK_DEADLOCK FALSE
