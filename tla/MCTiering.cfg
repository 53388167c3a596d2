SPECIFICATION Spec
CONSTANTS
  r1 = r1
  r2 = r2
  Holders = {r1, r2}
  Ids <- MCIds
  InitRows <- MCInitRows
  Matching <- MCMatching
  Configs <- MCConfigs
  Batch = 2
  Retain = 1
  MaxFaults = 1
  MaxRestores = 1
  MaxCopies = 1
  QIds = {1, 2, 3}
  QTimes = {0, 1, 2, 3}
  QSizes = {0, 1, 2, 6}
  TicksPerSecond = 2
INVARIANTS TypeOK QuietRowsKept CountedIsArchived OneJobPerLock RestoredIsVerifiedAgain 
PROPERTIES QuietPartitionDropped
