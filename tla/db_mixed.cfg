CONSTANTS
  r1 = r1
  r2 = r2
  c1 = c1
  c2 = c2
  a = a
  Procs <- WebAndCli
  Paths <- OneFile
  Caching <- TwoRequests
  Env <- CrashesUnowned
  MaxShared = 2
  MaxRow = 6
SPECIFICATION FairSpec
INVARIANTS
  TypeOK
  MutualExclusion
  RowCoversHolders
  IsLockedSeesHolders
PROPERTIES
  ImplementsFileLock
  StrayLocksCleared
