CONSTANTS
  r1 = r1
  r2 = r2
  r3 = r3
  Procs <- ThreeRequests
  Env <- Crashes
  MaxShared = 1
  MaxCount = 3
  Ttl = 3
  MaxTime = 5
SPECIFICATION Spec
SYMMETRY Symmetry
INVARIANTS
  TypeOK
  KeyCoversHolders
PROPERTY ImplementsFileLock
