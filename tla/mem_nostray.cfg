CONSTANTS
  r1 = r1
  r2 = r2
  r3 = r3
  Procs <- TwoRequests
  Env <- Anyhow
  MaxShared = 2
  MaxCount = 4
  Ttl = 2
  MaxTime = 1
SPECIFICATION Spec
SYMMETRY Symmetry
INVARIANT NoStrayLock
