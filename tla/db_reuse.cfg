CONSTANTS
  r1 = r1
  r2 = r2
  c1 = c1
  c2 = c2
  a = a
  Procs <- TwoRequests
  Paths <- OneFile
  Caching <- TwoRequests
  Env <- Reuse
  MaxShared = 1
  MaxRow = 3
SPECIFICATION Spec
INVARIANT KeptLockIsInDb
