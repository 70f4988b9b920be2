CONSTANTS
  r1 = r1
  r2 = r2
  c = c
  a = a
  b = b
  d = d
  Procs <- TwoCli
  Paths <- Tree
  Parents <- TreeParents
  MaxJobs = 2
  MaxActive = 2
  Env <- NoLiberty
  MaxShared = 4
  MaxRow = 8
  Jobs <- RenameJobs
  Caching <- NoProcs
SPECIFICATION ViewSpec
INVARIANT StorageIsolated
