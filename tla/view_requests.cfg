CONSTANTS
  r1 = r1
  r2 = r2
  c = c
  a = a
  b = b
  d = d
  Procs <- Processes
  Paths <- Tree
  Parents <- TreeParents
  MaxJobs = 2
  MaxActive = 2
  Env <- NoLiberty
  MaxShared = 4
  MaxRow = 8
  Jobs <- EveryJob
  Caching <- WebRequests
SPECIFICATION ViewSpec
SYMMETRY Symmetry
INVARIANTS
  ViewTypeOK
  StorageIsolated
  JobsLeaveNothing
  NoStrayLock
PROPERTY ReleasesOnlyOwn
