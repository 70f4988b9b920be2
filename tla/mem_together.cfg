CONSTANTS
  r1 = r1
  r2 = r2
  r3 = r3
  Procs <- ThreeRequests
  Env <- Together
  MaxShared = 1
  MaxCount = 3
  Ttl = 4
  MaxTime = 3
SPECIFICATION Spec
SYMMETRY Symmetry
INVARIANT MutualExclusion
