CONSTANTS
  p1 = p1
  p2 = p2
  a1 = a1
  a2 = a2
  t = t
  u = u
  q1 = q1
  q2 = q2
  class = class
  other = other
  key = key
  key2 = key2
  Procs <- TwoRunners
  Workers <- Nobody
  Adders <- OneAdder
  Timed <- Nobody
  Queued <- QueuedJobs
  Unbuildable <- Nobody
  KeyOf <- TwoJobs
  ClassOf <- Classes
  NoParallel <- QueuedClass
  Interval = 2
  BlockFor = 2
  ReserveFor = 3
  RecheckCap = 8
  Env <- Nothing
  MaxAdds = 1
  MaxTime = 6
SPECIFICATION Spec
INVARIANT NoParallelRuns
