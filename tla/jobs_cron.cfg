CONSTANTS
  p1 = p1
  p2 = p2
  a1 = a1
  a2 = a2
  t = t
  u = u
  q1 = q1
  q2 = q2
  class = class
  other = other
  key = key
  key2 = key2
  Procs <- TwoRunners
  Workers <- OneWorker
  Adders <- OneAdder
  Timed <- TimedJob
  Queued <- QueuedJobs
  Unbuildable <- DisabledJob
  KeyOf <- SameJob
  ClassOf <- Classes
  NoParallel <- QueuedClass
  Interval = 2
  BlockFor = 2
  ReserveFor = 3
  RecheckCap = 8
  Env <- Nothing
  MaxAdds = 2
  MaxTime = 7
SPECIFICATION Spec
SYMMETRY Symmetry
INVARIANTS
  TypeOK
  OneRunner
  NoStrayReservation
  AddNotLost
  OneRunPerWrite
PROPERTY IntervalRespected
