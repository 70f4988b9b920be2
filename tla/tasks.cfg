CONSTANTS
  q1 = q1
  q2 = q2
  d = d
  a = a
  b = b
  c1 = c1
  c2 = c2
  w1 = w1
  x1 = x1
  k1 = k1
  local = local
  remote = remote
  Direct <- RunTasks
  Queued <- QueuedTasks
  Types <- AllTypes
  Sync <- LocalType
  TypeOf <- TypeOfTask
  Crons <- TwoCrons
  Workers <- OneWorker
  Apps <- OneApp
  Clients <- OneClient
  Sites <- FourSites
  Env <- Crashes
SPECIFICATION Spec
INVARIANTS
  TypeOK
  ClaimedOnce
  JobListed

  
  
