CONSTANTS
  o1 = o1
  Owner = d1
  Threads = {w1, w2, c1, o1, d1}
  Workers = {w1, w2}
  Clients = {c1}
  NoThread = NoThread
  NoJob = NoJob
  Holders = {i1}
  Items = {i1, i2, i3}
  Requested = 1
  UsizeMax = 3
  OpsOf <- PoolOps
SPECIFICATION FairSpec
INVARIANTS TypeOK JobsKept DisposeFinishes
PROPERTIES DisposeReturns AcceptedJobsRun SubmitsReturn
