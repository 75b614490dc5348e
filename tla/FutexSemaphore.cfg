CONSTANTS
  t1 = t1
  t2 = t2
  t3 = t3
  t4 = t4
  Threads = {t1, t2, t3, t4}
  Initial = 0
  MaxPermits = 2
  Amounts = {0, 1, 2}
  OpsOf <- Roles
  Builds = {"linux", "windows"}
  NrWake <- LowAddress
  INFINITE = 4
SPECIFICATION FairSpec
INVARIANTS TypeOK PermitsHaveTakers 
PROPERTIES ImplementsSemaphore CallsSettle
