CONSTANTS
  t1 = t1
  t2 = t2
  t3 = t3
  t4 = t4
  Threads = {t1, t2, t3, t4}
  NoThread = NoThread
  Initial = 0
  PermitMax = 2
  Amounts = {0, 1, 2}
  OpsOf <- Roles
SPECIFICATION FairSpec
INVARIANTS TypeOK PermitsHaveTakers
PROPERTIES ImplementsSemaphore CallsSettle
