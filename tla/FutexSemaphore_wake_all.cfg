CONSTANTS
  t1 = t1
  t2 = t2
  t3 = t3
  t4 = t4
  Threads = {t1, t2, t3, t4}
  Initial = 0
  MaxPermits = 2
  Amounts = {0, 1, 2}
  OpsOf <- Roles
  Builds = {"linux"}
  NrWake <- HighAddress
  INFINITE = 4
SPECIFICATION Spec
INVARIANT NobodyForgotten
