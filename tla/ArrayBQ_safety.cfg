CONSTANTS
  t1 = t1
  t2 = t2
  t3 = t3
  t4 = t4
  i1 = i1
  i2 = i2
  i3 = i3
  Threads = {t1, t2, t3}
  NoThread = NoThread
  Items = {i1, i2, i3}
  Requested = 2
  UsizeMax = 3
  OpsOf <- AnyOps
SPECIFICATION Spec
SYMMETRY AllSymmetry
INVARIANTS TypeOK ItemsConserved CommitsAreSafe ExhaustedIsFinal NoLostWakeup
PROPERTY ImplementsBlockingQueue
