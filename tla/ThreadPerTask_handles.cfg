CONSTANTS
  Clients = {c1}
  Workers = {w1, w2, w3}
  NoWorker = NoWorker
  MaxThreads = 1
SPECIFICATION Spec
INVARIANT HandlesReaped
