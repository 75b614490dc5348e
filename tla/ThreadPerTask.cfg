CONSTANTS
  Clients = {c1, c2, c3}
  Workers = {w1, w2, w3}
  NoWorker = NoWorker
  MaxThreads = 2
SPECIFICATION FairSpec
INVARIANTS TypeOK CountExact LimitKept ThreadsTracked PlacesHaveTakers
PROPERTIES SubmitsReturn DisposeReturns
