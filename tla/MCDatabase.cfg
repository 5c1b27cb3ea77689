SPECIFICATION FairSpec
CONSTANTS
  Con = {c1, c2}
  Caller = {t1}
  Main = m
  Executor = e
  Querier = q
  None = None
  MaxQueries = 1
  MaxBuffers = 1
  Size = 2
  MaxTroubles = 1
INVARIANTS Consistent ConnectionsOwned
PROPERTIES NobodyStuck StoredWhileRunning
