CONSTANTS
  Sock = {s1, s2}
  Account = {a, b}
  GM = {b}
  Worker = worker
  World = world
  None = none
  PlayerLimits = {1, 2}
SPECIFICATION FairSpec
INVARIANTS Consistent FoundByAccount
PROPERTIES WorkerReturns OrphanDeleted
CHECK_DEADLOCK FALSE
