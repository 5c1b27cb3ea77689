SPECIFICATION FairSpec
CONSTANTS
  Event = {e1, e2}
  Map = {a}
  World = w
  None = None
  NotInWorldContext = {e2}
  DeletesObject = {e2}
  MaxTime = 2
  MaxOps = 2
  QueuedAdds = FALSE
INVARIANTS Consistent OneHome NoneLeftBehind OneShotOnce NoGhostCalls
PROPERTIES EventsRun
CHECK_DEADLOCK FALSE
