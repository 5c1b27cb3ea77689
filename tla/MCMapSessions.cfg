CONSTANTS
  Map = {a, b}
  World = w
  None = none
  MaxPackets = 2
SPECIFICATION FairSpec
INVARIANTS Consistent Owner NeverLost DeletedByOwner
PROPERTIES OrphanDeleted
CHECK_DEADLOCK FALSE
