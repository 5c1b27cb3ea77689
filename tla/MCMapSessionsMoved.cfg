CONSTANTS
  Map = {a}
  World = w
  None = none
  MaxPackets = 1
SPECIFICATION Spec
INVARIANT MovedNotDeleted
CHECK_DEADLOCK FALSE
