CONSTANTS
  Conn = {c1, c2}
  None = none
  MaxTroubles = 3
SPECIFICATION FairSpec
INVARIANTS Consistent OnlineHeld RestartedOnlineInOrder
PROPERTIES LinkMade
CHECK_DEADLOCK FALSE
