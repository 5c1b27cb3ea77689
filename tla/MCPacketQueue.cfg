SPECIFICATION FairSpec
CONSTANTS
    Sender = {s, t}
    Updater = u
    Free = Free
    Room = 3
    PacketSize = {1, 2}
    MaxSent = 2
INVARIANTS Consistent OrderWithinWay
PROPERTIES Flushed
CHECK_DEADLOCK FALSE
