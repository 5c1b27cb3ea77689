SPECIFICATION FairSpec
CONSTANTS
    Accepted = {a}
    Dialed = {d}
    Fd = {f1}
    Thread = {t}
    Worker = Worker
    Listen = Listen
    None = None
    Shutdown = TRUE
INVARIANTS Consistent
PROPERTIES ClosesOwn Reaped
CHECK_DEADLOCK FALSE
