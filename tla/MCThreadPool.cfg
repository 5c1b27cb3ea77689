SPECIFICATION PoolFairSpec
CONSTANTS
    Tid = {t1, t2, t3}
    Task = {k1, k2}
    NoTask = NoTask
    Reserve = 1
    MaxChecks = 2
    Shutdowns = TRUE
INVARIANTS PoolSound Exclusive
PROPERTIES TaskRunsUnkilled ShutdownEndsWhenCounted
CHECK_DEADLOCK FALSE
