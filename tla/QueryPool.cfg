SPECIFICATION PoolSpec
CONSTANTS
    Worker = {w1, w2, w3}
    MaxJobs = 2
    MaxSize = 2
    WarmFloor = 1
    ColdSpawn = 1
    WarmSpawn = 2
    CrashBudget = 3
    MaxRetries = 1
    HasRoot = TRUE
INVARIANTS PoolInv
PROPERTIES EveryCallIsServed ShutdownEnds
CHECK_DEADLOCK FALSE
