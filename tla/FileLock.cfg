SPECIFICATION FairSpec
CONSTANTS
    Proc = {p1, p2, p3}
    MaxBreakDepth = 2
    LinksFail = TRUE
    MaxFaults = 1
    SlowProbe = FALSE
INVARIANTS MutualExclusion LockInv
PROPERTIES ImplementsLock StaleIsReplaced
CHECK_DEADLOCK FALSE
