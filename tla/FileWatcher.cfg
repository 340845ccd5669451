SPECIFICATION FairSpec
CONSTANTS
    File = {f1, f2}
    MaxLockRetries = 1
    MaxSyncFailureRetries = 0
    ScopedMax = 1
    CoarseClock = FALSE
INVARIANTS StaleIsOwed WorkIsScheduled WatcherInv
PROPERTY EditsReachIndex
CHECK_DEADLOCK FALSE
