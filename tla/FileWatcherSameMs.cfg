SPECIFICATION FairSpec
CONSTANTS
    File = {f1, f2}
    MaxLockRetries = 0
    MaxSyncFailureRetries = 0
    ScopedMax = 2
    CoarseClock = TRUE
PROPERTY EditsReachIndex
CHECK_DEADLOCK FALSE
