SPECIFICATION FairSpec
CONSTANTS
    File = {f1, f2}
    MaxDb = 2
    MaxFails = 1
INVARIANTS  LagIsOwed RebuildIsLetThrough CompleteIsWhole
PROPERTY WatcherIsNotParked
CHECK_DEADLOCK FALSE
