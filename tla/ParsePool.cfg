SPECIFICATION Spec
CONSTANTS
    Worker = {w1, w2}
    Job = {1, 2}
    MaxSize = 2
    MaxSpawn = 1
    CrashBudget = 2
    RecycleInterval = 1
INVARIANTS ParseInv QueuedHasWorker
PROPERTIES ImplementsCalls DestroyEnds
