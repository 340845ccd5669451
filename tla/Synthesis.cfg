SPECIFICATION SynthSpec
CONSTANTS
    Task = {"sync", "refresh", "deferred"}
    MaxCalls = 1
    MaxEdits = 2
    MaxFaults = 2
INVARIANTS SynthInv MutexInv DebtIsKnown
PROPERTIES WritesUnderLock DebtIsPaid
