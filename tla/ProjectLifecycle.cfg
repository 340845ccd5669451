SPECIFICATION Spec
CONSTANTS
    p1 = p1
    p2 = p2
    d = d
    None = None
    Proc = {p1, p2, d}
    Daemon = {d}
    MaxFaults = 2
    MaxRefs = 2
    MaxLeases = 3
INVARIANTS LifecycleInv WriterHasSlot SlotIsNotLeaked
PROPERTIES LeaseIsServed RetirementEnds
CHECK_DEADLOCK FALSE
