SPECIFICATION Spec
CONSTANTS
    Proc = {p1, p2, p3, p4}
    MaxBreakDepth = 1
    LinksFail = FALSE
    MaxFaults = 0
    SlowProbe = TRUE
SYMMETRY Symmetry
INVARIANT MutualExclusion
CHECK_DEADLOCK FALSE
