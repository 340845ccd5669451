SPECIFICATION Spec
CONSTANTS
    d1 = d1
    d2 = d2
    s = s
    Dir = {d1, d2, s}
    Above <- MCAbove
    Outside = {x}
    Cap = 2
    Platforms = {TRUE, FALSE}
    MaxChanges = 3
    SameName = FALSE
INVARIANTS WatchInv EveryDirIsWatched AtRestIsCurrent
PROPERTY TreeReachesIndex
CHECK_DEADLOCK FALSE
