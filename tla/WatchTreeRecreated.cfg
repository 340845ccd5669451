SPECIFICATION Spec
CONSTANTS
    d1 = d1
    d2 = d2
    s = s
    Dir = {d1}
    Above <- MCAbove
    Outside = {}
    Cap = 1
    Platforms = {FALSE}
    MaxChanges = 3
    SameName = TRUE
PROPERTY TreeReachesIndex
CHECK_DEADLOCK FALSE
