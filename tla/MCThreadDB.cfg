\* Three threads at a time, four over the life of the process, three ids that are used
\* again and again; one fork.
SPECIFICATION DBSpec
CONSTANTS
    Threads = {t1, t2, t3}
    i1 = i1
    i2 = i2
    i3 = i3
    p0 = p0
    p1 = p1
    p2 = p2
    Tids <- MCTids
    Structs <- MCStructs
    PreAlloc = p0
    FirstTid = i1
    None = None
    MaxStarts = 3
    MaxLookups = 2
    MaxForks = 1
    MaxInterrupts = 1
SYMMETRY Symmetry
INVARIANTS NoDangling LookupIsCurrent DerefFinds
CHECK_DEADLOCK FALSE
