\* A dereference without the mutex: a structure is given away while a lookup has it.
SPECIFICATION DBSpec
CONSTANTS
    Threads = {t1, t2, t3}
    i1 = i1
    i2 = i2
    i3 = i3
    p0 = p0
    p1 = p1
    p2 = p2
    Tids <- MCTids
    Structs <- MCStructs
    PreAlloc = p0
    FirstTid = i1
    None = None
    MaxStarts = 3
    MaxLookups = 2
    MaxForks = 1
    MaxInterrupts = 1
SYMMETRY Symmetry
INVARIANT Intact
CHECK_DEADLOCK FALSE
