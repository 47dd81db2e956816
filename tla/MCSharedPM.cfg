\* Three processes that start one another, and too little room for all their blocks.
SPECIFICATION Spec
CONSTANTS
    p1 = p1
    p2 = p2
    p3 = p3
    Procs <- MCProcs
    Root = p1
    Blocks = {b1, b2, b3, b4}
    None = None
    MaxFails = 2
    MaxQueries = 1
SYMMETRY Symmetry
INVARIANTS ListsAgree Counted NoteReachesParent InheritsOwn
CHECK_DEADLOCK FALSE
