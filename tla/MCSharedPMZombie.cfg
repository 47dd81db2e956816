\* A zombie that is still referenced is given to somebody else.
SPECIFICATION Spec
CONSTANTS
    p1 = p1
    p2 = p2
    p3 = p3
    Procs <- MCProcs
    Root = p1
    Blocks = {b1, b2, b3, b4}
    None = None
    MaxFails = 1
    MaxQueries = 1
SYMMETRY Symmetry
INVARIANT HeldIsKept
CHECK_DEADLOCK FALSE
