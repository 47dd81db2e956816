\* Two threads, two children, one of which does not use the library; allocations may fail
SPECIFICATION Spec
CONSTANTS
    Threads = {t1, t2}
    Children = {c1, c2}
    c1 = c1
    c2 = c2
    g1 = g1
    g2 = g2
    NonLibc = {c2}
    Groups = {g1, g2}
    Group <- MCGroup
    Requests <- MixedRequests
    PreAlloced = 1
    MaxNoMem = 1
    MaxStops = 1
    MaxCalls = 2
    MaxForks = 1
    MaxToggles = 0
    MayExit = FALSE
INVARIANTS HandlerFinds ToldOnce ForgetsParent
PROPERTY NoFalseEchild
SYMMETRY ThreadSymmetry
CHECK_DEADLOCK FALSE
