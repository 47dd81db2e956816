SPECIFICATION FairSpec
CONSTANTS
    Threads = {t1}
    Children = {c1, c2}
    c1 = c1
    c2 = c2
    g1 = g1
    g2 = g2
    NonLibc = {}
    Groups = {g1, g2}
    Group <- MCGroup
    Requests <- AnyRequests
    PreAlloced = 1
    MaxNoMem = 0
    MaxStops = 0
    MaxCalls = 3
    MaxForks = 0
    MaxToggles = 0
    MayExit = FALSE
PROPERTY ChildlessWaitReturns
CHECK_DEADLOCK FALSE
