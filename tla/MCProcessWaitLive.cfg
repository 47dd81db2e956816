SPECIFICATION FairSpec
CONSTANTS
    Threads = {t1, t2}
    Children = {c1}
    c1 = c1
    c2 = c2
    g1 = g1
    g2 = g2
    NonLibc = {}
    Groups = {g1, g2}
    Group <- MCGroup
    Requests <- LiveRequests
    PreAlloced = 1
    MaxNoMem = 0
    MaxStops = 0
    MaxCalls = 2
    MaxForks = 0
    MaxToggles = 1
    MayExit = TRUE
PROPERTIES EndReported TermFreesWaiters
CHECK_DEADLOCK FALSE
