\* Two threads and three slots in one word, so that allocations overtake each other; one
\* is killed and the process exits while the other waits for the initialisation.
SPECIFICATION TLSFairSpec
CONSTANTS
    Threads = {t1, t2}
    Max = 3
    WordBits = 3
    ByteBits = 1
    MaxKills = 1
    MaxSets = 1
    MaxEnds = 1
INVARIANTS SlotsAccounted NeverGivesUp RegisteredOnce
PROPERTIES RefinesMutex ExitEndsWait
CHECK_DEADLOCK FALSE
