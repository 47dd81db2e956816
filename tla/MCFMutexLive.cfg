SPECIFICATION FairSpec
CONSTANTS
    Threads = {t1, t2}
    NoOwner = NoOwner
    InitFs <- Created
    MustComplete = FALSE
    Shared = TRUE
    MaxKills = 0
PROPERTIES RefinesMutex WaiterServed
