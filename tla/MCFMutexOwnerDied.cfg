SPECIFICATION Spec
CONSTANTS
    Threads = {t1, t2}
    NoOwner = NoOwner
    InitFs <- Created
    MustComplete = FALSE
    Shared = FALSE
    MaxKills = 0
INVARIANT OwnerDiedIsTrue
