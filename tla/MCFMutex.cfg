SPECIFICATION Spec
CONSTANTS
    Threads = {t1, t2, t3}
    NoOwner = NoOwner
    InitFs <- AnyInit
    MustComplete = TRUE
    Shared = FALSE
    MaxKills = 1
SYMMETRY Perms
INVARIANTS TypeOK MutualExclusion OwnerCoherent NoLostWakeup MustCompleteBalanced
