SPECIFICATION Spec
CONSTANTS
    Threads = {t1, t2, t3, t4}
    InitValue = 0
    MaxPosts = 2
    MaxTimeouts = 0
    MaxTries = 0
SYMMETRY Perms
INVARIANT NoStrandedWaiter
CHECK_DEADLOCK FALSE
