SPECIFICATION Spec
CONSTANTS
    Threads = {t1, t2, t3, t4}
    InitValue = 1
    MaxPosts = 4
    MaxTimeouts = 2
    MaxTries = 1
SYMMETRY Perms
INVARIANTS WaitsCovered
CHECK_DEADLOCK FALSE
