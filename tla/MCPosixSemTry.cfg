\* One post and two tries, as in tst-sem1.c.
SPECIFICATION Spec
CONSTANTS
    Threads = {t1}
    InitValue = 0
    MaxPosts = 1
    MaxTimeouts = 0
    MaxTries = 2
INVARIANT TriesCovered
CHECK_DEADLOCK FALSE
