SPECIFICATION FairSpec
CONSTANTS
  Threads = {t1, t2, t3}
  Handles = {0, 1, 2, 3}
  FirstHandle = 0
  None = None
  Died = Died
  Closed = Closed
  MaxOwnerDied = 3
  MaxKills = 1
CHECK_DEADLOCK FALSE
INVARIANTS TypeOK MutualExclusion HeldIsUnkillable
PROPERTY LockReturns
