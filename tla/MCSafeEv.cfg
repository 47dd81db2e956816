\* Three threads that may all sleep, on either of two events.
SPECIFICATION FairSpec
CONSTANTS
  Threads = {t1, t2, t3}
  Evs = {e1, e2}
  NoThread = NoThread
INVARIANTS CompletedOnce WakeReaches
PROPERTY SleeperReturns
