\* Two sleepers on one event and a thread that wakes them.
SPECIFICATION ClientSpec
CONSTANTS
  Threads = {t1, t2, t3}
  Evs = {e1}
  NoThread = NoThread
INVARIANT WakesAll
