SPECIFICATION Spec
CONSTANTS
  NoThread = NoThread
  Threads = {p1, p2}
  Evs = {0, 1, 2}
  SEMMNS = 3
  SEMMNU = 2
  SEMUME = 1
  SEMVMX = 2
  SEMAEM = 1
  SeqMod = 32768
  CountMod = 65536
  Sizes = {1}
  Values = {0, 1, 3}
  Commands = {"IPC_RMID"}
  MaxGets = 2
  MaxCalls = 4
  Vectors <- Few
SYMMETRY Perms
CHECK_DEADLOCK FALSE
INVARIANT PoolDisjoint
