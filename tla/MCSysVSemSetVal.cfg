SPECIFICATION Spec
CONSTANTS
  NoThread = NoThread
  Threads = {p1, p2}
  Evs = {0}
  SEMMNS = 3
  SEMMNU = 1
  SEMUME = 2
  SEMVMX = 2
  SEMAEM = 1
  SeqMod = 32768
  CountMod = 65536
  Sizes = {3}
  Values = {0, 1, 3}
  Commands = {"SETALL", "SETVAL", "IPC_RMID"}
  MaxGets = 2
  MaxCalls = 4
  Vectors <- Triples
SYMMETRY Perms
CHECK_DEADLOCK FALSE
INVARIANT UndoExact
