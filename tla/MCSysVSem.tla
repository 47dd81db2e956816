----------------------------- MODULE MCSysVSem -----------------------------
EXTENDS SysVSem, TLC

\* sembuf
Sop(num, op, flg) == [num |-> num, op |-> op, flg |-> flg]

U == {"SEM_UNDO"}

\* Vectors over a set of three: takes and gives of two of them, with and without SEM_UNDO
\* and IPC_NOWAIT, waits for zero, one whose second operation may fail after the first
\* was done, and one that runs out of undo space half way, after it deleted an entry or
\* not.
Triples ==
    { <<Sop(0, -1, U), Sop(1, -1, {})>>,
      <<Sop(0, 1, {}), Sop(1, 1, U)>>,
      <<Sop(1, 0, {}), Sop(0, 1, U)>>,
      <<Sop(1, -1, {}), Sop(0, -1, {"IPC_NOWAIT"})>>,
      <<Sop(0, -1, U), Sop(1, 1, U), Sop(2, 1, U), Sop(0, 1, U)>> }

\* Vectors for a violation to be found with: a wait, a take to undo, a give
Few == { <<Sop(0, -1, {})>>, <<Sop(0, 1, U)>> }

Perms == Permutations(Threads)
=============================================================================
