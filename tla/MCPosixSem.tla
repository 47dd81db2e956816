----------------------------- MODULE MCPosixSem -----------------------------
(* PosixSem on small instances.                                             *)
EXTENDS PosixSem, TLC

Perms == Permutations(Threads)
=============================================================================
