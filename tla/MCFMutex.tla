------------------------------ MODULE MCFMutex ------------------------------
(* FMutex on small instances.                                               *)
EXTENDS FMutex, TLC

Perms == Permutations(Threads)

AnyInit == {AutoInitialize, Uninit, Available}
Created == {Available}
=============================================================================
