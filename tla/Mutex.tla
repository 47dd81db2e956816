------------------------------- MODULE Mutex -------------------------------
(***************************************************************************)
(* What a mutex of the C library promises its callers, whatever it is made  *)
(* of: at any time at most one thread is between the return of a successful *)
(* request and the release that ends it.  FMutex and SMutex are shown to    *)
(* implement this specification.                                            *)
(***************************************************************************)
CONSTANT Threads

VARIABLE holders        \* the threads a request has been granted to

Init == holders = {}

Acquire(t) == holders = {} /\ holders' = {t}

Release(t) == t \in holders /\ holders' = holders \ {t}

Next == \E t \in Threads : Acquire(t) \/ Release(t)

Spec == Init /\ [][Next]_holders
=============================================================================
