------------------------------ MODULE SafeMtx ------------------------------
(***************************************************************************)
(* The signal-safe mutex of lib/sys/safesems.c: an OS/2 mutex semaphore     *)
(* held inside a must-complete section.  A request is tried for 1 ms inside *)
(* the section, then outside it for up to 30 s; an owner that died is to be *)
(* remedied by putting a new mutex in place of the old one.                 *)
(*                                                                          *)
(* A thread here stands for a process that shares the mutex.  External: the *)
(* OS/2 mutex (a mutex whose owner ends answers every later request with    *)
(* ERROR_SEM_OWNER_DIED), the must-complete count (a thread with a count    *)
(* above zero is not killed) and the clock.                                 *)
(***************************************************************************)
EXTENDS Naturals, FiniteSets

CONSTANTS Threads,
          Handles, FirstHandle,   \* mutex handles of the kernel
          None, Died, Closed,     \* an unowned, a dead and an unused handle
          MaxOwnerDied,           \* cOwnerDied, 30 in the code
          MaxKills                \* bound: threads killed

ASSUME HandleAssumption == FirstHandle \in Handles
ASSUME SpecialAssumption ==
    /\ None \notin Threads /\ Died \notin Threads /\ Closed \notin Threads
    /\ None # Died /\ None # Closed /\ Died # Closed
ASSUME BoundAssumption == MaxOwnerDied \in Nat \ {0} /\ MaxKills \in Nat

VARIABLES
    hmtx,       \* pmtx->hmtx
    owner,      \* of each handle
    pc,
    lh,         \* the local hmtx of safesemMtxLock
    cOwnerDied,
    last,       \* threads whose msSleep is 1: one last try
    elapsed,    \* threads whose 30 s are over
    nest,       \* must-complete count
    inExit,     \* threads for which fibIsInExit() is true
    panics,     \* reasons of the __libc_Back_panic calls
    kills

vars == <<hmtx, owner, pc, lh, cOwnerDied, last, elapsed, nest, inExit, panics, kills>>

\* Labels inside safesemMtxLock; labels inside and outside a must-complete section
Requesting == {"try", "wait", "got", "failed", "died"}
Inside == {"try", "failed", "died", "held"}
Outside == {"idle", "wait", "got"}
PCs == Inside \union Outside \union {"dead"}

\* safesemMtxCreate
Init ==
    /\ hmtx = FirstHandle
    /\ owner = [h \in Handles |-> IF h = FirstHandle THEN None ELSE Closed]
    /\ pc = [t \in Threads |-> "idle"]
    /\ lh = [t \in Threads |-> FirstHandle]
    /\ cOwnerDied = [t \in Threads |-> MaxOwnerDied]
    /\ last = {} /\ elapsed = {}
    /\ nest = [t \in Threads |-> 0]
    /\ inExit = {} /\ panics = {} /\ kills = 0

Goto(t, label) == pc' = [pc EXCEPT ![t] = label]
EnterMustComplete(t) == nest' = [nest EXCEPT ![t] = @ + 1]
ExitMustComplete(t) == nest' = [nest EXCEPT ![t] = @ - 1]

\* A thread ends: the mutexes it owns are left with a dead owner.
Ends(t) ==
    /\ Goto(t, "dead")
    /\ owner' = [h \in Handles |-> IF owner[h] = t THEN Died ELSE owner[h]]

\* __libc_Back_panic: the process is killed.
Panic(t, why) ==
    /\ panics' = panics \union {why}
    /\ Ends(t)
    /\ UNCHANGED nest

\* safesemMtxLock up to the first request
Lock(t) ==
    /\ pc[t] = "idle"
    /\ lh' = [lh EXCEPT ![t] = hmtx]
    /\ EnterMustComplete(t)
    /\ Goto(t, "try")
    /\ UNCHANGED <<hmtx, owner, cOwnerDied, last, elapsed, inExit, panics, kills>>

TryOk(t) ==
    /\ pc[t] = "try"
    /\ owner[lh[t]] = None
    /\ owner' = [owner EXCEPT ![lh[t]] = t]
    /\ Goto(t, "held")
    /\ UNCHANGED <<hmtx, lh, cOwnerDied, last, elapsed, nest, inExit, panics, kills>>

\* 1 ms was not enough, or the owner died: the loop is entered.
TryFails(t) ==
    /\ pc[t] = "try"
    /\ owner[lh[t]] # None
    /\ cOwnerDied' = [cOwnerDied EXCEPT ![t] = MaxOwnerDied]
    /\ last' = last \ {t} /\ elapsed' = elapsed \ {t}
    /\ ExitMustComplete(t)
    /\ Goto(t, "wait")
    /\ UNCHANGED <<hmtx, owner, lh, inExit, panics, kills>>

\* The request is granted outside the section ...
WaitOk(t) ==
    /\ pc[t] = "wait"
    /\ owner[lh[t]] = None
    /\ owner' = [owner EXCEPT ![lh[t]] = t]
    /\ Goto(t, "got")
    /\ UNCHANGED <<hmtx, lh, cOwnerDied, last, elapsed, nest, inExit, panics, kills>>

\* Mutant of GotEnter: the section is not entered again.
GotEnterNot(t) ==
    /\ pc[t] = "got"
    /\ Goto(t, "held")
    /\ UNCHANGED <<hmtx, owner, lh, cOwnerDied, last, elapsed, nest, inExit, panics, kills>>

\* ... and the section entered after it.
GotEnter(t) ==
    /\ pc[t] = "got"
    /\ EnterMustComplete(t)
    /\ Goto(t, "held")
    /\ UNCHANGED <<hmtx, owner, lh, cOwnerDied, last, elapsed, inExit, panics, kills>>

\* The request returns ERROR_INTERRUPT or a timeout (failed), or
\* ERROR_SEM_OWNER_DIED (died).
WaitFails(t) ==
    /\ pc[t] = "wait"
    /\ EnterMustComplete(t)
    /\ \/ owner[lh[t]] # Died /\ Goto(t, "failed")
       \/ owner[lh[t]] = Died /\ Goto(t, "died")
    /\ UNCHANGED <<hmtx, owner, lh, cOwnerDied, last, elapsed, inExit, panics, kills>>

\* The loop's end: the time left is computed and the wait is repeated.
Again(t) ==
    /\ last' = IF t \in elapsed THEN last \union {t} ELSE last \ {t}
    /\ ExitMustComplete(t)
    /\ Goto(t, "wait")

\* Mutant of Failed: no limit on the time.
FailedForever(t) ==
    /\ pc[t] = "failed"
    /\ \/ /\ t \in inExit
          /\ ExitMustComplete(t)
          /\ Goto(t, "idle")
          /\ UNCHANGED <<owner, last, panics>>
       \/ /\ t \notin inExit
          /\ Again(t)
          /\ UNCHANGED <<owner, panics>>
    /\ UNCHANGED <<hmtx, lh, cOwnerDied, elapsed, inExit, kills>>

\* After a failed request: -EDEADLK when the process is dying, panic after the
\* last try, else another wait.
Failed(t) ==
    /\ pc[t] = "failed"
    /\ \/ /\ t \in inExit
          /\ ExitMustComplete(t)
          /\ Goto(t, "idle")
          /\ UNCHANGED <<owner, last, panics>>
       \/ /\ t \notin inExit /\ t \in last
          /\ Panic(t, "timeout")
          /\ UNCHANGED last
       \/ /\ t \notin inExit /\ t \notin last
          /\ Again(t)
          /\ UNCHANGED <<owner, panics>>
    /\ UNCHANGED <<hmtx, lh, cOwnerDied, elapsed, inExit, kills>>

\* Mutant of Remedy: the new mutex is stored without a comparison.
RemedyStore(t) ==
    /\ pc[t] = "died"
    /\ cOwnerDied' = [cOwnerDied EXCEPT ![t] = @ - 1]
    /\ IF cOwnerDied[t] > 1
       THEN \E hmtxNew \in {h \in Handles : owner[h] = Closed} :
              /\ hmtx' = hmtxNew
              /\ owner' = [owner EXCEPT ![hmtxNew] = t]
              /\ Goto(t, "held")
              /\ UNCHANGED <<lh, last, nest, panics>>
       ELSE Panic(t, "owner died") /\ UNCHANGED <<hmtx, lh, last>>
    /\ UNCHANGED <<elapsed, inExit, kills>>

\* Mutant of Remedy: no limit on the attempts.
RemedyNoLimit(t) ==
    /\ pc[t] = "died"
    /\ cOwnerDied' = [cOwnerDied EXCEPT ![t] = @ - 1]
    /\ lh' = [lh EXCEPT ![t] = hmtx]
    /\ Again(t)
    /\ UNCHANGED <<hmtx, owner, elapsed, inExit, panics, kills>>

\* The owner died: a new mutex, owned, is put in place by compare-and-exchange.
\* __atomic_cmpxchg32(pu32, new, old) is called with the old handle as the new
\* value, so the exchange happens only if hmtx already is the new handle; when
\* it does not, the new mutex is closed and the wait repeated.
Remedy(t) ==
    /\ pc[t] = "died"
    /\ cOwnerDied' = [cOwnerDied EXCEPT ![t] = @ - 1]
    /\ IF cOwnerDied[t] > 1
       THEN \E hmtxNew \in {h \in Handles : owner[h] = Closed} :
              IF hmtx = hmtxNew
              THEN /\ hmtx' = lh[t]
                   /\ owner' = [owner EXCEPT ![hmtxNew] = t]
                   /\ Goto(t, "held")
                   /\ UNCHANGED <<lh, last, nest, panics>>
              ELSE /\ lh' = [lh EXCEPT ![t] = hmtx]
                   /\ Again(t)
                   /\ UNCHANGED <<hmtx, owner, panics>>
       ELSE Panic(t, "owner died") /\ UNCHANGED <<hmtx, lh, last>>
    /\ UNCHANGED <<elapsed, inExit, kills>>

\* safesemMtxUnlock
Unlock(t) ==
    /\ pc[t] = "held"
    /\ IF owner[hmtx] = t
       THEN /\ owner' = [owner EXCEPT ![hmtx] = None]
            /\ ExitMustComplete(t)
            /\ Goto(t, "idle")
            /\ UNCHANGED panics
       ELSE Panic(t, "release failed")
    /\ UNCHANGED <<hmtx, lh, cOwnerDied, last, elapsed, inExit, kills>>

\* External: 30 s pass; the process begins to end; a thread is killed, which
\* the kernel does only outside must-complete sections.
Clock(t) ==
    /\ pc[t] \in Requesting \ {"try"} /\ t \notin elapsed
    /\ elapsed' = elapsed \union {t}
    /\ UNCHANGED <<hmtx, owner, pc, lh, cOwnerDied, last, nest, inExit, panics, kills>>

StartExit(t) ==
    /\ pc[t] # "dead" /\ t \notin inExit
    /\ inExit' = inExit \union {t}
    /\ UNCHANGED <<hmtx, owner, pc, lh, cOwnerDied, last, elapsed, nest, panics, kills>>

Kill(t) ==
    /\ nest[t] = 0 /\ pc[t] # "dead" /\ kills < MaxKills
    /\ kills' = kills + 1
    /\ Ends(t)
    /\ UNCHANGED <<hmtx, lh, cOwnerDied, last, elapsed, nest, inExit, panics>>

Step(t) ==
    \/ TryOk(t) \/ TryFails(t) \/ WaitOk(t) \/ GotEnter(t) \/ WaitFails(t)
    \/ Failed(t) \/ Remedy(t)

Next == \E t \in Threads :
    \/ Lock(t) \/ Step(t) \/ Unlock(t) \/ Clock(t) \/ StartExit(t) \/ Kill(t)

Spec == Init /\ [][Next]_vars

\* Fairness: a request runs on and each of its waits has a time limit, and time
\* passes.  Nothing makes an owner release the mutex.
FairSpec == Spec /\ \A t \in Threads : WF_vars(Step(t)) /\ WF_vars(Clock(t))

-----------------------------------------------------------------------------
TypeOK ==
    /\ hmtx \in Handles
    /\ owner \in [Handles -> Threads \union {None, Died, Closed}]
    /\ pc \in [Threads -> PCs]
    /\ lh \in [Threads -> Handles]
    /\ cOwnerDied \in [Threads -> 0..MaxOwnerDied]
    /\ last \subseteq Threads /\ elapsed \subseteq Threads
    /\ nest \in [Threads -> Nat]
    /\ inExit \subseteq Threads
    /\ panics \subseteq {"timeout", "owner died", "release failed"}
    /\ kills \in 0..MaxKills

\* At most one thread is between safesemMtxLock and safesemMtxUnlock, owners
\* that die and the attempts to replace the mutex included (safesems.c:157-291).
MutualExclusion ==
    \A t, u \in Threads : pc[t] = "held" /\ pc[u] = "held" => t = u

\* The owner is in exactly one must-complete section, so it cannot be killed
\* with the mutex, and a thread that returned, with -EDEADLK too, is in none
\* (safesems.c:182-213, 288).
HeldIsUnkillable ==
    \A t \in Threads :
        /\ pc[t] \in Inside => nest[t] = 1
        /\ pc[t] \in Outside => nest[t] = 0

\* safesemMtxLock does not hang: it returns, or panics after 30 s and a last
\* try, whatever the owner does (safesems.c:243-253).
LockReturns ==
    \A t \in Threads :
        pc[t] \in Requesting ~> pc[t] \in {"idle", "held", "dead"}
=============================================================================
