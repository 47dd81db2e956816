------------------------------- MODULE SafeEv -------------------------------
(***************************************************************************)
(* The signal-safe event semaphores of lib/sys/safesems.c: a thread that    *)
(* owns the mutex of an event sleeps on it, the mutex being released and    *)
(* taken again, and a thread that owns the mutex wakes the sleepers.  This  *)
(* module holds the state and the steps; SafeEvClient runs them on their    *)
(* own, SysVSem inside the semaphore calls.                                 *)
(*                                                                          *)
(* The mutex is an abstract one here (SafeMtx models it).  cWaiters only    *)
(* decides how often DosSleep(0) is called; the scheduler is arbitrary, so  *)
(* neither it nor the priority is modelled.  External: the event semaphore, *)
(* whose post readies every blocked thread and is remembered until a reset. *)
(***************************************************************************)
EXTENDS Naturals, FiniteSets

CONSTANTS Threads, Evs, NoThread

ASSUME EventAssumption == NoThread \notin Threads /\ Evs # {} /\ IsFiniteSet(Threads)

VARIABLES
    mtx,        \* owner of each event's mutex
    posted,     \* events whose semaphore is posted
    spc,        \* where each thread is in safesemEvSleep
    on,         \* the event it sleeps on
    fDone,      \* threads whose Args.fDone is set: a signal came
    rc          \* what the last safesemEvSleep returned

evVars == <<mtx, posted, spc, on, fDone, rc>>

\* unlocked: before the test of fDone; checked: before DosWaitEventSem;
\* blocked: in it; woken: after it, before the mutex is taken again.
Asleep == {"unlocked", "checked", "blocked", "woken"}

EvInit ==
    /\ mtx = [e \in Evs |-> NoThread]
    /\ posted = {}
    /\ spc = [t \in Threads |-> "out"]
    /\ on = [t \in Threads |-> CHOOSE e \in Evs : TRUE]
    /\ fDone = {}
    /\ rc = [t \in Threads |-> "ok"]

EvTypeOK ==
    /\ mtx \in [Evs -> Threads \union {NoThread}]
    /\ posted \subseteq Evs
    /\ spc \in [Threads -> Asleep \union {"out"}]
    /\ on \in [Threads -> Evs]
    /\ fDone \subseteq Threads
    /\ rc \in [Threads -> {"ok", "EINTR"}]

\* safesemMtxLock and safesemMtxUnlock of the event's mutex
MtxLock(t, e) == mtx[e] = NoThread /\ mtx' = [mtx EXCEPT ![e] = t]
MtxUnlock(t, e) == mtx[e] = t /\ mtx' = [mtx EXCEPT ![e] = NoThread]

\* safesemEvSleep up to the release of the mutex
EvSleep(t, e) ==
    /\ MtxUnlock(t, e)
    /\ spc' = [spc EXCEPT ![t] = "unlocked"]
    /\ on' = [on EXCEPT ![t] = e]
    /\ fDone' = fDone \ {t}
    /\ rc' = [rc EXCEPT ![t] = "ok"]
    /\ UNCHANGED posted

\* if (!Args.fDone)
EvCheck(t) ==
    /\ spc[t] = "unlocked"
    /\ spc' = [spc EXCEPT ![t] = IF t \in fDone THEN "woken" ELSE "checked"]
    /\ UNCHANGED <<mtx, posted, on, fDone, rc>>

\* Mutant of EvWait: the event is reset before the wait.
EvWaitResets(t) ==
    /\ spc[t] = "checked"
    /\ posted' = posted \ {on[t]}
    /\ spc' = [spc EXCEPT ![t] = "blocked"]
    /\ UNCHANGED <<mtx, on, fDone, rc>>

\* DosWaitEventSem
EvWait(t) ==
    /\ spc[t] = "checked"
    /\ spc' = [spc EXCEPT ![t] = IF on[t] \in posted THEN "woken" ELSE "blocked"]
    /\ UNCHANGED <<mtx, posted, on, fDone, rc>>

\* DosWaitEventSem returns ERROR_INTERRUPT, no signal being delivered to it.
EvInterrupt(t) ==
    /\ spc[t] = "blocked"
    /\ spc' = [spc EXCEPT ![t] = "woken"]
    /\ rc' = [rc EXCEPT ![t] = "EINTR"]
    /\ UNCHANGED <<mtx, posted, on, fDone>>

\* Mutant of EvSignal: the callback does not set fDone.
EvSignalForgets(t) ==
    /\ spc[t] \in Asleep
    /\ t \notin fDone
    /\ spc' = [spc EXCEPT ![t] = IF @ = "blocked" THEN "woken" ELSE @]
    /\ rc' = [rc EXCEPT ![t] = "EINTR"]
    /\ UNCHANGED <<mtx, posted, on, fDone>>

\* A signal: semEvSleepSignalCallback calls pfnComplete, once, before the
\* handler runs, and a blocked DosWaitEventSem is interrupted.
EvSignal(t) ==
    /\ spc[t] \in Asleep
    /\ t \notin fDone
    /\ fDone' = fDone \union {t}
    /\ spc' = [spc EXCEPT ![t] = IF @ = "blocked" THEN "woken" ELSE @]
    /\ rc' = [rc EXCEPT ![t] = "EINTR"]
    /\ UNCHANGED <<mtx, posted, on>>

\* Mutant of EvReturn: a woken thread leaves the reset to another one and waits
\* for it.
EvReturnAfterReset(t) ==
    /\ spc[t] = "woken"
    /\ on[t] \notin posted
    /\ MtxLock(t, on[t])
    /\ spc' = [spc EXCEPT ![t] = "out"]
    /\ UNCHANGED <<posted, on, fDone, rc>>

\* The rest of safesemEvSleep: the mutex is taken, the event reset, pfnComplete
\* called unless a signal had it called.
EvReturn(t) ==
    /\ spc[t] = "woken"
    /\ MtxLock(t, on[t])
    /\ posted' = posted \ {on[t]}
    /\ spc' = [spc EXCEPT ![t] = "out"]
    /\ UNCHANGED <<on, fDone, rc>>

\* Threads that safesemEvWakeup readies.
Blocked(e) == {t \in Threads : spc[t] = "blocked" /\ on[t] = e}

\* safesemEvWakeup, called by the owner of the mutex
EvWakeup(e) ==
    /\ posted' = posted \union {e}
    /\ spc' = [t \in Threads |-> IF t \in Blocked(e) THEN "woken" ELSE spc[t]]
=============================================================================
