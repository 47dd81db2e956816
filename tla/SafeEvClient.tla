---------------------------- MODULE SafeEvClient ----------------------------
(***************************************************************************)
(* safesemEvSleep and safesemEvWakeup (lib/sys/safesems.c) called in every  *)
(* order their contract allows, with what the contract promises.            *)
(***************************************************************************)
EXTENDS SafeEv

VARIABLES
    slept,       \* threads that have called safesemEvSleep
    completions, \* calls of pfnComplete in the current or the last sleep
    due,         \* threads asleep at a wake-up that have not returned since
    undercut     \* those of them whose event another sleeper has reset since

clientVars == <<mtx, posted, spc, on, fDone, rc, slept, completions, due, undercut>>
sleepHistory == <<slept, completions, due, undercut>>

ClientInit ==
    /\ EvInit
    /\ slept = {}
    /\ completions = [t \in Threads |-> 0]
    /\ due = {} /\ undercut = {}

Sleepers(e) == {t \in Threads : spc[t] \in Asleep /\ on[t] = e}

Lock(t, e) ==
    /\ spc[t] = "out" /\ \A f \in Evs : mtx[f] # t
    /\ MtxLock(t, e)
    /\ UNCHANGED <<posted, spc, on, fDone, rc, sleepHistory>>

Unlock(t, e) ==
    /\ MtxUnlock(t, e)
    /\ UNCHANGED <<posted, spc, on, fDone, rc, sleepHistory>>

Sleep(t, e) ==
    /\ EvSleep(t, e)
    /\ slept' = slept \union {t}
    /\ completions' = [completions EXCEPT ![t] = 0]
    /\ UNCHANGED <<due, undercut>>

Step(t) ==
    /\ EvCheck(t) \/ EvWait(t)
    /\ UNCHANGED sleepHistory

Interrupt(t) ==
    /\ EvInterrupt(t)
    /\ UNCHANGED sleepHistory

Signal(t) ==
    /\ EvSignal(t)
    /\ completions' = [completions EXCEPT ![t] = @ + 1]
    /\ UNCHANGED <<slept, due, undercut>>

Return(t) ==
    /\ EvReturn(t)
    /\ completions' = [completions EXCEPT ![t] = IF t \in fDone THEN @ ELSE @ + 1]
    /\ due' = due \ {t}
    /\ undercut' = (undercut \union {u \in due : on[u] = on[t]}) \ {t}
    /\ UNCHANGED slept

Wakeup(t, e) ==
    /\ mtx[e] = t
    /\ EvWakeup(e)
    /\ due' = due \union Sleepers(e)
    /\ undercut' = undercut \ Sleepers(e)
    /\ UNCHANGED <<mtx, on, fDone, rc, slept, completions>>

ClientNext ==
    \/ \E t \in Threads, e \in Evs :
         Lock(t, e) \/ Unlock(t, e) \/ Sleep(t, e) \/ Wakeup(t, e)
    \/ \E t \in Threads : Step(t) \/ Interrupt(t) \/ Signal(t) \/ Return(t)

ClientSpec == ClientInit /\ [][ClientNext]_clientVars

\* Fairness: a thread that is not blocked runs on, an owner gives the mutex up,
\* and a thread that waits for the mutex gets it (SafeMtx: it does, or the
\* process panics).  No signal has to come and nobody has to wake.
FairSpec ==
    /\ ClientSpec
    /\ \A t \in Threads :
         /\ WF_clientVars(Step(t)) /\ SF_clientVars(Return(t))
         /\ \A e \in Evs : WF_clientVars(Unlock(t, e))

-----------------------------------------------------------------------------
ClientTypeOK ==
    /\ EvTypeOK
    /\ slept \subseteq Threads
    /\ completions \in [Threads -> Nat]
    /\ due \subseteq Threads /\ undercut \subseteq due

\* "It will always be called be for this function returns" (safesems.c:395-397):
\* pfnComplete has run exactly once when a sleep returns, called by the signal
\* callback or at the end, wherever in the sleep the signals strike; and a sleep a
\* signal ended is not taken for a wake-up.
CompletedOnce ==
    \A t \in Threads :
        /\ spc[t] = "out" /\ t \in slept => completions[t] = 1
        /\ spc[t] \in Asleep => t \in slept /\ completions[t] = IF t \in fDone THEN 1 ELSE 0
        /\ t \in fDone => rc[t] = "EINTR"

\* A wake-up is not lost (safesems.c:461-489, 561): a thread that was asleep when
\* the event was posted, also one that had not reached DosWaitEventSem, is not
\* blocked, as long as no other sleeper has returned since and reset the event.  So
\* a wake-up always gets a sleeper back, if there is one.  The types are part of it.
WakeReaches == ClientTypeOK /\ \A t \in due \ undercut : spc[t] # "blocked"

\* A thread that was asleep at a wake-up returns, unless another sleeper returned
\* in its place and reset the event (safesems.c:455-489, 561-577).
SleeperReturns == \A t \in Threads : t \in due ~> (spc[t] = "out" \/ t \in undercut)

\* "Wakes up all threads sleeping on a given event semaphore" (safesems.c:531): no
\* thread that was asleep at a wake-up is blocked after it.  The code violates it:
\* the first sleeper to return resets the event (489) before a second one that has
\* yet to call DosWaitEventSem.
WakesAll == \A t \in due : spc[t] # "blocked"
=============================================================================
