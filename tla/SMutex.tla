------------------------------- MODULE SMutex -------------------------------
(***************************************************************************)
(* The simple mutex of include/sys/smutex.h and lib/process/smutex.c: a     *)
(* byte that is exchanged, and a loop around DosSleep when it is taken.     *)
(* Threads may be killed at any place, also while they own the mutex; the   *)
(* process may start to exit.  A thread that has to wait while the process  *)
(* exits brings it down instead.                                            *)
(***************************************************************************)
EXTENDS Integers

CONSTANT Threads

VARIABLES
    sem,       \* the byte, 0 or 1
    pc,        \* where each thread is
    alive,     \* the threads not killed
    inExit,    \* fibIsInExit()
    panic      \* __libc_Back_panic was called: the process is gone

vars == <<sem, pc, alive, inExit, panic>>

\* "sleep" is DosSleep(1), "check" the test of fibIsInExit in the loop, "own"
\* the caller between the request and the release.
PCs == {"idle", "sleep", "check", "own"}

Init ==
    /\ sem = 0
    /\ pc = [t \in Threads |-> "idle"]
    /\ alive = Threads
    /\ inExit = FALSE
    /\ panic = FALSE

At(t, label) == t \in alive /\ pc[t] = label

Goto(t, label) == pc' = [pc EXCEPT ![t] = label]

\* Mutants of Xchg: an increment instead of an exchange; the result is not looked
\* at in the loop.
XchgAdd(t, taken) ==
    /\ sem' = sem + 1
    /\ Goto(t, IF sem = 0 THEN "own" ELSE taken)
    /\ UNCHANGED <<alive, inExit, panic>>
XchgBlind(t, taken) ==
    /\ sem' = 1
    /\ Goto(t, IF sem = 0 \/ taken = "check" THEN "own" ELSE taken)
    /\ UNCHANGED <<alive, inExit, panic>>

\* __cxchg(sem, 1): the thread owns the mutex if the byte was 0.
Xchg(t, taken) ==
    /\ sem' = 1
    /\ Goto(t, IF sem = 0 THEN "own" ELSE taken)
    /\ UNCHANGED <<alive, inExit, panic>>

\* _smutex_request.
Request(t) == At(t, "idle") /\ Xchg(t, "sleep")

\* _smutex_try_request.
TryRequest(t) == At(t, "idle") /\ Xchg(t, "idle")

\* The condition of the loop in __smutex_request_internal, after a DosSleep.
Retry(t) == At(t, "sleep") /\ Xchg(t, "check")

\* Mutant of Check: the loop does not look at the exit of the process.
CheckNever(t) ==
    /\ At(t, "check")
    /\ Goto(t, "sleep")
    /\ UNCHANGED <<sem, alive, inExit, panic>>

\* Its body: nobody is left to release the mutex of a process that exits.
Check(t) ==
    /\ At(t, "check")
    /\ IF inExit THEN panic' = TRUE /\ UNCHANGED pc
                 ELSE Goto(t, "sleep") /\ UNCHANGED panic
    /\ UNCHANGED <<sem, alive, inExit>>

\* _smutex_release: a plain store, by the owner.
Release(t) ==
    /\ At(t, "own")
    /\ sem' = 0
    /\ Goto(t, "idle")
    /\ UNCHANGED <<alive, inExit, panic>>

\* A thread is killed from outside and leaves the byte as it is.
Kill(t) ==
    /\ t \in alive
    /\ alive' = alive \ {t}
    /\ UNCHANGED <<sem, pc, inExit, panic>>

\* The process starts to exit.
StartExit ==
    /\ ~inExit
    /\ inExit' = TRUE
    /\ UNCHANGED <<sem, pc, alive, panic>>

\* The steps of a thread that is inside a request.
Step(t) == Retry(t) \/ Check(t)

Next ==
    /\ ~panic
    /\ \/ \E t \in Threads :
            Request(t) \/ TryRequest(t) \/ Step(t) \/ Release(t) \/ Kill(t)
       \/ StartExit

Spec == Init /\ [][Next]_vars

\* Scheduling: a thread that is inside a request is run again and again.
FairSpec == Spec /\ \A t \in Threads : WF_vars(~panic /\ Step(t))

-----------------------------------------------------------------------------
(* Properties.                                                              *)

Waiting(t) == At(t, "sleep") \/ At(t, "check")

Owners == {t \in Threads : pc[t] = "own"}

\* Type correctness of the byte (smutex.h:19) and of the threads' positions.
TypeOK ==
    /\ sem \in {0, 1}
    /\ pc \in [Threads -> PCs]
    /\ alive \subseteq Threads
    /\ inExit \in BOOLEAN
    /\ panic \in BOOLEAN

\* smutex.h: the byte is 0 exactly while nobody owns the mutex, however many
\* threads write 1 into it without being given the mutex (smutex.h:27,33, smutex.c:21).
ByteTellsOwner == (sem = 0 <=> Owners = {}) /\ \A t, u \in Owners : t = u

\* The simple mutex implements a mutex, the owner being the thread that is past
\* an exchange that returned 0.
AbstractMutex == INSTANCE Mutex WITH holders <- Owners
RefinesMutex == AbstractMutex!Spec

\* smutex.c:23-27: no thread stays in the loop of a process that exits, not even
\* when the owner was killed by the exit: it is given the mutex or the process
\* goes down.
ExitEndsWait ==
    \A t \in Threads :
        inExit /\ Waiting(t) ~> panic \/ ~Waiting(t)
=============================================================================
