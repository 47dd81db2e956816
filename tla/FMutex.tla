------------------------------- MODULE FMutex -------------------------------
(***************************************************************************)
(* The fast mutex of the C library: include/sys/fmutex.h and               *)
(* lib/process/fmutex.c.  A byte (fs) changed with atomic exchanges decides *)
(* who owns the mutex; an OS/2 event semaphore (hev) is used only when      *)
(* there is contention.  One action is one access to shared memory or one   *)
(* call to the kernel, so the interleavings of the model are those of the   *)
(* code.  One mutex is modelled; MustComplete and Shared are its create     *)
(* flags, and InitFs holds the states it may start from:                    *)
(*    Available       after _fmutex_create2                                 *)
(*    AutoInitialize  a static _FMUTEX_INITIALIZER                          *)
(*    Uninit          zeroed memory nobody has initialised.                 *)
(* External: the event semaphore, DosVerifyPidTid, must-complete sections,  *)
(* thread creation and death, modelled from the way fmutex.c uses them.     *)
(***************************************************************************)
EXTENDS Integers, FiniteSets

CONSTANTS Threads,        \* the threads that may use the mutex
          NoOwner,        \* the value 0 of _fmutex.Owner
          InitFs,         \* the fs a new mutex may have
          MustComplete,   \* _FMC_MUST_COMPLETE was given at creation
          Shared,         \* _FMC_SHARED was given at creation
          MaxKills        \* bound: threads killed from outside

AutoInitialize == -1
Uninit         == 0
Available      == 1
OwnedSimple    == 2
OwnedHard      == 3

FS == {AutoInitialize, Uninit, Available, OwnedSimple, OwnedHard}

ASSUME ConstantsAssumption ==
    /\ NoOwner \notin Threads
    /\ InitFs \subseteq {AutoInitialize, Uninit, Available}
    /\ MustComplete \in BOOLEAN /\ Shared \in BOOLEAN
    /\ MaxKills \in Nat

\* What the caller passes in `flags': nothing, _FMR_IGNINT or _FMR_NOWAIT.
ReqFlags == {"none", "IGNINT", "NOWAIT"}

VARIABLES
    fs,        \* _fmutex.fs
    hev,       \* _fmutex.hev: 0, or 1 for a handle
    Owner,     \* _fmutex.Owner
    posted,    \* the event semaphore is posted
    holders,   \* threads that own the mutex, by the exchange that gave it them
    pc,        \* where each thread is
    lfs,       \* the local `fs' of each thread
    lOwner,    \* the local `Owner' of the deadlock detection
    flags,     \* the `flags' argument of each thread's request
    timed,     \* the threads whose DosWaitEventSem has a timeout
    nest,      \* depth of must-complete sections of each thread
    alive,     \* threads DosVerifyPidTid finds
    inExit,    \* fibIsInExit()
    panic,     \* how the process went down, or "no"
    kills      \* threads killed so far

shared == <<fs, hev, Owner, posted>>
env    == <<alive, inExit, panic, kills>>
vars   == <<fs, hev, Owner, posted, holders, pc, lfs, lOwner,
            flags, timed, nest, alive, inExit, panic, kills>>

PCs == {"idle", "setOwner", "chkHev", "create", "cas", "nowait", "reset",
        "xchgHard", "chkOwner", "wait", "readOwner", "verify", "relXchg",
        "post"}

Panics == {"no", "Recursive mutex!", "Owner died!", "release not owner"}

(***************************************************************************)
(* _fmutex_create2 and the static initialiser.  A created mutex has its     *)
(* event semaphore, the others get it from the first contender.             *)
(***************************************************************************)
Init ==
    /\ fs \in InitFs
    /\ hev = IF fs = Available THEN 1 ELSE 0
    /\ Owner = NoOwner
    /\ posted = FALSE
    /\ holders = {}
    /\ pc = [t \in Threads |-> "idle"]
    /\ lfs = [t \in Threads |-> Uninit]
    /\ lOwner = [t \in Threads |-> NoOwner]
    /\ flags = [t \in Threads |-> "none"]
    /\ timed = {}
    /\ nest = [t \in Threads |-> 0]
    /\ alive = Threads
    /\ inExit = FALSE
    /\ panic = "no"
    /\ kills = 0

-----------------------------------------------------------------------------
(* Moving one thread.                                                       *)

At(t, label) == t \in alive /\ pc[t] = label

Goto(t, label) == pc' = [pc EXCEPT ![t] = label]

\* DosEnterMustComplete and DosExitMustComplete, by a must-complete mutex.
Section == IF MustComplete THEN 1 ELSE 0
EnterMustComplete(t) == nest' = [nest EXCEPT ![t] = @ + Section]
ExitMustComplete(t)  == nest' = [nest EXCEPT ![t] = @ - Section]

\* Leave the call; the locals are gone.
Return(t) ==
    /\ Goto(t, "idle")
    /\ lfs' = [lfs EXCEPT ![t] = Uninit]
    /\ lOwner' = [lOwner EXCEPT ![t] = NoOwner]
    /\ flags' = [flags EXCEPT ![t] = "none"]
    /\ timed' = timed \ {t}

\* Every exchange that returns _FMS_AVAILABLE makes the thread the owner and
\* is followed by __atomic_xchg(&sem->Owner, fibGetTidPid()).
Own(t) == holders' = holders \union {t} /\ Goto(t, "setOwner")

\* Where a request goes when it did not get the mutex by the first exchange.
Contend(t) == Goto(t, IF flags[t] = "NOWAIT" THEN "nowait" ELSE "reset")

-----------------------------------------------------------------------------
(* _fmutex_request, __fmutex_request_internal and ..._must_complete         *)

\* The fast path.  The plain test of fs precedes the exchange only in the
\* must-complete version.
RequestXchg(t, f) ==
    /\ At(t, "idle")
    /\ ~(MustComplete /\ fs = Uninit)
    /\ EnterMustComplete(t)
    /\ fs' = OwnedSimple
    /\ flags' = [flags EXCEPT ![t] = f]
    /\ lfs' = [lfs EXCEPT ![t] = fs]
    /\ IF fs = Available THEN Own(t) ELSE Goto(t, "chkHev") /\ UNCHANGED holders
    /\ UNCHANGED <<hev, Owner, posted, lOwner, timed, env>>

\* return ERROR_INVALID_HANDLE before anything is touched.
RequestUninit(t) ==
    /\ At(t, "idle")
    /\ MustComplete /\ fs = Uninit
    /\ UNCHANGED vars

SetOwner(t) ==
    /\ At(t, "setOwner")
    /\ Owner' = t
    /\ Return(t)
    /\ UNCHANGED <<fs, hev, posted, holders, nest, env>>

\* fs == _FMS_UNINIT fails; fs == _FMS_AUTO_INITIALIZE || !sem->hev creates.
ChkHev(t) ==
    /\ At(t, "chkHev")
    /\ \/ /\ lfs[t] = Uninit
          /\ Return(t) /\ ExitMustComplete(t)
       \/ /\ lfs[t] # Uninit
          /\ IF lfs[t] = AutoInitialize \/ hev = 0 THEN Goto(t, "create") ELSE Contend(t)
          /\ UNCHANGED <<lfs, lOwner, flags, timed, nest>>
    /\ UNCHANGED <<shared, holders, env>>

CreateHev(t) ==
    /\ At(t, "create")
    /\ Goto(t, "cas")
    /\ UNCHANGED <<shared, holders, lfs, lOwner, flags, timed, nest, env>>

\* Mutant of CreateHevFails: an error return that stays in the must-complete section.
CreateHevFailsInside(t) ==
    /\ At(t, "create")
    /\ Return(t)
    /\ UNCHANGED <<shared, holders, nest, env>>

\* DosCreateEventSemEx failed: return ERROR_INVALID_HANDLE.
CreateHevFails(t) ==
    /\ At(t, "create")
    /\ Return(t) /\ ExitMustComplete(t)
    /\ UNCHANGED <<shared, holders, env>>

\* Mutant of CasHev: a store instead of the compare and exchange.
CasHevStore(t) ==
    /\ At(t, "cas")
    /\ hev' = 1
    /\ Own(t)
    /\ UNCHANGED <<fs, Owner, posted, lfs, lOwner, flags, timed, nest, env>>

\* The thread that installs its event semaphore owns the mutex; another one
\* closes the semaphore it made and contends.
CasHev(t) ==
    /\ At(t, "cas")
    /\ IF hev = 0
       THEN /\ hev' = 1
            /\ Own(t)
            /\ UNCHANGED lfs
       ELSE /\ lfs' = [lfs EXCEPT ![t] = OwnedHard]
            /\ Contend(t)
            /\ UNCHANGED <<hev, holders>>
    /\ UNCHANGED <<fs, Owner, posted, lOwner, flags, timed, nest, env>>

\* Mutant of NoWait: return ERROR_MUTEX_OWNED at once.
NoWaitAtOnce(t) ==
    /\ At(t, "nowait")
    /\ Return(t) /\ ExitMustComplete(t)
    /\ UNCHANGED <<shared, holders, env>>

\* _FMR_NOWAIT: put back the _FMS_OWNED_HARD the fast path overwrote.
NoWait(t) ==
    /\ At(t, "nowait")
    /\ \/ /\ lfs[t] = OwnedHard /\ fs = Available
          /\ fs' = OwnedHard
          /\ Own(t)
          /\ UNCHANGED <<lfs, lOwner, flags, timed, nest>>
       \/ /\ ~(lfs[t] = OwnedHard /\ fs = Available)
          /\ fs' = IF lfs[t] = OwnedHard THEN OwnedHard ELSE fs
          /\ Return(t) /\ ExitMustComplete(t)     \* ERROR_MUTEX_OWNED
          /\ UNCHANGED holders
    /\ UNCHANGED <<hev, Owner, posted, env>>

\* DosResetEventSem at the top of the loop.
Reset(t) ==
    /\ At(t, "reset")
    /\ posted' = FALSE
    /\ Goto(t, "xchgHard")
    /\ UNCHANGED <<fs, hev, Owner, holders, lfs, lOwner, flags, timed, nest, env>>

\* Mutants of XchgHard: a wrong value of fs; a wrong test of the old one.
XchgHardValue(t) ==
    /\ At(t, "xchgHard")
    /\ fs' = OwnedHard + 1
    /\ IF fs = Available THEN Own(t) ELSE Goto(t, "chkOwner") /\ UNCHANGED holders
    /\ UNCHANGED <<hev, Owner, posted, lfs, lOwner, flags, timed, nest, env>>
XchgHardTest(t) ==
    /\ At(t, "xchgHard")
    /\ fs' = OwnedHard
    /\ IF fs # OwnedHard THEN Own(t) ELSE Goto(t, "chkOwner") /\ UNCHANGED holders
    /\ UNCHANGED <<hev, Owner, posted, lfs, lOwner, flags, timed, nest, env>>

XchgHard(t) ==
    /\ At(t, "xchgHard")
    /\ fs' = OwnedHard
    /\ IF fs = Available THEN Own(t) ELSE Goto(t, "chkOwner") /\ UNCHANGED holders
    /\ UNCHANGED <<hev, Owner, posted, lfs, lOwner, flags, timed, nest, env>>

\* DosWaitEventSem is entered, outside the must-complete section.
EnterWait(t) ==
    /\ Goto(t, "wait")
    /\ timed' = IF ~Shared \/ inExit THEN timed \union {t} ELSE timed \ {t}
    /\ ExitMustComplete(t)

\* __fmutex_deadlock: panic, or go on with an error when the process exits.
Deadlock(t, why) ==
    /\ panic' = IF inExit THEN panic ELSE why
    /\ Return(t) /\ ExitMustComplete(t)
    /\ UNCHANGED <<shared, holders, alive, inExit, kills>>

ChkOwner(t) ==
    /\ At(t, "chkOwner")
    /\ \/ /\ Owner = t
          /\ Deadlock(t, "Recursive mutex!")
       \/ /\ Owner # t
          /\ EnterWait(t)
          /\ UNCHANGED <<shared, holders, lfs, lOwner, flags, env>>

WaitPosted(t) ==
    /\ At(t, "wait")
    /\ posted
    /\ Goto(t, "reset")
    /\ EnterMustComplete(t)
    /\ UNCHANGED <<shared, holders, lfs, lOwner, flags, timed, env>>

WaitTimeout(t) ==
    /\ At(t, "wait")
    /\ t \in timed
    /\ Goto(t, "readOwner")
    /\ EnterMustComplete(t)
    /\ UNCHANGED <<shared, holders, lfs, lOwner, flags, timed, env>>

\* ERROR_INTERRUPT: back to the caller, unless _FMR_IGNINT makes it a timeout.
WaitInterrupt(t) ==
    /\ At(t, "wait")
    /\ \/ /\ flags[t] # "IGNINT" \/ inExit
          /\ Return(t)
          /\ UNCHANGED nest
       \/ /\ flags[t] = "IGNINT" /\ ~inExit
          /\ Goto(t, "readOwner")
          /\ EnterMustComplete(t)
          /\ UNCHANGED <<lfs, lOwner, flags, timed>>
    /\ UNCHANGED <<shared, holders, env>>

\* unsigned Owner = sem->Owner: nobody owns it, so try again.
ReadOwner(t) ==
    /\ At(t, "readOwner")
    /\ lOwner' = [lOwner EXCEPT ![t] = Owner]
    /\ Goto(t, IF Owner = NoOwner THEN "reset" ELSE "verify")
    /\ UNCHANGED <<shared, holders, lfs, flags, timed, nest, env>>

\* DosVerifyPidTid of the owner that was read.
Verify(t) ==
    /\ At(t, "verify")
    /\ \/ /\ lOwner[t] \in alive
          /\ EnterWait(t)
          /\ UNCHANGED <<shared, holders, lfs, lOwner, flags, env>>
       \/ /\ lOwner[t] \notin alive
          /\ Deadlock(t, "Owner died!")

-----------------------------------------------------------------------------
(* _fmutex_checked_release, _fmutex_release and its internal versions.      *)

\* Mutant of Release: Owner is not cleared.
ReleaseKeepsOwner(t) ==
    /\ At(t, "idle") /\ t \in holders
    /\ IF Owner = t THEN Goto(t, "relXchg") /\ UNCHANGED panic
                    ELSE panic' = "release not owner" /\ UNCHANGED pc
    /\ UNCHANGED <<shared, holders, lfs, lOwner, flags, timed, nest, alive, inExit, kills>>

\* Only a thread that owns the mutex releases it.
Release(t) ==
    /\ At(t, "idle") /\ t \in holders
    /\ IF Owner = t
       THEN Owner' = NoOwner /\ Goto(t, "relXchg") /\ UNCHANGED panic
       ELSE panic' = "release not owner" /\ UNCHANGED <<Owner, pc>>
    /\ UNCHANGED <<fs, hev, posted, holders, lfs, lOwner, flags, timed, nest,
                   alive, inExit, kills>>

\* Mutant of RelXchg: nobody is told.
RelXchgSilent(t) ==
    /\ At(t, "relXchg")
    /\ fs' = Available
    /\ holders' = holders \ {t}
    /\ Return(t) /\ ExitMustComplete(t)
    /\ UNCHANGED <<hev, Owner, posted, env>>

RelXchg(t) ==
    /\ At(t, "relXchg")
    /\ fs' = Available
    /\ holders' = holders \ {t}
    /\ \/ /\ fs = OwnedHard
          /\ Goto(t, "post")
          /\ UNCHANGED <<lfs, lOwner, flags, timed, nest>>
       \/ /\ fs # OwnedHard
          /\ Return(t) /\ ExitMustComplete(t)
    /\ UNCHANGED <<hev, Owner, posted, env>>

\* DosPostEventSem.  The kernel readies the threads that wait.  A thread not
\* readied here (one that has not entered the kernel yet, or one dispatched
\* late) sees `posted' when it is, unless another thread has reset it.
Post(t) ==
    /\ At(t, "post")
    /\ posted' = TRUE
    /\ \E woken \in SUBSET {u \in alive : pc[u] = "wait"} :
         /\ pc' = [u \in Threads |-> IF u = t THEN "idle"
                                     ELSE IF u \in woken THEN "reset" ELSE pc[u]]
         /\ nest' = [u \in Threads |-> IF u = t THEN nest[u] - Section
                                       ELSE IF u \in woken THEN nest[u] + Section
                                       ELSE nest[u]]
    /\ UNCHANGED <<fs, hev, Owner, holders, lfs, lOwner, flags, timed, env>>

\* fork by the owner: in the child only the forking thread exists, and
\* _fmutex_release_fork stores fs and Owner without exchanges.
ReleaseFork(t) ==
    /\ At(t, "idle") /\ t \in holders
    /\ alive' = {t}
    /\ holders' = {}
    /\ fs' = Available
    /\ Owner' = NoOwner
    /\ nest' = [u \in Threads |-> 0]
    /\ UNCHANGED <<hev, posted, pc, lfs, lOwner, flags, timed, inExit, panic, kills>>

-----------------------------------------------------------------------------
(* The environment: threads end, are killed and are created; the process    *)
(* starts to exit.  A thread in a must-complete section cannot be killed.   *)

ThreadEnd(t) ==
    /\ At(t, "idle") /\ t \notin holders
    /\ alive' = alive \ {t}
    /\ UNCHANGED <<shared, holders, pc, lfs, lOwner, flags, timed, nest, inExit, panic, kills>>

Kill(t) ==
    /\ t \in alive /\ nest[t] = 0
    /\ kills < MaxKills
    /\ kills' = kills + 1
    /\ alive' = alive \ {t}
    /\ UNCHANGED <<shared, holders, pc, lfs, lOwner, flags, timed, nest, inExit, panic>>

\* A new thread, with a tid that no owner of the mutex has.
ThreadStart(t) ==
    /\ t \notin alive /\ t \notin holders
    /\ alive' = alive \union {t}
    /\ Return(t)
    /\ nest' = [nest EXCEPT ![t] = 0]
    /\ UNCHANGED <<shared, holders, inExit, panic, kills>>

StartExit ==
    /\ ~inExit
    /\ inExit' = TRUE
    /\ UNCHANGED <<shared, holders, pc, lfs, lOwner, flags, timed, nest, alive, panic, kills>>

\* __libc_Back_panic has ended the process.
Panicked == panic # "no" /\ UNCHANGED vars

-----------------------------------------------------------------------------
\* The steps a thread takes by itself once it is inside a call.
Step(t) ==
    \/ SetOwner(t) \/ ChkHev(t) \/ CreateHev(t) \/ CreateHevFails(t) \/ CasHev(t)
    \/ NoWait(t) \/ Reset(t) \/ XchgHard(t) \/ ChkOwner(t)
    \/ WaitPosted(t) \/ WaitTimeout(t) \/ ReadOwner(t) \/ Verify(t)
    \/ RelXchg(t) \/ Post(t)

ThreadNext(t) ==
    \/ \E f \in ReqFlags : RequestXchg(t, f)
    \/ RequestUninit(t)
    \/ Step(t)
    \/ WaitInterrupt(t)
    \/ Release(t)
    \/ ReleaseFork(t)
    \/ ThreadEnd(t) \/ Kill(t) \/ ThreadStart(t)

Next ==
    \/ panic = "no" /\ \E t \in Threads : ThreadNext(t)
    \/ panic = "no" /\ StartExit
    \/ Panicked

Spec == Init /\ [][Next]_vars

-----------------------------------------------------------------------------
TypeOK ==
    /\ fs \in FS /\ hev \in {0, 1} /\ posted \in BOOLEAN
    /\ Owner \in Threads \union {NoOwner}
    /\ holders \subseteq Threads /\ alive \subseteq Threads
    /\ pc \in [Threads -> PCs]
    /\ lfs \in [Threads -> FS]
    /\ lOwner \in [Threads -> Threads \union {NoOwner}]
    /\ flags \in [Threads -> ReqFlags]
    /\ timed \subseteq Threads
    /\ nest \in [Threads -> Int]
    /\ inExit \in BOOLEAN /\ panic \in Panics /\ kills \in 0..MaxKills

\* No two threads own the mutex: whatever the order of the exchanges on the
\* fast path, in the wait loop and in the race to install the event semaphore
\* of an auto-initialised mutex (fmutex.h:67-82, fmutex.c:82-198), and although
\* the fast path overwrites fs before it knows who owns the mutex.
MutualExclusion == \A t, u \in holders : t = u

\* _fmutex.Owner never names a thread that does not own the mutex, and names
\* the one that does whenever that thread is outside fmutex code.  Without this
\* "Recursive mutex!" would strike threads that do not recurse (fmutex.c:138)
\* and _fmutex_checked_release would abort an owner (fmutex.h:136-142).
OwnerCoherent ==
    /\ Owner # NoOwner => Owner \in holders
    /\ \A t \in holders : pc[t] \notin {"setOwner", "relXchg"} => Owner = t
    /\ panic # "release not owner"

\* A thread between deciding to wait and waiting again.
Waiting(t) == t \in alive /\ pc[t] \in {"chkOwner", "wait", "readOwner", "verify"}

\* A thread whose next steps store _FMS_OWNED_HARD or post the semaphore.
WillWake(t) ==
    /\ t \in alive
    /\ \/ pc[t] \in {"reset", "xchgHard", "post"}
       \/ pc[t] \in {"chkHev", "nowait"} /\ lfs[t] = OwnedHard

\* No lost wake-up: while a thread waits on a semaphore that is reset, either
\* fs says _FMS_OWNED_HARD, so that the release will post, or some thread is
\* about to make it so.  The fast path replaces _FMS_OWNED_HARD by
\* _FMS_OWNED_SIMPLE (fmutex.h:71) and a release in that window does not post
\* (fmutex.h:91), so this rests on what the overwriting thread does next.  A
\* thread killed in that window breaks it, unless the mutex is must-complete.
NoLostWakeup ==
    (MustComplete \/ kills = 0) =>
        \A t \in Threads : Waiting(t) /\ ~posted =>
            fs = OwnedHard \/ \E u \in Threads : WillWake(u)

\* Must-complete sections balance on every path, the error returns included
\* (fmutex.c:200-355): a thread outside fmutex code is in one exactly when it
\* owns the mutex, and no thread waits in one.
MustCompleteBalanced ==
    MustComplete =>
        \A t \in alive :
            /\ pc[t] = "idle" => nest[t] = (IF t \in holders THEN 1 ELSE 0)
            /\ pc[t] = "wait" /\ t \notin holders => nest[t] = 0

\* "Deadlock detection - check if owner is around" (fmutex.c:172): a process is
\* brought down for a dead owner only when a thread that is dead owns the mutex.
OwnerDiedIsTrue == panic = "Owner died!" => \E t \in holders : t \notin alive

\* The fast mutex implements a mutex.
AbstractMutex == INSTANCE Mutex WITH Threads <- Threads, holders <- holders
RefinesMutex == AbstractMutex!Spec

\* Scheduling: a thread inside a call runs on, a wait with a timeout times out,
\* and an owner releases.
FairSpec ==
    /\ Spec
    /\ \A t \in Threads : WF_vars(panic = "no" /\ Step(t))
    /\ \A t \in Threads : WF_vars(panic = "no" /\ Release(t))

\* From some time on nobody but t uses the mutex, and t is not disturbed.
LeftAlone(t) ==
    /\ t \in alive
    /\ \A u \in Threads \ {t} : u \notin holders /\ (u \notin alive \/ pc[u] = "idle")

\* A waiter is served: once the others have released the mutex and left, a
\* thread does not stay in the wait loop for ever, with _FMC_SHARED (where the
\* wait has no timeout, fmutex.c:147) as without.
WaiterServed ==
    \A t \in Threads : <>[]LeftAlone(t) => []<>(~Waiting(t) \/ panic # "no")

=============================================================================
