------------------------------ MODULE ThreadDB ------------------------------
(***************************************************************************)
(* The thread database of the C library: lib/process/thread_internals.c     *)
(* and lib/process/beginthr.c.  Every thread that uses the library has a    *)
(* reference-counted structure; the structures are in one of two lists.     *)
(* The operations on the lists run under gmtxThrdDB and are one action      *)
(* each; the disposal of a structure follows outside the mutex and is an    *)
(* action of its own.  A request of the mutex can be interrupted while      *)
(* another thread owns it: a lookup, a walk or a fork then fails, a thread  *)
(* that registers goes on unlisted, and a dereference goes on without the   *)
(* mutex (loose).  The lists are sets: no operation depends on their order  *)
(* as long as no thread id occurs twice (LookupIsCurrent).                  *)
(***************************************************************************)
EXTENDS Integers, FiniteSets

CONSTANTS Threads,      \* places for threads of the process, used again
          Tids,         \* thread ids, used again
          Structs,      \* addresses a thread structure can be at
          PreAlloc,     \* &gPreAllocThrd, one of them
          FirstTid,     \* the id of the main thread, one of Tids
          None,         \* NULL, and no thread id
          MaxStarts,    \* bound: threads started, besides the first
          MaxLookups,   \* bound: lookups
          MaxForks,     \* bound: forks
          MaxInterrupts \* bound: interrupted requests of the mutex that matter

ASSUME ThreadAssumption ==
    /\ PreAlloc \in Structs /\ FirstTid \in Tids
    /\ None \notin Structs /\ None \notin Tids /\ None \notin Threads
    /\ MaxStarts \in Nat /\ MaxLookups \in Nat /\ MaxForks \in Nat /\ MaxInterrupts \in Nat
    /\ IsFiniteSet(Threads)

VARIABLES
    state,      \* where each thread is in its life
    tid,        \* the thread id the system gave it
    pThrd,      \* the argument of threadWrapper
    gpTLS,      \* *__libc_gpTLS: the structure the thread uses
    ref,        \* the structure a lookup returned and that is not dereferenced yet
    doomed,     \* the structure the thread is about to dispose of
    used,       \* the structures that are allocated
    cRefs,      \* __LIBC_THREAD.cRefs
    stid,       \* __LIBC_THREAD.tid
    gpThrdDB,   \* the structures in the thread database
    zombies,    \* gpThrdDBZombies
    known,      \* the structures that were put on a list in this process
    bare,       \* the structure the thread is about to unlink without the mutex
    loose,      \* a dereference went on without the mutex
    crashed,    \* a list was walked past its end, or assert(!p) failed: the structure
                \* that was not found and that of the thread
    starts, lookups, forks, interrupts

lists  == <<gpThrdDB, zombies>>
bounds == <<starts, lookups, forks>>
mutex  == <<bare, loose, interrupts>>
dbVars == <<state, tid, pThrd, gpTLS, ref, doomed, used, cRefs, stid, gpThrdDB,
            zombies, known, bare, loose, crashed, starts, lookups, forks, interrupts>>

\* none: no such thread; new: started by the system only; starting: on the way to
\* threadWrapper; run: known to the library; ending: past __libc_threadTermination;
\* leaving: past the dereference of its structure.
States == {"none", "new", "starting", "run", "ending", "leaving"}

\* One thread, the main thread, with the preallocated structure.
DBInit ==
    \E main \in Threads :
        /\ state = [t \in Threads |-> IF t = main THEN "run" ELSE "none"]
        /\ tid = [t \in Threads |-> IF t = main THEN FirstTid ELSE None]
        /\ pThrd = [t \in Threads |-> None]
        /\ gpTLS = [t \in Threads |-> IF t = main THEN PreAlloc ELSE None]
        /\ ref = [t \in Threads |-> None]
        /\ doomed = [t \in Threads |-> None]
        /\ used = {PreAlloc}
        /\ cRefs = [s \in Structs |-> IF s = PreAlloc THEN 1 ELSE 0]
        /\ stid = [s \in Structs |-> IF s = PreAlloc THEN FirstTid ELSE None]
        /\ gpThrdDB = {PreAlloc}
        /\ zombies = {}
        /\ known = {PreAlloc}
        /\ bare = [t \in Threads |-> None]
        /\ loose = FALSE
        /\ crashed = {}
        /\ starts = 0 /\ lookups = 0 /\ forks = 0 /\ interrupts = 0

\* The thread is in none of the operations of this module.
Runs(t) == state[t] = "run" /\ ref[t] = None /\ doomed[t] = None /\ bare[t] = None

FreeTids == Tids \ ({FirstTid} \union {tid[t] : t \in Threads})

Set(f, t, v) == [f EXCEPT ![t] = v]

\* _fmutex_request without _FMR_IGNINT: a signal ends the wait for the thread that owns
\* the mutex.
Interrupted(t) ==
    /\ \E u \in Threads \ {t} : state[u] \in {"new", "starting", "run", "ending"}
    /\ interrupts < MaxInterrupts /\ interrupts' = interrupts + 1

-----------------------------------------------------------------------------
(* Threads come to be.                                                      *)

\* A thread is started by the system with id i.
Started(u, i, how) ==
    /\ state[u] = "none" /\ i \in FreeTids
    /\ starts < MaxStarts /\ starts' = starts + 1
    /\ state' = Set(state, u, how)
    /\ tid' = Set(tid, u, i)

\* __libc_back_threadCreate: allocate and initialise a structure, create the
\* thread with it.
Create(t, u, s, i) ==
    /\ Runs(t)
    /\ s \notin used /\ s # PreAlloc
    /\ Started(u, i, "starting")
    /\ used' = used \union {s}
    /\ cRefs' = Set(cRefs, s, 1)
    /\ stid' = Set(stid, s, None)
    /\ pThrd' = Set(pThrd, u, s)
    /\ UNCHANGED <<gpTLS, ref, doomed, lists, known, mutex, crashed, lookups, forks>>

\* DosCreateThread fails: the structure, which has no id yet, is dereferenced and
\* with that doomed.
CreateFails(t, s) ==
    /\ Runs(t)
    /\ s \notin used /\ s # PreAlloc
    /\ used' = used \union {s}
    /\ cRefs' = Set(cRefs, s, 0)
    /\ stid' = Set(stid, s, None)
    /\ doomed' = Set(doomed, t, s)
    /\ \/ UNCHANGED mutex
       \/ Interrupted(t) /\ loose' = TRUE /\ UNCHANGED bare
    /\ UNCHANGED <<state, tid, pThrd, gpTLS, ref, lists, known, crashed, bounds>>

\* A thread that was not started by the library.
Foreign(u, i) ==
    /\ Started(u, i, "new")
    /\ UNCHANGED <<pThrd, gpTLS, ref, doomed, used, cRefs, stid, lists, known, mutex,
                   crashed, lookups, forks>>

\* Mutant of Enter: structures of the same thread id are left where they are.
EnterKeepsStale(t, s, i) ==
    /\ gpTLS' = Set(gpTLS, t, s)
    /\ stid' = Set(stid, s, i)
    /\ state' = Set(state, t, "run")
    /\ gpThrdDB' = gpThrdDB \union {s} /\ known' = known \union {s}
    /\ UNCHANGED <<zombies, mutex>>

\* __libc_threadUse: what a dead thread of the same id left behind goes to the
\* zombies.  If the request is interrupted the lists stay as they are.
Enter(t, s, i) ==
    /\ gpTLS' = Set(gpTLS, t, s)
    /\ stid' = Set(stid, s, i)
    /\ state' = Set(state, t, "run")
    /\ \/ LET stale == {p \in gpThrdDB : stid[p] = i}
          IN /\ gpThrdDB' = (gpThrdDB \ stale) \union {s}
             /\ zombies' = zombies \union stale
             /\ known' = known \union {s}
             /\ UNCHANGED mutex
       \/ Interrupted(t) /\ UNCHANGED <<lists, known, bare, loose>>

\* The start of threadWrapper.
Wrapper(t) ==
    /\ state[t] = "starting"
    /\ Enter(t, pThrd[t], tid[t])
    /\ UNCHANGED <<tid, pThrd, ref, doomed, used, cRefs, crashed, bounds>>

\* __libc_threadCurrentSlow, the first time a foreign thread uses the library: the
\* preallocated structure if it is unused, one from the heap otherwise.
CurrentSlow(t, s) ==
    /\ state[t] = "new"
    /\ s \notin used
    /\ PreAlloc \notin used => s = PreAlloc
    /\ used' = used \union {s}
    /\ cRefs' = Set(cRefs, s, 1)
    /\ Enter(t, s, tid[t])
    /\ UNCHANGED <<tid, pThrd, ref, doomed, crashed, bounds>>

-----------------------------------------------------------------------------
(* Lookups.                                                                 *)

\* A lookup that succeeds returns a reference.
Found(t, s) ==
    /\ lookups < MaxLookups /\ lookups' = lookups + 1
    /\ cRefs' = Set(cRefs, s, cRefs[s] + 1)
    /\ ref' = Set(ref, t, s)
    /\ UNCHANGED <<state, tid, pThrd, gpTLS, doomed, used, stid, lists, known, mutex,
                   crashed, starts, forks>>

\* __libc_threadLookup.
Lookup(t, i) == Runs(t) /\ \E s \in gpThrdDB : stid[s] = i /\ Found(t, s)

\* __libc_threadLookup2: the callback may choose any thread.
Lookup2(t) == Runs(t) /\ \E s \in gpThrdDB : Found(t, s)

-----------------------------------------------------------------------------
(* __libc_threadDereference.                                                *)

\* Mutant of Unlink: the structure is not looked for among the zombies.
UnlinkLiveOnly(t, s) ==
    LET found == stid[s] = None \/ s \in gpThrdDB
    IN /\ gpThrdDB' = gpThrdDB \ {s} /\ zombies' = zombies
       /\ crashed' = IF found THEN crashed ELSE {s, gpTLS[t]} \ {None}
       /\ doomed' = IF found THEN Set(doomed, t, s) ELSE doomed

\* The last reference is gone: the structure is taken off its list.  A walk of
\* an empty database does not get as far as the zombies.
Unlink(t, s) ==
    LET found == stid[s] = None \/ s \in gpThrdDB \/ (s \in zombies /\ gpThrdDB # {})
    IN /\ gpThrdDB' = gpThrdDB \ {s}
       /\ zombies' = zombies \ {s}
       /\ crashed' = IF found THEN crashed ELSE {s, gpTLS[t]} \ {None}
       /\ doomed' = IF found THEN Set(doomed, t, s) ELSE doomed

\* Its section under the mutex.  The result of the request is not looked at: after an
\* interrupted one another thread may be in a section between the decrement and the
\* walk.
Dereference(t, s) ==
    /\ cRefs' = Set(cRefs, s, IF cRefs[s] > 0 THEN cRefs[s] - 1 ELSE 0)
    /\ \/ /\ UNCHANGED mutex
          /\ IF cRefs[s] > 1 THEN UNCHANGED <<lists, crashed, doomed>> ELSE Unlink(t, s)
       \/ /\ Interrupted(t) /\ loose' = TRUE
          /\ bare' = IF cRefs[s] > 1 THEN bare ELSE Set(bare, t, s)
          /\ UNCHANGED <<lists, crashed, doomed>>

\* The walk without the mutex.
UnlinkBare(t) ==
    /\ bare[t] # None
    /\ Unlink(t, bare[t])
    /\ bare' = Set(bare, t, None)
    /\ UNCHANGED <<state, tid, pThrd, gpTLS, ref, used, cRefs, stid, known, loose,
                   interrupts, bounds>>

\* A caller of a lookup is done with the structure.
DerefFound(t) ==
    /\ ref[t] # None /\ state[t] = "run"
    /\ Dereference(t, ref[t])
    /\ ref' = Set(ref, t, None)
    /\ UNCHANGED <<state, tid, pThrd, gpTLS, used, stid, known, bounds>>

\* The rest of it, outside the mutex: the thread loses its structure if this was
\* its own, and the storage is released.
Dispose(t) ==
    /\ doomed[t] # None
    /\ gpTLS' = IF gpTLS[t] = doomed[t] THEN Set(gpTLS, t, None) ELSE gpTLS
    /\ used' = used \ {doomed[t]} /\ known' = known \ {doomed[t]}
    /\ doomed' = Set(doomed, t, None)
    /\ UNCHANGED <<state, tid, pThrd, ref, cRefs, stid, lists, mutex, crashed, bounds>>

-----------------------------------------------------------------------------
(* Threads go.                                                              *)

\* The thread function returns, or the thread calls _endthread; the callbacks of
\* __libc_threadTermination have run.
Terminate(t) ==
    /\ Runs(t)
    /\ state' = Set(state, t, "ending")
    /\ UNCHANGED <<tid, pThrd, gpTLS, ref, doomed, used, cRefs, stid, lists, known, mutex,
                   crashed, bounds>>

\* Mutant of DerefOwn: a thread frees its structure whoever else has it.
DerefOwnFrees(t) ==
    /\ state[t] = "ending"
    /\ \E s \in {gpTLS[t], pThrd[t]} \ {None} : Unlink(t, s)
    /\ state' = Set(state, t, "leaving")
    /\ UNCHANGED <<tid, pThrd, gpTLS, ref, used, cRefs, stid, known, mutex, bounds>>

\* The end of threadWrapper and of _endthread: the thread dereferences its own
\* structure, the wrapper by its argument.
DerefOwn(t) ==
    /\ state[t] = "ending"
    /\ \E s \in {gpTLS[t], pThrd[t]} \ {None} : Dereference(t, s)
    /\ state' = Set(state, t, "leaving")
    /\ UNCHANGED <<tid, pThrd, gpTLS, ref, used, stid, known, bounds>>

\* The thread is gone, with the references it had; its id may be given to another.
Gone(t) ==
    /\ state' = Set(state, t, "none")
    /\ tid' = Set(tid, t, None)
    /\ gpTLS' = Set(gpTLS, t, None)
    /\ pThrd' = Set(pThrd, t, None)
    /\ ref' = Set(ref, t, None)
    /\ doomed' = Set(doomed, t, None)
    /\ bare' = Set(bare, t, None)
    /\ UNCHANGED <<used, cRefs, stid, lists, known, loose, interrupts, crashed, bounds>>

\* DosExit of the thread.  That of the main thread ends the process.
ExitThread(t) ==
    state[t] = "leaving" /\ doomed[t] = None /\ bare[t] = None /\ tid[t] # FirstTid /\ Gone(t)

\* The thread is killed outside the sections, wherever it is, and leaves its structure
\* and what it was about to dispose of behind.
KillThread(t) == state[t] # "none" /\ tid[t] # FirstTid /\ Gone(t)

\* fork by t, followed into the child.  threadForkParent1 owned the mutex, so no
\* section is half done.  In the child only t exists, as the first thread, and
\* threadForkChild1 gives it the preallocated structure; what was on the lists
\* is forgotten.
ForkChild(t) ==
    /\ Runs(t)
    /\ forks < MaxForks /\ forks' = forks + 1
    /\ state' = [u \in Threads |-> IF u = t THEN "run" ELSE "none"]
    /\ tid' = [u \in Threads |-> IF u = t THEN FirstTid ELSE None]
    /\ gpTLS' = [u \in Threads |-> IF u = t THEN PreAlloc ELSE None]
    /\ pThrd' = [u \in Threads |-> IF u = t THEN pThrd[u] ELSE None]
    /\ ref' = [u \in Threads |-> None]
    /\ doomed' = [u \in Threads |-> None]
    /\ bare' = [u \in Threads |-> None]
    /\ used' = used \union {PreAlloc}
    /\ cRefs' = Set(cRefs, PreAlloc, 1)
    /\ stid' = Set(stid, PreAlloc, FirstTid)
    /\ gpThrdDB' = {PreAlloc} /\ zombies' = {} /\ known' = {PreAlloc}
    /\ UNCHANGED <<loose, interrupts, crashed, starts, lookups>>

DBNext ==
    \/ \E t \in Threads :
        \/ Wrapper(t) \/ Lookup2(t) \/ DerefFound(t) \/ UnlinkBare(t) \/ Dispose(t)
        \/ Terminate(t) \/ DerefOwn(t) \/ ExitThread(t) \/ KillThread(t) \/ ForkChild(t)
        \/ \E s \in Structs : CreateFails(t, s) \/ CurrentSlow(t, s)
        \/ \E i \in Tids : Lookup(t, i) \/ Foreign(t, i)
        \/ \E u \in Threads, s \in Structs, i \in Tids : Create(t, u, s, i)

DBSpec == DBInit /\ [][crashed = {} /\ DBNext]_dbVars

-----------------------------------------------------------------------------
(* Properties.                                                              *)

\* Type correctness of the thread database and of the threads' positions.
TypeOK ==
    /\ state \in [Threads -> States]
    /\ tid \in [Threads -> Tids \union {None}]
    /\ {pThrd, gpTLS, ref, doomed, bare} \subseteq [Threads -> Structs \union {None}]
    /\ used \subseteq Structs
    /\ cRefs \in [Structs -> 0 .. MaxLookups + 1]
    /\ stid \in [Structs -> Tids \union {None}]
    /\ gpThrdDB \subseteq Structs /\ zombies \subseteq Structs
    /\ known \subseteq Structs /\ crashed \subseteq Structs /\ loose \in BOOLEAN
    /\ starts \in 0 .. MaxStarts /\ lookups \in 0 .. MaxLookups /\ forks \in 0 .. MaxForks
    /\ interrupts \in 0 .. MaxInterrupts

\* The structures thread t has in its hands.  A thread that has dereferenced its own
\* structure keeps a pointer to it in *__libc_gpTLS until it exits, when others had
\* references; it is not to be used any more.
Holds(t) ==
    ({ref[t], doomed[t]}
       \union (IF state[t] = "starting" THEN {pThrd[t]} ELSE {})
       \union (IF state[t] = "leaving" THEN {} ELSE {gpTLS[t]})) \ {None}

\* thread.h:442: the structure "will not be freed by the thread it represent while
\* someone else is accessing it", nor by anybody else while its thread runs: it is
\* disposed of once, by a thread that has it alone.
Intact ==
    \A t \in Threads :
        /\ Holds(t) \subseteq used
        /\ doomed[t] # None =>
             /\ doomed[t] \notin gpThrdDB \union zombies
             /\ \A u \in Threads \ {t} : doomed[t] \notin Holds(u)

\* That is so however ends, kills, forks, interrupted registrations and the lookups of
\* others interleave, until a dereference goes on without the mutex
\* (thread_internals.c:221); from there on it is not (Intact, MCThreadDBBare.cfg).  The
\* type invariant is part of it.
NoDangling == TypeOK /\ (~loose => Intact)

\* thread_internals.c:124-156: a lookup of a running thread's id finds that thread's
\* structure, not one a dead thread of the same id left behind, unless the
\* registration of the thread was interrupted (121-122, 162).
LookupIsCurrent ==
    ~loose => \A t \in Threads : state[t] = "run" /\ gpTLS[t] \in known =>
        {s \in gpThrdDB : stid[s] = tid[t]} = {gpTLS[t]}

\* thread_internals.c:247-287: the structure whose last reference goes is found on its
\* list, and no walk runs past the end of one, when the structure and the one of the
\* thread that walks were put on a list in this process: ends, kills, zombies of the
\* same id and forks do not take them off before.  Those whose registration was
\* interrupted, or that a fork forgot, run into assert(!p) (NeverAsserts).
DerefFinds == ~loose /\ crashed # {} => ~(crashed \subseteq known)

\* thread_internals.c:285, assert(!p), as it stands.  TLC finds it violated
\* (MCThreadDBAssert.cfg).
NeverAsserts == crashed = {}
=============================================================================
