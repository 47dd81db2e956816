# TLA+ models of the synchronisation and process core of LIBC for OS/2

This directory holds TLA+ modules that model the parts of the C library that
threads and processes share, TLC configurations that check them on small
instances, and TLAPS proofs of the results that matter most. The repository is
the reference: every definition names, in `PROJECT.json` under `map`, the lines
it was translated from. Paths below are relative to `src/emx/` in the repository.

Run `tlc -config X.cfg M` for a run listed in `PROJECT.json`, and `tlapm M.tla`
for a `*Proofs` module.

## 1. Inventory

The library's own core is under `src/lib/process` and `src/lib/sys`. The C
library proper (`bsd`, `lgpl`, `msun`, `gdtoa`), the tests (`libctests`,
`testcase`) and the tool chain are third-party, sequential or not part of the
run-time system.

| Component | State | Operations | What is hard | What makes it correct |
|---|---|---|---|---|
| Fast mutex, `process/fmutex.c`, `sys/fmutex.h` | a byte `fs`, an event semaphore, `Owner` | create, request, release, checked forms, fork release | word and event change in separate steps; lazy creation; threads killed; process exit | exclusion, no lost wake-up, sections balanced |
| Simple mutex, `sys/smutex.h`, `process/smutex.c` | a byte | request, release, try | spinning with `DosSleep`; an owner that is killed | implements a mutex; nobody spins on in a process that exits |
| POSIX semaphores, `process/sem_*.c` | counter, event | wait, timed wait, try, post | counter and event apart; time-outs; a try that takes nothing | the waits never get more units than there were, and none is lost |
| Safe semaphores, `sys/safesems.c` | OS/2 mutex in shared memory; event with a mutex | lock, unlock, sleep, wake-up, signal callback | owners that die; signals during a sleep | exclusion; owner cannot be killed; callback exactly once; a wake-up gets a sleeper back |
| System V semaphores, `sys/sysv_sem.c` | sets in one pool, undo structures | semget, semop, semctl, exit hook | all-or-nothing vectors, slots reused during a sleep, semget under another mutex than the calls, pool compaction | values and undo agree with the calls that succeeded |
| System V shared memory, `sys/sysv_shm.c` | segments, attach counts | shmget, shmat, shmdt, shmctl, fork, exit | removal while attached, fork inherits attachments | a segment lives while somebody is attached |
| Child processes, `sys/b_processWait.c` | queue of status, list of children, two events, a thread | exec/child/exit/no-wait notifications, wait, fork hook | own thread reaps; mutex released to allocate; one event for all callers | each end told once; no false ECHILD; callers return |
| Shared process management, `sys/sharedpm.c` | process blocks, shared heap, a mutex | create embryo, register, notify, query, release, recover | processes die at any point; a child registers while its parent still works on its block; low memory | references, states and lists agree; a block in use is not given away; a parent is told of every end |
| Signals, `sys/signals.c`, `b_signal*.c` | masks, pending sets, queues, actions | raise, send, mask, suspend, wait, timers | delivery to the right thread, queues in shared memory | nothing pending is lost or delivered while blocked |
| Fork, `sys/libcfork.c` | fork handle in shared memory | handshake, page copying, callbacks | two processes in lock step, either may die | callbacks in order; child is a copy |
| File handles, `sys/filehandles.c` | table of handles, reference counts | allocate, free, inherit | table grows, handles shared by `dup` | a handle is closed with its last user |
| Thread database and TLS, `process/thread_internals.c`, `beginthr.c`, `tls.c` | thread structures by id, slots and bitmap | begin, end, lookup; alloc, free, get, set | a thread ends while it is looked up; requests of the mutex that are interrupted; ids and slots are reused; count and bitmap apart | one structure per thread, freed once; a counted slot is found |
| Heap, files, sockets, logging | - | - | mostly sequential or I/O | not modelled |

How they interact. `FMutex` is under almost everything inside a process
(`gmtxWait` of the wait module is one). The System V calls take the mutex and
event of a set from the safe semaphores. `spawn` and `fork` tell the wait module
of a new child, the SPM holds what the child inherits and what it died of, and the
wait thread raises SIGCHLD. `exit` runs the exit hooks: the wait module is told
to stop, System V semaphores are to be undone, the SPM block becomes a zombie.

The hazards, each at its line, are in `PROJECT.json`.

## 2. Modules

| Module | Models |
|---|---|
| `Mutex` | abstract: a set of threads that hold a mutex |
| `FMutex` | every shared access and kernel call of the fast mutex, as one action each |
| `FMutexProofs` | type correctness, exclusion, coherence of `Owner`, refinement of `Mutex`, balance of the sections, no lost wake-up |
| `SMutex` | the simple mutex, one action per exchange |
| `PosixSem` | the two steps of each semaphore call |
| `PosixSemProofs` | the waits are granted no more units than there were |
| `SafeMtx` | `safesemMtxLock` and `safesemMtxUnlock` between processes that are killed |
| `SafeMtxProofs` | type correctness, exclusion, must-complete balance, no effect of the remedy |
| `SafeEv` | steps of `safesemEvSleep`, the wake-up and the signal callback |
| `SafeEvClient` | the above called in every order their contract allows |
| `SysVSem` | sets, vectors, undo, removal and exit, on top of `SafeEv` (EXTENDS it, so a sleep in `semop` is `SafeEv`'s) |
| `SysVSemProofs` | of `SafeEvClient`: the completion callback runs exactly once, a wake-up reaches who was asleep until the event is reset; of `SysVSem`: the rollback of undo entries fits, and undo structures, handles and values are what the calls that succeeded made of them |
| `ProcessWait` | the wait thread, the queue, the list of children, the callers and the fork hook |
| `ProcessWaitProofs` | the end of a child is told once, before SIGCHLD; no false ECHILD; nothing of the parent after a fork |
| `TLS` | slots, bitmap, count, destructors; EXTENDS `SMutex`, whose mutex guards the registration of the callback |
| `TLSProofs` | `SMutex` implements `Mutex`, alone and in every run of `TLS`; count and bitmap; a counted allocation finds its slot; the callback is registered once |
| `ThreadDB` | thread structures, the two lists, references, ends and forks of threads |
| `ThreadDBProofs` | no structure is released under a user, lookups are current, the last dereference finds the structure |
| `SharedPM` | process blocks, and the steps of spawn and fork that use them |
| `SharedPMProofs` | lists, references and notes agree, and a child finds its own embryo |
| `MC*` | instances: request sets, vectors, symmetry |

State and actions.

* `FMutex`. `fs`, `hev`, `Owner` are the fields; `posted` is the event; `pc`,
  `lfs`, `lOwner`, `flags`, `timed` are the locals of a thread inside
  `__fmutex_request_internal`; `nest` the must-complete count. `holders` is a
  history variable changed with the exchange that gives or takes the mutex; the
  refinement maps the abstract holders to it. `MustComplete` and `Shared` are the
  create flags and `InitFs` the states a mutex may be found in (zeroed, static
  initialiser, created).
* `PosixSem`. `count` and `posted`; a wait is `WaitSub` and then the wait on the
  event, a post is `PostAdd` and then the post. The time-out is a possibility at
  any moment. `sem_trywait` tests the counter and leaves it (`tried` counts its
  successes).
* `SafeMtx`. A thread is a process; `hmtx` is the handle in shared memory, `lh` its
  copy on the stack, `owner` the kernel's view, `cOwnerDied` the tries left. The
  remedy is modelled with the arguments of its compare-and-exchange in the order
  the code has them.
* `SafeEv`. `spc` says where a thread is between the release of the mutex and its
  reacquisition, `fDone` whether a signal came. The mutex is an abstract one.
  `SafeEvClient` adds history: `slept` and `completions`, `due` (asleep at a wake-up and
  not back yet) and `undercut` (those of them whose event a sleeper that returned has
  reset).
* `SysVSem`. `sema`, `sem`, `semtot`, `undo`, `semu` are the globals in shared
  memory. A section under a set's mutex is one action; IPC_RMID, which changes
  other sets under its own mutex, is four, SETALL, which releases the mutex in
  between, two. semget holds the global mutex only and is two as well: `SemgetAlloc`
  (SEM_ALLOC) and `Semget` (sequence number, size, base). In between the handle of the
  set that was removed is valid again (`Stale`); a call that uses it goes `Astray`, and
  the behaviour ends there. `ledger`, `owed`, `passed` (semaphores whose undo entry
  SETVAL may have passed over) and `foreign` are history.
* `ProcessWait`. `fifo`, `free`, `gcWaitFree`, `giWaitPreAlloced` are the queue and
  its nodes, `known`, `gcChildren`, `spare` the list of children and its free nodes.
  A section under `gmtxWait` is one action; the wait thread's is two where
  `waitAllocInsert` releases the mutex. `wpc` is the wait thread, `pc` the callers.
  A fork is followed into the child: afterwards the state is the child's.
* `SMutex`. `sem` is the byte and `pc` says where a caller is; the owner is the thread
  that is past its exchange, killed or not (nobody releases for it). The refinement maps
  the abstract holders to that.
* `TLS`. `gcTLSAllocated`, `gauBitmap`, `gapfnDestructors` and `apvTLS` are the globals.
  An allocation is `Reserve` (the count) and one `Probe` per bit, a release `Free` (the
  bit) and `FreeCount`; `__libc_TLSDestructor` is the test of `fInited`, the mutex, the
  registration and the store. `NextBits` says which bits the walk may look at next.
* `ThreadDB`. `gpThrdDB` and `zombies` are the lists, `used` the storage, `cRefs` and
  `stid` fields of a structure, `pThrd` and `gpTLS` what a thread has of itself, `ref`
  what it has looked up, `doomed` what it is about to dispose of. Sections under
  `gmtxThrdDB` are one action; disposal, which follows them, is another. A request of
  the mutex may be interrupted (`Interrupted`): a registration then leaves the structure
  on no list (`known` are those that were put on one), and a dereference goes on without
  the mutex: it decrements, and walks the lists later (`bare`, `UnlinkBare`); `loose` says
  that this has happened. `crashed` holds the structures of a walk that ran past the end
  of its list, after which the process is gone.
* `SharedPM`. `spm` is the shared memory (blocks, and the order of the embryos and
  zombies), `self` is `gpSPMSelf`, `step`, `held` and `child` the locals of a spawn or
  fork. Each SPM call is one action, because it runs under the SPM mutex; what spawn
  does between them interleaves with everybody. `for` in a block, `libc`,
  `silent` (registered without a structure for the note), `asked` and `told` are history.
  `robbed` says that a zombie a spawn holds was given to a new process; two processes
  then work on one block, and the behaviour ends there.

External parts, modelled from how the code uses them: OS/2 event and mutex
semaphores, must-complete sections, `DosVerifyPidTid`, `DosWaitChild`, thread and
process death, signals, the clock.

## 3. Runs

Passing runs:

| Run | Instance | Shows |
|---|---|---|
| `fmutex` | 3 threads, one killed, any initial state, must-complete | exclusion, `Owner` never names a thread that does not own it, whoever is blocked will be posted (`NoLostWakeup`), sections balance |
| `fmutex_live` | 2 threads, no time-out in the wait | `FMutex` implements `Mutex`; a waiter that is left alone is served |
| `posixsem` | 4 threads, 4 posts, 2 time-outs, 1 try | units granted by `sem_wait` and `sem_timedwait` never exceed units there were |
| `safemtx` | 3 processes, 1 killed, 3 tries | exclusion, an owner cannot be killed, a request returns or panics |
| `safeev` | 3 threads that may all sleep, 2 events | callback exactly once; a thread asleep at a wake-up is not blocked, and returns, unless a sleeper that returned before it has reset the event |
| `sysvsem` | 2 processes, a set of three, one undo structure of two entries for both, SETVAL and SETALL, slot used twice | atomic vectors, undo (but for what SETVAL passes over), rollback, wake-ups, no change to a foreign set outside semget's window |
| `processwait` | 2 threads, 2 children, one stop, one failed allocation, one fork, 1 preallocated node | ends told once, before SIGCHLD; no false ECHILD by pid or for any child; the child of a fork starts without its parent's children |
| `tls` | 2 threads, 3 slots in one word of three one-bit bytes, one kill, one set, one thread end | count and bitmap in step, a counted allocation never gives up, callback registered once, `SMutex` implements `Mutex`, nobody spins on at exit |
| `threaddb` | 3 threads, 3 structures, ids and storage reused, 2 lookups, kills, a fork by any thread, an interrupted request | until a dereference goes on without the mutex: no structure released under a user, a lookup finds the thread that registered, the last dereference finds a registered structure |
| `spm` | 3 processes, 4 blocks, two failures of a spawn or of the allocation of a note, one query | until a held zombie is given away: lists agree, nobody has a block without a reference in its count, notes that could be made arrive once, a child inherits only what was made for it |
| `processwait_live` | 2 callers of one child, the process may end, SIGCHLD may be ignored | the end reaches who waits for it; nobody stays when the process ends |

One run shows a disagreement between the code and what the repository says of it;
`findings` in `PROJECT.json` quotes the line:

* `posixsem_race`: two posts before the waiters block collapse into one; a waiter
  is stranded.

Further configurations show others when they are run by hand (TLC reports the
property as violated); they are not part of the regular runs:

* `MCFMutexOwnerDied.cfg` (`MCFMutex`, `OwnerDiedIsTrue`): "Owner died!"
  (`fmutex.c:185`) although the owner released the mutex and then ended, between the
  reading of `Owner` and the verification.
* `MCSysVSemPool.cfg` (`MCSysVSem`, `PoolDisjoint`): concurrent removals leave two sets
  with the same semaphores: IPC_RMID compacts the pool under the mutex of its own set
  (`sysv_sem.c:627`). The passing run has one slot.
* `MCProcessWaitPhantom.cfg` (`MCProcessWait`, `ChildlessWaitReturns`): a child reaped
  before it is registered stays on the list (`b_processWait.c:674`); `wait()` then never
  returns, because a wait for any child takes the list and its counter for the children
  there are.
* `MCSharedPMZombie.cfg` (`MCSharedPM`, `HeldIsKept`): with the shared memory exhausted
  `spmAllocProcess` (`sharedpm.c:3092`) hands out a zombie that a spawn still refers to;
  `sharedpm.h:371` says "A process is not actually free till the reference count
  reaches 0." The passing run has the same four blocks; its properties are stated up to
  the step that does this.
* `MCSharedPMQuery.cfg` (`MCSharedPM`, `EmbryoRefs`): `__libc_spmQueryProcess`
  (`sharedpm.c:776`) goes on searching after it took a reference and returns NULL for a
  process that lives or is to come, so the reference is lost: an embryo has two, where
  the assertions at 2663 and 2908 say at most one, and a process leaves a zombie for good.
* `MCPosixSemTry.cfg` (`MCPosixSem`, `TriesCovered`): `sem_trywait` does not take the
  unit it reports (`sem_trywait.c:26-37`); `libctests/glibc/nptl/tst-sem1.c:49-60`
  requires the second of two tries to fail.
* `MCSafeEvAll.cfg` (`SafeEvClient`, `WakesAll`): "Wakes up all threads sleeping on a
  given event semaphore" (`safesems.c:531`), but the first sleeper to return resets the
  event (489) before another that has yet to call `DosWaitEventSem`.
* `MCSysVSemSetVal.cfg` (`MCSysVSem`, `UndoExact`): `semundo_clear` of one semaphore ends
  at the first entry of the set (`sysv_sem.c:542`), so SETVAL leaves the old adjustment of
  a process that has entries for two semaphores.
* `MCSysVSemStale.cfg` (`MCSysVSem`, `HandlesExpire`): semget sets SEM_ALLOC before the
  sequence number (`sysv_sem.c:890-891`), without the mutex of the set: a call with the
  handle of the removed set passes the check and works with that set's size and place.
* `MCThreadDBBare.cfg` (`MCThreadDB`, `Intact`): the result of the request at
  `thread_internals.c:221` is not looked at. A dereference that was interrupted finds the
  last reference gone, a lookup returns the structure before it is unlinked, and it is
  freed under that thread; `thread.h:442` says it will not be.
* `MCThreadDBAssert.cfg` (`MCThreadDB`, `NeverAsserts`): `assert(!p)` at
  `thread_internals.c:285` fails for a thread whose registration was interrupted
  (121-122, 162), and in the child for a thread that forked and was not the first, whose
  wrapper dereferences a structure the child has forgotten.

Other places where the models, which follow the code, part from what a reader would
expect. They are kept in the models; no run is spent on them, and the passing runs
leave out the case only where it is said:

* A wait on a POSIX semaphore that timed out leaves the counter one too low, so that a
  later post posts the event for nobody.
* `safesemMtxLock` passes the arguments of its compare-and-exchange in the wrong
  order; the remedy for a dead owner has no effect in any run (`NeverReplaced` proves
  it) and requesters panic when their tries are used up.
* A vector that takes from a semaphore and then waits for it to be zero is not woken when
  it could go on; `sysvsem` has no such vector. And a sleeper with several operations
  whose event another has reset under it may by then be stopped by an operation that it
  is not counted for, and miss its wake-up: `WokenWhenReady` is about the sleepers that
  are counted for what stops them (`CountedFor`).
* `semncnt` and `semzcnt` are not readjusted after a sleep, because `SleepDone` compares
  the sequence number of the set with that of a slot index, which is 0; only when the
  number has come round to 0 are they.
* `semexit_myhook` unlocks where it should lock, and panics (`Exit`).
* The fork hook of the wait module loses the list of free nodes and keeps its count
  (`Fork`); the process group of a child that does not use the library is
  uninitialised (`Reap`); a wait by group answers ECHILD for a child that has ended
  and is not queued yet (`ValidPGrp`), which is why `NoFalseEchild` is about the
  other two kinds.
* `__libc_tlsThreadDestructor` visits the first byte of each word of the bitmap only
  (`tls.c:289`), so `DestructorsCalled` of `TLS`, which restates `thread.h:533`, does not
  hold; and a slot that is freed and allocated again keeps the old values in other
  threads (`tls.c:157` has a to-do for it).
* A thread that leaves while another drops the last reference to its structure keeps
  `*__libc_gpTLS` pointing to it until it is gone (`ThreadDB`, `DerefOwn`); nothing it
  still does uses it. A thread that is killed leaves its structure, and one it was about
  to dispose of, behind for good; no property forbids that.
* The process id of a forked child is put into its embryo by a compare with 0, which is
  never there (`libcfork.c:1297`), so a child that dies before it registers leaves its
  embryo to be reaped by age.
* A block made while memory is low may be without the structure for the note
  (`sharedpm.c:610`, 3036). The end of such a child is noted nowhere (2704);
  `NoteReachesParent` says that its parent is not told by mistake either.

**Bounds.** Three threads are what the fast mutex needs: an owner, a thread that is
blocked, and one that overwrites the word in between. `SafeMtx` has a handle more
than there are processes, because each requester may offer one. `SeqMod` and
`CountMod` have the code's values: wrapping is not reached. `SEMMNU` of 1
and `SEMUME` of 2, with three semaphores, make the undo space run out and let a
structure have entries for two semaphores of a set; `SEMVMX` of 2 makes ERANGE happen
(1,719,730 states). In `safeev` every thread may sleep, on the same event too.
In `tls` three slots and two threads let a slot be freed behind a walk and taken before
it; the byte size of one bit keeps the shape of the walk. In `spm` the root, a child and
a grandchild or sibling cover parents that end before, during and after the life of a
child; four blocks are few enough for memory to run out and for a held zombie to be given
away (791,902 states). In `threaddb` three structures, three threads over the life of the
process besides the first, two lookups, one fork and one interrupted request let an id and
a structure be used again while a lookup of their former owner is out (861,463 states).
`PreAlloced` of 1 makes the wait nodes run out. The bounds on calls, posts, kills,
forks and toggles stand in guards, each named in its module, and stop an otherwise
unbounded run; hence `CHECK_DEADLOCK FALSE` where one is used up. In `SafeMtx` it is
because every process may have panicked.

**Fairness.** Weak fairness of the steps of a thread that is inside a call: OS/2
schedules a ready thread of regular class eventually (priorities are boosted for
starved threads). A call of the application is never assumed, but the release of a
mutex a thread holds is. `SafeMtx`: the 30 s run out. `SafeEvClient`: strong fairness
of retaking the mutex, because OS/2 mutex semaphores are granted to a waiting
thread in turn. `TLS`: a thread in the loop of the simple mutex
runs on. `ProcessWait`: `DosWaitEventSem` ends after its 30 s; no child has
to die and no signal has to come.

## 4. Proofs

Everything below holds for every value of the constants that satisfies the named
assumptions in the modules (`ConstantsAssumption`, `TLSAssumption`, `HandleAssumption`,
`SpecialAssumption`, `BoundAssumption`, `EventAssumption`,
`GroupAssumption`, `ThreadAssumption`, `LimitAssumption`, `EvsAssumption`,
`InputAssumption`, `SPMAssumption`): distinct special values, flags that are Booleans,
bounds and limits that are naturals, a finite set of threads, slots of sets that are numbered, vectors of
well-formed operations. Where a theorem has a hypothesis of its own, that is a case in
which the code does not have the property (section 3 says which), and TLC finds the
violation without it:

| Theorem | Hypothesis | Without it |
|---|---|---|
| `NoForeignChangeHolds` | `MaxGets < SeqMod` | the sequence number comes round during a sleep |
| `LedgerHolds` | `Alone`: no IPC_RMID, or one slot | a call on another set meets the pool half moved |
| `WokenWhenReadyHolds` | `NoZeroAfterTake`: no vector takes from a semaphore and then waits for it to be zero | `do_wakeup` looks for the value zero, where the sleeper needs what it takes itself |
| | `[]CountsFit`: the counts of waiting processes do not come round | `semncnt` at 0 again: `do_wakeup` finds nobody |
| | `Alone` and `MaxGets < SeqMod` | a set takes the values of another as the pool is moved; a sleeper takes a later set of the slot for its own |

In four places the property itself ends where the code leaves the case it is about, and the
violation beyond it is one of the configurations of section 3: `WakeReaches` at the reset
of the event by another sleeper (`WakesAll`), `UndoLedger` at the semaphores SETVAL passed
over (`UndoExact`), those of `ThreadDB` at a dereference without the mutex or, for
`LookupIsCurrent` and `DerefFinds`, a structure that was never registered (`Intact`,
`NeverAsserts`), those of `SharedPM` at a held zombie that is given away (`HeldIsKept`).
The behaviours of `SysVSem` end when a call goes astray in semget's window
(`HandlesExpire`), so its theorems say nothing of what comes after that.

* `FMutexProofs`: `TypeCorrect`, `MutualExclusionHolds`, `OwnerCoherentHolds` and
  `Refinement`. Exclusion alone is not inductive: that an exchange may grant the mutex
  depends on what the word says about the holders, and the word is also written by
  threads that do not get it. `Grant` says that an unowned word means no holder,
  that a mutex without an event semaphore is untouched beyond the creation steps,
  and that a thread about to set or to clear its ownership holds the mutex;
  `Ownership` adds that `Owner` is written by holders only. The invariant is
  `TypeOK /\ Grant /\ Ownership`. One lemma per shape of step (`QuietStep`,
  `QuietGoto`, `OwnStep`, `HardStep`) carries the case analysis over the actions.
  `Refinement` maps every step to one of `Mutex` or a stutter.
  `MustCompleteBalancedHolds` rests on `Balance`: the depth of a living thread is one
  for the mutex it owns and one for being inside a call anywhere but in the wait.
  `NoLostWakeupHolds` uses both: a thread that is to wake the waiters cannot be killed
  because of `Balance`, and the one that overwrote `_FMS_OWNED_HARD` goes to put it back
  rather than to create an event because there is one (`HardHasEvent`).
* `TLSProofs`. Of `SMutex`: `ByteTellsOwnerHolds` (the byte is set exactly while
  somebody owns the mutex) and `Refinement`. Of `TLS`: `SlotsAccountedHolds`,
  `AllocationSucceeds`, `RegisteredOnceHolds` and `InitMutexRefines`. For every
  position j the calls that scan at j or later and the slots taken there are together
  no more than the slots from j on (`Room`): a call leaves j only when it found j
  taken, and the count lets no more calls in than there are slots. The count is the
  bits set and the calls between the count and the bit (`TInv`). The callback is
  registered by the owner of the mutex only, who finds `fInited` clear until it is
  (`Registration`). `InitMutexRefines` carries the refinement of `SMutex` over to
  `TLS`, whose steps are steps of the mutex or leave it alone.
* `PosixSemProofs`: `WaitsCoveredHolds`. Every unit is in one place: in the counter,
  in the hands of a post between its two steps, remembered by the event, or taken
  (`Units`); and the counter is the units there were less the calls that took one off
  (`Counter`). Tries take nothing and are in neither.
* `SafeMtxProofs`: `TypeCorrect`, `MutualExclusionHolds`, `HeldIsUnkillableHolds`
  and `NeverReplaced`. The invariant ties the label of a thread to its
  must-complete count (`Sections`), its tries (`Tries`) and the kernel's owner of
  the one handle ever used (`Ownership`). `nest \in [Threads -> Nat]`, needed for
  type correctness, rests on `Sections`: a count below zero is excluded only
  because of where the sections are entered.
* `ThreadDBProofs`: `NoDanglingHolds`, `LookupIsCurrentHolds`, `DerefFindsHolds`. The types
  hold in every state (`Base`), the rest until a dereference goes on without the mutex
  (`~loose => Strict`). The argument counts references (`Counts`): those that lookups gave
  out and the one of the thread a structure belongs to are never more than `cRefs`, so
  whoever takes the last one off has the structure alone. That it is found needs `Listed`
  (a structure that was put on a list and that a thread may dereference is still on one,
  and the living have one entry per id). Structures on no list come from interrupted
  registrations and from forks: `Apart` and `Forgotten` say that nobody but their thread
  has them. That an id or storage used again does not mix two threads up needs `Life` and
  `Doomed`.
* `ProcessWaitProofs`: `ToldOnceHolds`, `HandlerFindsHolds`, `ForgetsParentHolds` and the
  action property `NoFalseEchildHolds`. `Told` follows the end of a child from
  `DosWaitChild` to the caller: in the wait thread's hands, in the queue, given away or
  dropped, never in two places. It is inductive only with `Listed`, which ties the list
  of known children to it: a child leaves the list in the step that brings its end into
  the queue or drops it. That is what a caller relies on who finds the queue empty.
* `SysVSemProofs`. The loops of `semop` over a vector, forward and back, and those over
  an undo structure are functions defined by recursion; what they compute is shown by
  induction over sets of naturals (`Induction`, `Recursion`), for vectors and structures
  of any length.
  - Of `SafeEvClient`: `CompletedOnceHolds` and `WakeReachesHolds`, for any number of
    sleepers per event. For the first the invariant says, per position in the sleep, how
    often the callback has run and whether `fDone` is set. For the second, that the owner
    of an event's mutex is awake and owns no other (`OwnerAwake`), and that a thread a
    wake-up is due to finds the event posted as long as it may still block and nobody has
    reset it (`Reached`).
  - `RollbackFitsHolds`, for all constants. A structure stands for a map from semaphores
    to adjustments (`Adj`) and has an entry for each that is not zero (`Sound`). An
    adjustment changes one value of the map and the number of entries with it
    (`AdjustIs`), the inverse changes both back (`AdjustBack`). So the rollback, in the
    reverse order, meets at every step a structure of as many entries as the forward
    loop had there (`ReadjustBack`), though perhaps in another order, and finds the room
    it needs.
  - `UndoLedgerHolds`, for all constants: the map is what the history says the process
    owes (`Owes`) except at the semaphores in `passed`, the structures of a removed set
    empty. The rolled back vectors leave the map as it was. SETVAL deletes the entry of its
    semaphore when the process has no other for the set; otherwise the semaphore is passed.
  - `NoForeignChangeHolds`: sequence numbers count the sets of a slot (`Seqs`), and a call
    compares its own again whenever it has let go of the mutex. `Making` says that one
    semget at a time is between its two steps, in a slot that is free, with room in the
    pool for its semaphores.
  - `LedgerHolds`, with the type invariant: a vector that is taken back leaves every value
    (`RollbackIs`), one that is done leaves values in range (`FinalRange`); the sets lie
    apart and below `semtot` (`Places`), so a store changes one set (`OneSet`). That
    `semtot` does not go below zero needs the mutexes (`Owned`): nobody else is removing
    the set that IPC_RMID has just locked.
  - `WokenWhenReadyHolds`, an action property: a process that sleeps is counted at its
    semaphore (`Waiting`), and stays so, since `SleepDone` never decrements a count
    (`SleepDoneIdle`). Of a set that is there before and after a step either no value
    changes, or the event is posted, or a vector was done and the event posted if
    `do_wakeup` found somebody (`MovedStep`); `Rooted` says that a removal moves nothing.
    What the operations before the one that stops the sleeper add to its semaphore is the
    same for the values before and after the step (`AlongShift`), so that value must have
    risen, or come to zero (`WhatItNeeds`). A vector that does this has a give of that
    semaphore (`AlongDown`), or a take that leaves zero (`AlongZero`), which is what
    `do_wakeup` tests for (`WakesWaiter`).
* `SharedPMProofs`: `ListsAgreeHold`, `ReferencesAreCounted`, `NotesReachParents` and
  `ChildrenInheritTheirOwn`, all from one invariant, `Good`, which holds until a held zombie
  is given away (`GoodTillRobbed`). None of them is inductive without the others: a release
  frees the block of another when the counts are wrong, and the counts are right only while
  a spawn holds the block it thinks it holds. Its parts beyond the properties:
  - `First` and `Loading`: `spmRegisterSelf` takes the embryo with the id of the child, or
    else the first one of its parent. Either the parent still holds the child's embryo,
    which is then the first of all it has (a process does one spawn at a time and embryos
    are put at the head), or it has put the id there before it let go.
  - `Held`, step by step of the spawn: which child the block is for and when it has its id.
  - `Blks`: an embryo has a parent that lives and is for a child that has no block; no two
    are for the same child.
  - `Counts` counts users by state (one reference for the process of a living block, one
    for the spawn that has it), which is what one step changes; `Counted` counts processes.
  - `Notes`: a note is of a child that ended and has not been asked for, and there is one
    of each child that had the structure for it. A note can only get lost with the block,
    and only an end frees that.

  The lists are sequences and the walks over them recursive functions (`Among`); what they
  return (the elements, in the same order, once) is proved by induction over sets of
  naturals, as for `SysVSem`. There is no bound on the blocks instead of `robbed`: how many
  are enough depends on the references that are lost.

Only model-checked:

* liveness (`WaiterServed`, `LockReturns`, `SleeperReturns`, `ExitEndsWait`, `EndReported`,
  `TermFreesWaiters`), which is out of the prover's reach.

The type invariant of a module without a theorem of that name is a conjunct of one of its
properties (`RegisteredOnce`, `NoDangling`, `WakeReaches`, `Ledger`, `ListsAgree`, `ToldOnce`; of
`PosixSem`, `WaitsCovered`).

## 5. Not modelled

* `sem_destroy`, and the arithmetic of `sem_timedwait`'s time-out (the time-out is
  a possibility at any moment); overflow of the counter at `SEM_VALUE_MAX`.
* Keys, permissions and the calls of System V semaphores that only read; `seminit`.
* In `ProcessWait`: interleavings inside `__libc_back_processWaitNotifyTerm` and the
  end of the wait thread, which run without the mutex and are one action each; a
  fork while another thread owns `gmtxWait`; a registration whose request of the
  mutex is interrupted; process ids used again.
* In `SysVSem`: what a call with a stale handle does to the pool in semget's window; it ends
  the behaviour (`Astray`).
* In `ThreadDB`: a kill inside a section under `gmtxThrdDB` (one outside, at any point, is
  modelled); a dereference without the mutex is a decrement, in one step, and a walk of the
  lists, in another, and nothing is claimed after it. Registration and
  walk of the termination callbacks. (The walk starts at
  the head of a list whose first element has no successor, so only the first callback
  registered runs, `thread_internals.c:501-513`.)
* In `SharedPM` a process does one spawn or fork at a time. That rests on `__libc_gmtxExec`,
  and `__spawnve.c:930` does not look at the result of its request: after an interrupted
  one two threads may be between `__libc_spmCreateEmbryo` and the release, which is not
  modelled. A process that got no block leaves the shared memory alone; a child that is
  loading registers before its embryo is old enough to be reaped.
* In `SharedPM`: the shared heap, the SPM mutex and its recovery after a death, locking of
  the inherited data, exit codes, signals, several copies of the library in one process,
  process ids used again, a fork that times out.
* The components of the table without a module, and those listed in `PROJECT.json`
  as not modelled with the reason.

## 6. Plan

1. `Signals`: pending sets, queues in shared memory, delivery; composed with
   `ProcessWait` through SIGCHLD and with `SharedPM` through the queue of a block.
2. `Fork`: the handshake; composed with the fork hooks of `ThreadDB` and `ProcessWait`.
3. The recovery of the SPM mutex, and `seminit` on top of it.
4. `SysVShm` on top of `SafeEv`, and `FileHandles`.
