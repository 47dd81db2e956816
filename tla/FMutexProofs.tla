---------------------------- MODULE FMutexProofs ----------------------------
(***************************************************************************)
(* Proofs about the fast mutex, for every set of threads, every state a     *)
(* mutex may start from and both create flags.                              *)
(***************************************************************************)
EXTENDS FMutex, TLAPS

\* What the value of fs says about who owns the mutex.
Grant ==
    /\ MutualExclusion
    /\ fs \in {AutoInitialize, Uninit, Available} => holders = {}
    /\ hev = 0 => holders = {} /\ fs \notin {Available, OwnedHard}
    /\ fs \in {AutoInitialize, Uninit} => hev = 0 /\ \A t \in Threads : pc[t] = "idle"
    /\ hev = 0 => \A t \in Threads : pc[t] \in {"idle", "chkHev", "create", "cas"}
    /\ \A t \in Threads : pc[t] \in {"setOwner", "relXchg"} => t \in holders

\* Owner is written by the owner only, after it got the mutex and before it
\* gives it away.
Ownership ==
    /\ OwnerCoherent
    /\ \A t \in holders : pc[t] \in {"setOwner", "relXchg"} => Owner = NoOwner

\* IInv is the inductive invariant for mutual exclusion.
IInv == TypeOK /\ Grant /\ Ownership

LEMMA InitIInv == Init => IInv
<1> SUFFICES ASSUME Init PROVE IInv
  OBVIOUS
<1>1. fs \in FS /\ hev \in {0, 1} /\ kills \in 0..MaxKills
  BY ConstantsAssumption DEF Init, FS
<1>2. pc \in [Threads -> PCs] /\ panic \in Panics
  BY DEF Init, PCs, Panics
<1>3. lfs \in [Threads -> FS] /\ flags \in [Threads -> ReqFlags] /\ nest \in [Threads -> Int]
  BY DEF Init, FS, ReqFlags
<1>4. lOwner \in [Threads -> Threads \union {NoOwner}]
  BY DEF Init
<1>5. TypeOK
  BY <1>1, <1>2, <1>3, <1>4 DEF Init, TypeOK
<1>6. Grant
  BY ConstantsAssumption DEF Init, Grant, MutualExclusion, AutoInitialize, Uninit, Available,
     OwnedHard
<1>7. Ownership
  BY DEF Init, Ownership, OwnerCoherent
<1> QED
  BY <1>5, <1>6, <1>7 DEF IInv

LEMMA Labels ==
    /\ "idle" \in PCs /\ "setOwner" \in PCs /\ "chkHev" \in PCs /\ "create" \in PCs
    /\ "cas" \in PCs /\ "nowait" \in PCs /\ "reset" \in PCs /\ "xchgHard" \in PCs
    /\ "chkOwner" \in PCs /\ "wait" \in PCs /\ "readOwner" \in PCs /\ "verify" \in PCs
    /\ "relXchg" \in PCs /\ "post" \in PCs
BY DEF PCs

LEMMA Values ==
    /\ Uninit \in FS /\ Available \in FS /\ OwnedSimple \in FS /\ OwnedHard \in FS
    /\ "none" \in ReqFlags
    /\ \A why \in {"Recursive mutex!", "Owner died!", "release not owner"} : why \in Panics
BY DEF FS, ReqFlags, Panics

LEMMA GotoTyped ==
    ASSUME NEW t \in Threads, NEW label \in PCs, pc \in [Threads -> PCs], Goto(t, label)
    PROVE  pc' \in [Threads -> PCs]
BY DEF Goto

LEMMA ContendTyped ==
    ASSUME NEW t \in Threads, pc \in [Threads -> PCs], Contend(t)
    PROVE  pc' \in [Threads -> PCs]
BY Labels DEF Goto, Contend

LEMMA OwnTyped ==
    ASSUME NEW t \in Threads, TypeOK, Own(t)
    PROVE  pc' \in [Threads -> PCs] /\ holders' \subseteq Threads
BY Labels, GotoTyped DEF Own, TypeOK

LEMMA SectionInt == Section \in Int
BY DEF Section

LEMMA NestTyped ==
    ASSUME NEW t \in Threads, nest \in [Threads -> Int],
           EnterMustComplete(t) \/ ExitMustComplete(t)
    PROVE  nest' \in [Threads -> Int]
BY SectionInt DEF EnterMustComplete, ExitMustComplete

\* The local variables of the threads.
LocalsTyped ==
    /\ lfs \in [Threads -> FS]
    /\ lOwner \in [Threads -> Threads \union {NoOwner}]
    /\ flags \in [Threads -> ReqFlags]
    /\ timed \subseteq Threads

LEMMA ReturnTyped ==
    ASSUME NEW t \in Threads, TypeOK, Return(t)
    PROVE  pc' \in [Threads -> PCs] /\ LocalsTyped'
<1>1. pc' \in [Threads -> PCs]
  BY Labels, GotoTyped DEF Return, TypeOK
<1>2. lfs' \in [Threads -> FS]
  BY Values DEF Return, TypeOK
<1>3. lOwner' \in [Threads -> Threads \union {NoOwner}]
  BY DEF Return, TypeOK
<1>4. flags' \in [Threads -> ReqFlags]
  BY Values DEF Return, TypeOK
<1>5. timed' \subseteq Threads
  BY DEF Return, TypeOK
<1> QED
  BY <1>1, <1>2, <1>3, <1>4, <1>5 DEF LocalsTyped

LEMMA WaitTyped ==
    ASSUME NEW t \in Threads, TypeOK, EnterWait(t)
    PROVE  pc' \in [Threads -> PCs] /\ nest' \in [Threads -> Int] /\ timed' \subseteq Threads
<1>1. pc' \in [Threads -> PCs]
  BY Labels, GotoTyped DEF EnterWait, TypeOK
<1>2. nest' \in [Threads -> Int]
  BY NestTyped DEF EnterWait, TypeOK
<1> QED
  BY <1>1, <1>2 DEF EnterWait, TypeOK

LEMMA DeadlockTyped ==
    ASSUME NEW t \in Threads, TypeOK, NEW why \in {"Recursive mutex!", "Owner died!"},
           Deadlock(t, why)
    PROVE  TypeOK'
<1>1. pc' \in [Threads -> PCs] /\ LocalsTyped'
  BY ReturnTyped DEF Deadlock
<1>2. nest' \in [Threads -> Int]
  BY NestTyped DEF Deadlock, TypeOK
<1>3. panic' \in Panics
  BY Values DEF Deadlock, TypeOK
<1> QED
  BY <1>1, <1>2, <1>3 DEF Deadlock, TypeOK, LocalsTyped, shared

LEMMA NextTypeOK == TypeOK /\ [Next]_vars => TypeOK'
<1> SUFFICES ASSUME TypeOK, [Next]_vars PROVE TypeOK'
  OBVIOUS
<1> USE DEF shared, env
<1>1. ASSUME NEW t \in Threads, NEW f \in ReqFlags, RequestXchg(t, f) PROVE TypeOK'
  <2>1. pc' \in [Threads -> PCs] /\ holders' \subseteq Threads
    BY <1>1, OwnTyped, Labels, GotoTyped DEF RequestXchg, TypeOK
  <2>2. nest' \in [Threads -> Int]
    BY <1>1, NestTyped DEF RequestXchg, TypeOK
  <2>3. lfs' \in [Threads -> FS] /\ flags' \in [Threads -> ReqFlags]
    BY <1>1, Values DEF RequestXchg, TypeOK
  <2> QED
    BY <1>1, <2>1, <2>2, <2>3, Values DEF RequestXchg, TypeOK
<1>2. ASSUME NEW t \in Threads, SetOwner(t) PROVE TypeOK'
  BY <1>2, ReturnTyped DEF SetOwner, TypeOK, LocalsTyped
<1>3. ASSUME NEW t \in Threads, ChkHev(t) PROVE TypeOK'
  <2>1. pc' \in [Threads -> PCs] /\ LocalsTyped'
    BY <1>3, ReturnTyped, Labels, GotoTyped, ContendTyped DEF ChkHev, TypeOK, LocalsTyped
  <2>2. nest' \in [Threads -> Int]
    BY <1>3, NestTyped DEF ChkHev, TypeOK
  <2> QED
    BY <1>3, <2>1, <2>2 DEF ChkHev, TypeOK, LocalsTyped
<1>4. ASSUME NEW t \in Threads, CreateHev(t) PROVE TypeOK'
  BY <1>4, Labels, GotoTyped DEF CreateHev, TypeOK
<1>5. ASSUME NEW t \in Threads, CreateHevFails(t) PROVE TypeOK'
  <2>1. pc' \in [Threads -> PCs] /\ LocalsTyped'
    BY <1>5, ReturnTyped DEF CreateHevFails
  <2>2. nest' \in [Threads -> Int]
    BY <1>5, NestTyped DEF CreateHevFails, TypeOK
  <2> QED
    BY <1>5, <2>1, <2>2 DEF CreateHevFails, TypeOK, LocalsTyped
<1>6. ASSUME NEW t \in Threads, CasHev(t) PROVE TypeOK'
  <2>1. pc' \in [Threads -> PCs] /\ holders' \subseteq Threads
    BY <1>6, OwnTyped, ContendTyped DEF CasHev, TypeOK
  <2>2. lfs' \in [Threads -> FS]
    BY <1>6, Values DEF CasHev, TypeOK
  <2> QED
    BY <1>6, <2>1, <2>2 DEF CasHev, TypeOK
<1>7. ASSUME NEW t \in Threads, NoWait(t) PROVE TypeOK'
  <2>1. pc' \in [Threads -> PCs] /\ LocalsTyped' /\ holders' \subseteq Threads
    BY <1>7, ReturnTyped, OwnTyped DEF NoWait, TypeOK, LocalsTyped
  <2>2. nest' \in [Threads -> Int]
    BY <1>7, NestTyped DEF NoWait, TypeOK
  <2> QED
    BY <1>7, <2>1, <2>2, Values DEF NoWait, TypeOK, LocalsTyped
<1>8. ASSUME NEW t \in Threads, Reset(t) PROVE TypeOK'
  BY <1>8, Labels, GotoTyped DEF Reset, TypeOK
<1>9. ASSUME NEW t \in Threads, XchgHard(t) PROVE TypeOK'
  <2>1. pc' \in [Threads -> PCs] /\ holders' \subseteq Threads
    BY <1>9, OwnTyped, Labels, GotoTyped DEF XchgHard, TypeOK
  <2> QED
    BY <1>9, <2>1, Values DEF XchgHard, TypeOK
<1>10. ASSUME NEW t \in Threads, ChkOwner(t) \/ Verify(t) PROVE TypeOK'
  <2>1. CASE Deadlock(t, "Recursive mutex!") \/ Deadlock(t, "Owner died!")
    BY <2>1, DeadlockTyped
  <2>2. CASE EnterWait(t) /\ UNCHANGED <<shared, holders, lfs, lOwner, flags, env>>
    BY <2>2, WaitTyped DEF TypeOK
  <2> QED
    BY <1>10, <2>1, <2>2 DEF ChkOwner, Verify
<1>11. ASSUME NEW t \in Threads, WaitPosted(t) \/ WaitTimeout(t) PROVE TypeOK'
  <2>1. pc' \in [Threads -> PCs] /\ nest' \in [Threads -> Int]
    BY <1>11, Labels, GotoTyped, NestTyped DEF WaitPosted, WaitTimeout, TypeOK
  <2> QED
    BY <1>11, <2>1 DEF WaitPosted, WaitTimeout, TypeOK
<1>12. ASSUME NEW t \in Threads, WaitInterrupt(t) PROVE TypeOK'
  <2>1. pc' \in [Threads -> PCs] /\ LocalsTyped'
    BY <1>12, ReturnTyped, Labels, GotoTyped DEF WaitInterrupt, TypeOK, LocalsTyped
  <2>2. nest' \in [Threads -> Int]
    BY <1>12, NestTyped DEF WaitInterrupt, TypeOK
  <2> QED
    BY <1>12, <2>1, <2>2 DEF WaitInterrupt, TypeOK, LocalsTyped
<1>13. ASSUME NEW t \in Threads, ReadOwner(t) PROVE TypeOK'
  <2>1. pc' \in [Threads -> PCs]
    BY <1>13, Labels, GotoTyped DEF ReadOwner, TypeOK
  <2>2. lOwner' \in [Threads -> Threads \union {NoOwner}]
    BY <1>13 DEF ReadOwner, TypeOK
  <2> QED
    BY <1>13, <2>1, <2>2 DEF ReadOwner, TypeOK
<1>14. ASSUME NEW t \in Threads, Release(t) PROVE TypeOK'
  <2>1. pc' \in [Threads -> PCs]
    BY <1>14, Labels, GotoTyped DEF Release, TypeOK
  <2> QED
    BY <1>14, <2>1, Values DEF Release, TypeOK
<1>15. ASSUME NEW t \in Threads, RelXchg(t) PROVE TypeOK'
  <2>1. pc' \in [Threads -> PCs] /\ LocalsTyped'
    BY <1>15, ReturnTyped, Labels, GotoTyped DEF RelXchg, TypeOK, LocalsTyped
  <2>2. nest' \in [Threads -> Int]
    BY <1>15, NestTyped DEF RelXchg, TypeOK
  <2> QED
    BY <1>15, <2>1, <2>2, Values DEF RelXchg, TypeOK, LocalsTyped
<1>16. ASSUME NEW t \in Threads, Post(t) PROVE TypeOK'
  <2>1. pc' \in [Threads -> PCs]
    BY <1>16, Labels DEF Post, TypeOK
  <2>2. nest' \in [Threads -> Int]
    <3>1. \A u \in Threads : nest[u] - Section \in Int /\ nest[u] + Section \in Int /\ nest[u] \in Int
      BY SectionInt DEF TypeOK
    <3> QED
      BY <1>16, <3>1 DEF Post
  <2> QED
    BY <1>16, <2>1, <2>2 DEF Post, TypeOK
<1>17. ASSUME NEW t \in Threads, ReleaseFork(t) PROVE TypeOK'
  <2>1. nest' \in [Threads -> Int]
    BY <1>17 DEF ReleaseFork
  <2> QED
    BY <1>17, <2>1, Values DEF ReleaseFork, TypeOK
<1>18. ASSUME NEW t \in Threads, ThreadEnd(t) PROVE TypeOK'
  BY <1>18 DEF ThreadEnd, TypeOK
<1>19. ASSUME NEW t \in Threads, Kill(t) PROVE TypeOK'
  <2>1. kills' \in 0..MaxKills
    BY <1>19, ConstantsAssumption DEF Kill, TypeOK
  <2> QED
    BY <1>19, <2>1 DEF Kill, TypeOK
<1>20. ASSUME NEW t \in Threads, ThreadStart(t) PROVE TypeOK'
  <2>1. pc' \in [Threads -> PCs] /\ LocalsTyped'
    BY <1>20, ReturnTyped DEF ThreadStart
  <2>2. nest' \in [Threads -> Int]
    BY <1>20 DEF ThreadStart, TypeOK
  <2> QED
    BY <1>20, <2>1, <2>2 DEF ThreadStart, TypeOK, LocalsTyped
<1>21. CASE StartExit
  BY <1>21 DEF StartExit, TypeOK
<1>22. CASE UNCHANGED vars
  BY <1>22 DEF vars, TypeOK
<1> QED
  BY <1>1, <1>2, <1>3, <1>4, <1>5, <1>6, <1>7, <1>8, <1>9, <1>10, <1>11, <1>12, <1>13, <1>14,
     <1>15, <1>16, <1>17, <1>18, <1>19, <1>20, <1>21, <1>22, Zenon
     DEF Next, ThreadNext, Step, Panicked, RequestUninit

\* Labels between the exchange that gives the mutex and the store of Owner, and
\* between the store of Owner and the exchange that gives the mutex away.
Handover == {"setOwner", "relXchg"}

\* Labels a thread may have before the mutex has its event semaphore.
Early == {"idle", "chkHev", "create", "cas"}

\* A step that leaves fs, hev, Owner and holders alone.
LEMMA QuietStep ==
    ASSUME IInv, UNCHANGED <<fs, hev, Owner, holders>>, panic' # "release not owner",
           \A u \in Threads : pc'[u] \in Handover <=> pc[u] \in Handover,
           \A u \in Threads : pc[u] = "idle" => pc'[u] = "idle",
           \A u \in Threads : hev = 0 => pc'[u] \in Early
    PROVE  Grant' /\ Ownership'
<1>1. Grant'
  <2>1. (fs \in {AutoInitialize, Uninit} => hev = 0 /\ \A t \in Threads : pc[t] = "idle")'
    BY DEF IInv, Grant
  <2>2. (hev = 0 => \A t \in Threads : pc[t] \in {"idle", "chkHev", "create", "cas"})'
    BY DEF Early
  <2>3. (\A t \in Threads : pc[t] \in {"setOwner", "relXchg"} => t \in holders)'
    BY DEF IInv, Grant, Handover
  <2> QED
    BY <2>1, <2>2, <2>3 DEF IInv, Grant, MutualExclusion
<1>2. Ownership'
  BY DEF IInv, TypeOK, Ownership, OwnerCoherent, Handover
<1> QED
  BY <1>1, <1>2

\* A step that moves one thread, between labels outside Handover.
LEMMA QuietGoto ==
    ASSUME IInv, UNCHANGED <<fs, hev, Owner, holders>>, panic' # "release not owner",
           NEW t \in Threads, pc[t] \notin Handover, pc[t] # "idle",
           NEW label, label \notin Handover, hev = 0 => label \in Early,
           pc' = [pc EXCEPT ![t] = label]
    PROVE  Grant' /\ Ownership'
<1>1. \A u \in Threads : pc'[u] = IF u = t THEN label ELSE pc[u]
  BY DEF IInv, TypeOK
<1>2. \A u \in Threads : hev = 0 => pc[u] \in Early
  BY DEF IInv, Grant, TypeOK, Early
<1> QED
  BY <1>1, <1>2, QuietStep

\* A step that gives the mutex to t.
LEMMA OwnStep ==
    ASSUME IInv, NEW t \in Threads, Own(t), holders = {}, fs' \in {OwnedSimple, OwnedHard},
           hev' = 1, Owner' = Owner, panic' = panic
    PROVE  Grant' /\ Ownership'
<1>1. Owner = NoOwner /\ holders' = {t} /\ pc'[t] = "setOwner"
  BY DEF IInv, TypeOK, Ownership, OwnerCoherent, Own, Goto
<1>2. \A u \in Threads : pc'[u] \in {"setOwner", "relXchg"} => u = t
  BY DEF IInv, TypeOK, Grant, Own, Goto
<1>3. Grant'
  BY <1>1, <1>2 DEF Grant, MutualExclusion, AutoInitialize, Uninit, Available, OwnedSimple, OwnedHard
<1>4. Ownership'
  BY <1>1 DEF IInv, Ownership, OwnerCoherent
<1> QED
  BY <1>3, <1>4

\* A step that marks an owned mutex as contended.
LEMMA HardStep ==
    ASSUME IInv, UNCHANGED <<hev, Owner, holders, panic>>, fs # Available, fs' = OwnedHard,
           hev = 1,
           NEW t \in Threads, pc[t] \notin Handover,
           NEW label, label \notin Handover,
           pc' = [pc EXCEPT ![t] = label]
    PROVE  Grant' /\ Ownership'
<1>1. \A u \in Threads : pc'[u] \in Handover <=> pc[u] \in Handover
  BY DEF IInv, TypeOK
<1>2. Grant'
  BY <1>1 DEF IInv, Grant, MutualExclusion, Handover, AutoInitialize, Uninit, Available, OwnedHard
<1>3. Ownership'
  BY <1>1 DEF IInv, TypeOK, Ownership, OwnerCoherent, Handover
<1> QED
  BY <1>2, <1>3

LEMMA NextGrant == IInv /\ [Next]_vars => Grant' /\ Ownership'
<1> SUFFICES ASSUME IInv, [Next]_vars PROVE Grant' /\ Ownership'
  OBVIOUS
<1> USE DEF shared, env
<1>0. /\ panic # "release not owner" /\ pc \in [Threads -> PCs]
      /\ hev \in {0, 1} /\ \A u \in Threads : hev = 0 => pc[u] \in Early
  BY DEF IInv, Grant, Ownership, OwnerCoherent, TypeOK, Early
<1>1. ASSUME NEW t \in Threads, NEW f \in ReqFlags, RequestXchg(t, f) PROVE Grant' /\ Ownership'
  <2>1. CASE fs = Available
    <3>1. hev = 1 /\ holders = {}
      BY <2>1 DEF IInv, Grant, TypeOK
    <3> QED
      BY <1>1, <2>1, <3>1, OwnStep DEF RequestXchg
  <2>2. CASE fs # Available
    <3>1. \A u \in Threads : pc'[u] \in Handover <=> pc[u] \in Handover
      BY <1>0, <1>1, <2>2 DEF RequestXchg, At, Goto, Handover, Early
    <3>2. \A u \in Threads : hev = 0 => pc'[u] \in Early
      BY <1>0, <1>1, <2>2 DEF RequestXchg, At, Goto, Early
    <3>4. (\A u \in Threads : pc[u] \in {"setOwner", "relXchg"} => u \in holders)'
      BY <1>1, <2>2, <3>1 DEF RequestXchg, IInv, Grant, Handover
    <3>5. fs' = OwnedSimple /\ UNCHANGED <<hev, holders>>
      BY <1>1, <2>2 DEF RequestXchg
    <3>6. MutualExclusion' /\ (hev' = 0 => holders' = {})
      BY <3>5 DEF IInv, Grant, MutualExclusion
    <3>7. fs' \notin {AutoInitialize, Uninit, Available, OwnedHard}
      BY <3>5 DEF AutoInitialize, Uninit, Available, OwnedSimple, OwnedHard
    <3>8. Grant'
      BY <3>2, <3>4, <3>5, <3>6, <3>7 DEF Grant, Early
    <3>9. Ownership'
      BY <1>1, <2>2, <3>1 DEF RequestXchg, IInv, TypeOK, Ownership, OwnerCoherent, Handover, Early
    <3> QED
      BY <3>8, <3>9
  <2> QED
    BY <2>1, <2>2
<1>2. ASSUME NEW t \in Threads, SetOwner(t) PROVE Grant' /\ Ownership'
  <2>1. holders = {t} /\ pc[t] = "setOwner" /\ pc' = [pc EXCEPT ![t] = "idle"]
    BY <1>2 DEF SetOwner, Return, Goto, At, IInv, TypeOK, Grant, MutualExclusion
  <2>2. Grant'
    BY <1>0, <1>2, <2>1 DEF SetOwner, IInv, Grant, MutualExclusion
  <2>3. Ownership'
    BY <1>0, <1>2, <2>1, ConstantsAssumption DEF SetOwner, Ownership, OwnerCoherent
  <2> QED
    BY <2>2, <2>3
<1>3. ASSUME NEW t \in Threads, ChkHev(t) PROVE Grant' /\ Ownership'
  BY <1>0, <1>3, QuietGoto DEF IInv, TypeOK, ChkHev, Return, Contend, Goto, At, Handover, Early
<1>4. ASSUME NEW t \in Threads, CreateHev(t) \/ CreateHevFails(t) PROVE Grant' /\ Ownership'
  BY <1>0, <1>4, QuietGoto DEF CreateHev, CreateHevFails, Return, Goto, At, Handover, Early
<1>5. ASSUME NEW t \in Threads, CasHev(t) PROVE Grant' /\ Ownership'
  <2>1. CASE hev = 0
    <3>1. holders = {} /\ fs' \in {OwnedSimple, OwnedHard}
      BY <1>5, <2>1 DEF CasHev, At, IInv, Grant, TypeOK, FS
    <3> QED
      BY <1>5, <2>1, <3>1, OwnStep DEF CasHev
  <2>2. CASE hev # 0
    BY <1>0, <1>5, <2>2, QuietGoto DEF IInv, TypeOK, CasHev, Contend, Goto, At, Handover, Early
  <2> QED
    BY <2>1, <2>2
<1>6. ASSUME NEW t \in Threads, NoWait(t) PROVE Grant' /\ Ownership'
  <2>1. CASE lfs[t] = OwnedHard /\ fs = Available
    <3>1. hev = 1 /\ holders = {}
      BY <2>1 DEF IInv, Grant, TypeOK
    <3> QED
      BY <1>6, <2>1, <3>1, OwnStep DEF NoWait
  <2>2. CASE ~(lfs[t] = OwnedHard /\ fs = Available)
    <3>1. CASE fs' = fs
      BY <1>0, <1>6, <2>2, <3>1, QuietGoto DEF NoWait, Return, Goto, At, Handover, Early
    <3>2. CASE fs' # fs
      BY <1>0, <1>6, <2>2, <3>2, HardStep DEF NoWait, Return, Goto, At, Handover, Early
    <3> QED
      BY <3>1, <3>2
  <2> QED
    BY <2>1, <2>2
<1>7. ASSUME NEW t \in Threads, Reset(t) PROVE Grant' /\ Ownership'
  BY <1>0, <1>7, QuietGoto DEF Reset, Goto, At, Handover, Early
<1>8. ASSUME NEW t \in Threads, XchgHard(t) PROVE Grant' /\ Ownership'
  <2>1. CASE fs = Available
    <3>1. hev = 1 /\ holders = {}
      BY <2>1 DEF IInv, Grant, TypeOK
    <3> QED
      BY <1>8, <2>1, <3>1, OwnStep DEF XchgHard
  <2>2. CASE fs # Available
    BY <1>0, <1>8, <2>2, HardStep DEF XchgHard, Goto, At, Handover, Early
  <2> QED
    BY <2>1, <2>2
<1>9. ASSUME NEW t \in Threads, ChkOwner(t) \/ Verify(t) PROVE Grant' /\ Ownership'
  BY <1>0, <1>9, QuietGoto DEF ChkOwner, Verify, Deadlock, EnterWait, Return, Goto, At, Handover, Early
<1>10. ASSUME NEW t \in Threads, WaitPosted(t) \/ WaitTimeout(t) \/ WaitInterrupt(t)
       PROVE  Grant' /\ Ownership'
  BY <1>0, <1>10, QuietGoto DEF WaitPosted, WaitTimeout, WaitInterrupt, Return, Goto, At, Handover, Early
<1>11. ASSUME NEW t \in Threads, ReadOwner(t) PROVE Grant' /\ Ownership'
  BY <1>0, <1>11, QuietGoto DEF ReadOwner, Goto, At, Handover, Early
<1>12. ASSUME NEW t \in Threads, Release(t) PROVE Grant' /\ Ownership'
  <2>1. holders = {t} /\ Owner = t
    BY <1>12 DEF Release, At, IInv, Grant, MutualExclusion, Ownership, OwnerCoherent
  <2>2. pc' = [pc EXCEPT ![t] = "relXchg"] /\ Owner' = NoOwner /\ holders' = {t}
    BY <1>12, <2>1 DEF Release, Goto
  <2>3. Grant'
    BY <1>0, <1>12, <2>1, <2>2 DEF Release, IInv, Grant, MutualExclusion
  <2>4. Ownership'
    BY <1>0, <1>12, <2>1, <2>2 DEF Release, Ownership, OwnerCoherent
  <2> QED
    BY <2>3, <2>4
<1>13. ASSUME NEW t \in Threads, RelXchg(t) PROVE Grant' /\ Ownership'
  <2>1. holders = {t} /\ Owner = NoOwner /\ hev = 1
    BY <1>13 DEF RelXchg, At, IInv, TypeOK, Grant, MutualExclusion, Ownership
  <2>2. holders' = {} /\ fs' = Available /\ hev' = 1 /\ Owner' = NoOwner /\ panic' = panic
    BY <1>13, <2>1 DEF RelXchg
  <2>3. \A u \in Threads : pc'[u] \notin {"setOwner", "relXchg"}
    BY <1>0, <1>13, <2>1 DEF RelXchg, Return, Goto, IInv, Grant
  <2>4. Grant'
    BY <2>2, <2>3 DEF Grant, MutualExclusion, AutoInitialize, Uninit, Available, OwnedHard
  <2>5. Ownership'
    BY <1>0, <2>2 DEF Ownership, OwnerCoherent
  <2> QED
    BY <2>4, <2>5
<1>14. ASSUME NEW t \in Threads, Post(t) PROVE Grant' /\ Ownership'
  <2>0. hev = 1
    BY <1>0, <1>14 DEF Post, At, IInv, TypeOK, Grant
  <2>1. \A u \in Threads : pc'[u] \in Handover <=> pc[u] \in Handover
    BY <1>14 DEF Post, At, Handover, Early
  <2>2. \A u \in Threads : pc[u] = "idle" => pc'[u] = "idle"
    BY <1>14 DEF Post, At
  <2>3. hev # 0
    BY <2>0
  <2>4. UNCHANGED <<fs, hev, Owner, holders, panic>>
    BY <1>14 DEF Post
  <2> QED
    BY <1>0, <2>1, <2>2, <2>3, <2>4, QuietStep
<1>15. ASSUME NEW t \in Threads, ReleaseFork(t) PROVE Grant' /\ Ownership'
  <2>1. holders = {t} /\ hev = 1 /\ pc[t] = "idle"
    BY <1>15 DEF ReleaseFork, At, IInv, TypeOK, Grant, MutualExclusion
  <2>2. holders' = {} /\ fs' = Available /\ hev' = 1 /\ Owner' = NoOwner /\ UNCHANGED <<pc, panic>>
    BY <1>15, <2>1 DEF ReleaseFork
  <2>3. \A u \in Threads : pc[u] \notin {"setOwner", "relXchg"}
    BY <2>1 DEF IInv, Grant
  <2>4. Grant'
    BY <2>2, <2>3 DEF Grant, MutualExclusion, AutoInitialize, Uninit, Available, OwnedHard
  <2>5. Ownership'
    BY <1>0, <2>2 DEF Ownership, OwnerCoherent
  <2> QED
    BY <2>4, <2>5
<1>16. ASSUME NEW t \in Threads, ThreadEnd(t) \/ Kill(t) PROVE Grant' /\ Ownership'
  BY <1>0, <1>16, QuietStep DEF ThreadEnd, Kill
<1>17. ASSUME NEW t \in Threads, ThreadStart(t) PROVE Grant' /\ Ownership'
  <2>1. pc[t] \notin Handover
    BY <1>17 DEF ThreadStart, IInv, Grant, Handover, Early
  <2>2. \A u \in Threads : pc'[u] = IF u = t THEN "idle" ELSE pc[u]
    BY <1>0, <1>17 DEF ThreadStart, Return, Goto
  <2> QED
    BY <1>0, <1>17, <2>1, <2>2, QuietStep DEF ThreadStart, Handover, Early
<1>18. CASE StartExit
  BY <1>0, <1>18, QuietStep DEF StartExit
<1>19. CASE UNCHANGED vars
  BY <1>0, <1>19, QuietStep DEF vars
<1> QED
  BY <1>1, <1>2, <1>3, <1>4, <1>5, <1>6, <1>7, <1>8, <1>9, <1>10, <1>11, <1>12, <1>13, <1>14,
     <1>15, <1>16, <1>17, <1>18, <1>19, Zenon
     DEF Next, ThreadNext, Step, Panicked, RequestUninit

LEMMA SpecIInv == Spec => []IInv
<1>1. IInv /\ [Next]_vars => IInv'
  BY NextTypeOK, NextGrant DEF IInv
<1> QED
  BY <1>1, InitIInv, PTL DEF Spec

\* The type invariant of the fast mutex holds in every reachable state (fmutex.h, fmutex.c).
THEOREM TypeCorrect == Spec => []TypeOK
<1>1. IInv => TypeOK
  BY DEF IInv
<1> QED
  BY <1>1, SpecIInv, PTL

\* At most one thread owns the mutex, for any number of threads, killed threads, initial states
\* and create flags (_fmutex_request, __fmutex_request_internal, _fmutex_release).
THEOREM MutualExclusionHolds == Spec => []MutualExclusion
<1>1. IInv => MutualExclusion
  BY DEF IInv, Grant
<1> QED
  BY <1>1, SpecIInv, PTL

\* Owner names the thread that owns the mutex or nobody, and a checked release by the owner is
\* never refused (_fmutex_checked_release, the recursion test of __fmutex_request_internal).
THEOREM OwnerCoherentHolds == Spec => []OwnerCoherent
<1>1. IInv => OwnerCoherent
  BY DEF IInv, Ownership
<1> QED
  BY <1>1, SpecIInv, PTL

\* The fast mutex implements the abstract mutex: every step acquires a free mutex, releases an
\* owned one or changes nothing a caller can see.
THEOREM Refinement == Spec => RefinesMutex
<1>1. Init => AbstractMutex!Init
  BY DEF Init, AbstractMutex!Init
<1>2. IInv /\ [Next]_vars => [AbstractMutex!Next]_holders
  <2> SUFFICES ASSUME IInv, [Next]_vars PROVE [AbstractMutex!Next]_holders
    OBVIOUS
  <2> USE DEF AbstractMutex!Next, AbstractMutex!Acquire, AbstractMutex!Release
  <2>0. /\ fs = Available => holders = {}
        /\ hev = 0 => holders = {}
        /\ \A t \in Threads : t \in holders => holders = {t}
        /\ \A t \in Threads : pc[t] = "relXchg" => t \in holders
    BY DEF IInv, TypeOK, Grant, MutualExclusion
  <2>1. ASSUME NEW t \in Threads, NEW f \in ReqFlags, RequestXchg(t, f)
        PROVE  [AbstractMutex!Next]_holders
    BY <2>0, <2>1 DEF RequestXchg, Own
  <2>2. ASSUME NEW t \in Threads, CasHev(t) PROVE [AbstractMutex!Next]_holders
    BY <2>0, <2>2 DEF CasHev, Own
  <2>3. ASSUME NEW t \in Threads, NoWait(t) PROVE [AbstractMutex!Next]_holders
    BY <2>0, <2>3 DEF NoWait, Own
  <2>4. ASSUME NEW t \in Threads, XchgHard(t) PROVE [AbstractMutex!Next]_holders
    BY <2>0, <2>4 DEF XchgHard, Own
  <2>5. ASSUME NEW t \in Threads, RelXchg(t) PROVE [AbstractMutex!Next]_holders
    BY <2>0, <2>5 DEF RelXchg, At
  <2>6. ASSUME NEW t \in Threads, ReleaseFork(t) PROVE [AbstractMutex!Next]_holders
    BY <2>0, <2>6 DEF ReleaseFork
  <2>7. ASSUME NEW t \in Threads,
               \/ RequestUninit(t) \/ SetOwner(t) \/ ChkHev(t) \/ CreateHev(t)
               \/ CreateHevFails(t) \/ Reset(t) \/ ChkOwner(t) \/ WaitPosted(t)
               \/ WaitTimeout(t) \/ ReadOwner(t) \/ Verify(t) \/ Post(t) \/ WaitInterrupt(t)
               \/ Release(t) \/ ThreadEnd(t) \/ Kill(t) \/ ThreadStart(t)
        PROVE  holders' = holders
    BY <2>7 DEF RequestUninit, SetOwner, ChkHev, CreateHev, CreateHevFails, Reset, ChkOwner,
       WaitPosted, WaitTimeout, ReadOwner, Verify, Post, WaitInterrupt, Release, ThreadEnd,
       Kill, ThreadStart, Deadlock, vars
  <2>8. CASE StartExit \/ UNCHANGED vars
    BY <2>8 DEF StartExit, vars
  <2> QED
    BY <2>1, <2>2, <2>3, <2>4, <2>5, <2>6, <2>7, <2>8, Zenon DEF Next, ThreadNext, Step, Panicked
<1> QED
  BY <1>1, <1>2, SpecIInv, PTL DEF Spec, RefinesMutex, AbstractMutex!Spec

-----------------------------------------------------------------------------
(* Must-complete sections.                                                  *)

\* The labels at which the request or the release has a section of its own, besides
\* the one an owner has.
Inside == PCs \ {"idle", "wait", "setOwner", "relXchg"}

Depth(t) == (IF t \in holders THEN 1 ELSE 0) + (IF pc[t] \in Inside THEN 1 ELSE 0)

Balance == MustComplete => \A t \in alive : nest[t] = Depth(t)

\* A step that moves one thread.
LEMMA BalanceStep ==
    ASSUME TypeOK, Balance, NEW t \in Threads, alive' \subseteq alive,
           \A u \in Threads \ {t} :
               pc'[u] = pc[u] /\ nest'[u] = nest[u] /\ (u \in holders' <=> u \in holders),
           MustComplete /\ nest[t] = Depth(t) => nest'[t] = Depth(t)'
    PROVE  Balance'
<1> SUFFICES ASSUME MustComplete, NEW u \in alive' PROVE nest'[u] = Depth(u)'
  BY DEF Balance
<1>1. u \in alive /\ u \in Threads /\ nest[u] = Depth(u)
  BY DEF Balance, TypeOK
<1>2. CASE u = t
  BY <1>1, <1>2
<1>3. CASE u # t
  BY <1>1, <1>3 DEF Depth
<1> QED
  BY <1>2, <1>3

LEMMA NextBalance == IInv /\ Balance /\ [Next]_vars => Balance'
<1> SUFFICES ASSUME IInv, Balance, [Next]_vars PROVE Balance'
  OBVIOUS
<1> USE DEF shared, env
<1>0. /\ TypeOK /\ pc \in [Threads -> PCs] /\ nest \in [Threads -> Int]
      /\ fs = Available => holders = {}
      /\ hev = 0 => holders = {}
      /\ \A t \in Threads : pc[t] \in {"setOwner", "relXchg"} => t \in holders
      /\ MustComplete => Section = 1
  BY DEF IInv, TypeOK, Grant, Section
<1>1. ASSUME NEW t \in Threads, NEW f \in ReqFlags, RequestXchg(t, f) PROVE Balance'
  BY <1>0, <1>1, BalanceStep
  DEF RequestXchg, At, Own, Goto, EnterMustComplete, Depth, Inside, PCs
<1>2. ASSUME NEW t \in Threads, SetOwner(t) PROVE Balance'
  BY <1>0, <1>2, BalanceStep DEF SetOwner, Return, At, Goto, Depth, Inside, PCs
<1>3. ASSUME NEW t \in Threads, ChkHev(t) PROVE Balance'
  BY <1>0, <1>3, BalanceStep
  DEF ChkHev, Return, Contend, At, Goto, ExitMustComplete, Depth, Inside, PCs
<1>4. ASSUME NEW t \in Threads, CreateHev(t) \/ CreateHevFails(t) PROVE Balance'
  BY <1>0, <1>4, BalanceStep
  DEF CreateHev, CreateHevFails, Return, At, Goto, ExitMustComplete, Depth, Inside, PCs
<1>5. ASSUME NEW t \in Threads, CasHev(t) PROVE Balance'
  BY <1>0, <1>5, BalanceStep DEF CasHev, Own, Contend, At, Goto, Depth, Inside, PCs
<1>6. ASSUME NEW t \in Threads, NoWait(t) PROVE Balance'
  BY <1>0, <1>6, BalanceStep
  DEF NoWait, Own, Return, At, Goto, ExitMustComplete, Depth, Inside, PCs
<1>7. ASSUME NEW t \in Threads, Reset(t) \/ ReadOwner(t) PROVE Balance'
  BY <1>0, <1>7, BalanceStep DEF Reset, ReadOwner, At, Goto, Depth, Inside, PCs
<1>8. ASSUME NEW t \in Threads, XchgHard(t) PROVE Balance'
  BY <1>0, <1>8, BalanceStep DEF XchgHard, Own, At, Goto, Depth, Inside, PCs
<1>9. ASSUME NEW t \in Threads, ChkOwner(t) \/ Verify(t) PROVE Balance'
  <2>1. /\ pc[t] \in {"chkOwner", "verify"} /\ alive' = alive /\ holders' = holders
        /\ pc' = [pc EXCEPT ![t] = "idle"] \/ pc' = [pc EXCEPT ![t] = "wait"]
        /\ nest' = [nest EXCEPT ![t] = @ - Section]
    BY <1>9 DEF ChkOwner, Verify, Deadlock, EnterWait, Return, At, Goto, ExitMustComplete
  <2>2. MustComplete /\ nest[t] = Depth(t) => nest'[t] = Depth(t)'
    BY <1>0, <2>1 DEF Depth, Inside, PCs
  <2> QED
    BY <1>0, <2>1, <2>2, BalanceStep
<1>10. ASSUME NEW t \in Threads, WaitPosted(t) \/ WaitTimeout(t) \/ WaitInterrupt(t)
       PROVE  Balance'
  BY <1>0, <1>10, BalanceStep
  DEF WaitPosted, WaitTimeout, WaitInterrupt, Return, At, Goto, EnterMustComplete, Depth,
      Inside, PCs
<1>11. ASSUME NEW t \in Threads, Release(t) PROVE Balance'
  BY <1>0, <1>11, BalanceStep DEF Release, At, Goto, Depth, Inside, PCs
<1>12. ASSUME NEW t \in Threads, RelXchg(t) PROVE Balance'
  BY <1>0, <1>12, BalanceStep
  DEF RelXchg, Return, At, Goto, ExitMustComplete, Depth, Inside, PCs
<1>13. ASSUME NEW t \in Threads, Post(t) PROVE Balance'
  <2> SUFFICES ASSUME MustComplete, NEW u \in alive PROVE nest'[u] = Depth(u)'
    BY <1>13 DEF Balance, Post
  <2>1. u \in Threads /\ nest[u] = Depth(u) /\ nest[u] \in Int /\ Section = 1 /\ holders' = holders
    BY <1>0, <1>13 DEF Balance, TypeOK, Post
  <2> QED
    BY <1>0, <1>13, <2>1 DEF Post, At, Depth, Inside, PCs
<1>14. ASSUME NEW t \in Threads, ReleaseFork(t) PROVE Balance'
  BY <1>0, <1>14 DEF ReleaseFork, At, Balance, Depth, Inside
<1>15. ASSUME NEW t \in Threads, ThreadEnd(t) \/ Kill(t) PROVE Balance'
  BY <1>0, <1>15, BalanceStep DEF ThreadEnd, Kill, Depth
<1>16. ASSUME NEW t \in Threads, ThreadStart(t) PROVE Balance'
  <2> SUFFICES ASSUME MustComplete, NEW u \in alive' PROVE nest'[u] = Depth(u)'
    BY DEF Balance
  <2>1. CASE u = t
    BY <1>0, <1>16, <2>1 DEF ThreadStart, Return, Goto, Depth, Inside
  <2>2. CASE u # t
    <3>1. u \in alive /\ u \in Threads
      BY <1>0, <1>16, <2>2 DEF ThreadStart, TypeOK
    <3> QED
      BY <1>0, <1>16, <2>2, <3>1 DEF ThreadStart, Return, Goto, Balance, Depth
  <2> QED
    BY <2>1, <2>2
<1>17. CASE StartExit \/ UNCHANGED vars
  BY <1>17 DEF StartExit, vars, Balance, Depth
<1> QED
  BY <1>1, <1>2, <1>3, <1>4, <1>5, <1>6, <1>7, <1>8, <1>9, <1>10, <1>11, <1>12, <1>13, <1>14,
     <1>15, <1>16, <1>17, Zenon
     DEF Next, ThreadNext, Step, Panicked, RequestUninit

LEMMA SpecBalance == Spec => []Balance
<1>1. Init => Balance
  BY DEF Init, Balance, Depth, Inside
<1> QED
  BY <1>1, SpecIInv, NextBalance, PTL DEF Spec

\* The must-complete sections balance on every path through the request and the release
\* (fmutex.c:200-355), whoever is killed, forks or times out in the meantime.
THEOREM MustCompleteBalancedHolds == Spec => []MustCompleteBalanced
<1>1. TypeOK /\ Balance => MustCompleteBalanced
  BY DEF TypeOK, Balance, MustCompleteBalanced, Depth, Inside
<1> QED
  BY <1>1, SpecBalance, TypeCorrect, PTL

-----------------------------------------------------------------------------
(* Wake-ups.                                                                *)

\* A thread whose fast path overwrote _FMS_OWNED_HARD does not go to create an event
\* semaphore: there is one.
HardHasEvent == \A t \in Threads : pc[t] = "chkHev" /\ lfs[t] = OwnedHard => hev = 1

WInv == IInv /\ Balance /\ HardHasEvent /\ NoLostWakeup

\* A step after which somebody is to wake the waiters.
LEMMA WakerStep ==
    ASSUME fs' = OwnedHard \/ posted' = TRUE \/ \E u \in Threads : WillWake(u)'
    PROVE  NoLostWakeup'
BY DEF NoLostWakeup

\* A step that makes nobody wait, and after which whoever was to wake the waiters still is.
LEMMA SameWakers ==
    ASSUME NoLostWakeup, kills' = kills, posted' = posted, fs = OwnedHard => fs' = OwnedHard,
           \A u \in Threads : Waiting(u)' => Waiting(u),
           \A u \in Threads : WillWake(u) => WillWake(u)'
    PROVE  NoLostWakeup'
BY DEF NoLostWakeup

\* The same for a step of one thread that is not to wake anybody.
LEMMA OtherMoves ==
    ASSUME NoLostWakeup, TypeOK, NEW t \in Threads, NEW label,
           UNCHANGED <<kills, posted, alive>>, fs = OwnedHard => fs' = OwnedHard,
           pc' = [pc EXCEPT ![t] = label], \A u \in Threads \ {t} : lfs'[u] = lfs[u],
           label \in {"chkOwner", "wait", "readOwner", "verify"} => Waiting(t),
           ~WillWake(t)
    PROVE  NoLostWakeup'
<1>1. \A u \in Threads : Waiting(u)' => Waiting(u)
  BY DEF Waiting, TypeOK
<1>2. \A u \in Threads : WillWake(u) => WillWake(u)'
  BY DEF WillWake, TypeOK
<1> QED
  BY <1>1, <1>2, SameWakers

LEMMA NextHardHasEvent == WInv /\ [Next]_vars => HardHasEvent'
<1> SUFFICES ASSUME WInv, [Next]_vars PROVE HardHasEvent'
  OBVIOUS
<1> USE DEF shared, env
<1>0. /\ pc \in [Threads -> PCs] /\ lfs \in [Threads -> FS] /\ hev \in {0, 1}
      /\ fs = OwnedHard => hev = 1
      /\ HardHasEvent
  BY DEF WInv, IInv, TypeOK, Grant
<1>1. ASSUME NEW t \in Threads, NEW f \in ReqFlags, RequestXchg(t, f) PROVE HardHasEvent'
  BY <1>0, <1>1 DEF RequestXchg, Own, Goto, HardHasEvent
<1>2. ASSUME NEW t \in Threads, CasHev(t) PROVE HardHasEvent'
  BY <1>0, <1>2 DEF CasHev, Own, Contend, Goto, HardHasEvent
<1>3. ASSUME hev' = hev,
             \A u \in Threads : pc'[u] = "chkHev" => pc[u] = "chkHev" /\ lfs'[u] = lfs[u]
      PROVE  HardHasEvent'
  BY <1>0, <1>3 DEF HardHasEvent
<1>4. ASSUME NEW t \in Threads,
             \/ SetOwner(t) \/ ChkHev(t) \/ CreateHevFails(t) \/ NoWait(t) \/ RelXchg(t)
             \/ ChkOwner(t) \/ Verify(t) \/ WaitInterrupt(t) \/ ThreadStart(t)
      PROVE  HardHasEvent'
  BY <1>0, <1>3, <1>4
  DEF SetOwner, ChkHev, CreateHevFails, NoWait, RelXchg, ChkOwner, Verify, WaitInterrupt,
      ThreadStart, Deadlock, EnterWait, Return, Own, Contend, Goto
<1>5. ASSUME NEW t \in Threads,
             \/ CreateHev(t) \/ Reset(t) \/ XchgHard(t) \/ WaitPosted(t) \/ WaitTimeout(t)
             \/ ReadOwner(t) \/ Release(t) \/ Post(t) \/ ReleaseFork(t) \/ ThreadEnd(t) \/ Kill(t)
      PROVE  HardHasEvent'
  BY <1>0, <1>3, <1>5
  DEF CreateHev, Reset, XchgHard, WaitPosted, WaitTimeout, ReadOwner, Release, Post,
      ReleaseFork, ThreadEnd, Kill, Own, Goto
<1>6. CASE StartExit \/ UNCHANGED vars
  BY <1>3, <1>6 DEF StartExit, vars
<1> QED
  BY <1>1, <1>2, <1>4, <1>5, <1>6, Zenon DEF Next, ThreadNext, Step, Panicked, RequestUninit

LEMMA NextNoLostWakeup == WInv /\ [Next]_vars => NoLostWakeup'
<1> SUFFICES ASSUME WInv, [Next]_vars PROVE NoLostWakeup'
  OBVIOUS
<1> USE DEF shared, env
<1>0. /\ TypeOK /\ NoLostWakeup /\ HardHasEvent /\ Balance
      /\ pc \in [Threads -> PCs] /\ lfs \in [Threads -> FS]
  BY DEF WInv, IInv, TypeOK
<1>00. OwnedHard # Uninit /\ OwnedHard # AutoInitialize
  BY DEF OwnedHard, Uninit, AutoInitialize
<1>1. ASSUME NEW t \in Threads, NEW f \in ReqFlags, RequestXchg(t, f) PROVE NoLostWakeup'
  <2>1. CASE fs = OwnedHard
    <3>1. WillWake(t)'
      BY <1>0, <1>1, <2>1 DEF RequestXchg, At, Goto, WillWake, OwnedHard, Available
    <3> QED
      BY <3>1, WakerStep
  <2>2. CASE fs # OwnedHard
    BY <1>0, <1>1, <2>2, OtherMoves DEF RequestXchg, At, Own, Goto, WillWake
  <2> QED
    BY <2>1, <2>2
<1>2. ASSUME NEW t \in Threads, SetOwner(t) PROVE NoLostWakeup'
  BY <1>0, <1>2, OtherMoves DEF SetOwner, Return, At, Goto, WillWake
<1>3. ASSUME NEW t \in Threads, ChkHev(t) PROVE NoLostWakeup'
  <2>1. CASE lfs[t] = OwnedHard
    <3>1. hev = 1 /\ Contend(t) /\ UNCHANGED <<lfs, alive>> /\ t \in alive
      BY <1>0, <1>00, <1>3, <2>1 DEF ChkHev, At, HardHasEvent
    <3>2. WillWake(t)'
      BY <1>0, <2>1, <3>1 DEF Contend, Goto, WillWake
    <3> QED
      BY <3>2, WakerStep
  <2>2. CASE lfs[t] # OwnedHard
    BY <1>0, <1>3, <2>2, OtherMoves DEF ChkHev, Return, Contend, At, Goto, WillWake
  <2> QED
    BY <2>1, <2>2
<1>4. ASSUME NEW t \in Threads, CreateHev(t) \/ CreateHevFails(t) PROVE NoLostWakeup'
  BY <1>0, <1>4, OtherMoves DEF CreateHev, CreateHevFails, Return, At, Goto, WillWake
<1>5. ASSUME NEW t \in Threads, CasHev(t) PROVE NoLostWakeup'
  <2>1. CASE hev = 0
    BY <1>0, <1>5, <2>1, OtherMoves DEF CasHev, Own, At, Goto, WillWake
  <2>2. CASE hev # 0
    <3>1. WillWake(t)'
      BY <1>0, <1>5, <2>2 DEF CasHev, Contend, At, Goto, WillWake
    <3> QED
      BY <3>1, WakerStep
  <2> QED
    BY <2>1, <2>2
<1>6. ASSUME NEW t \in Threads, NoWait(t) PROVE NoLostWakeup'
  <2>1. CASE lfs[t] = OwnedHard
    BY <1>6, <2>1, WakerStep DEF NoWait
  <2>2. CASE lfs[t] # OwnedHard
    BY <1>0, <1>6, <2>2, OtherMoves DEF NoWait, Return, At, Goto, WillWake
  <2> QED
    BY <2>1, <2>2
<1>7. ASSUME NEW t \in Threads, Reset(t) \/ WaitPosted(t) PROVE NoLostWakeup'
  <2>1. WillWake(t)'
    BY <1>0, <1>7 DEF Reset, WaitPosted, At, Goto, WillWake
  <2> QED
    BY <2>1, WakerStep
<1>8. ASSUME NEW t \in Threads, XchgHard(t) PROVE NoLostWakeup'
  BY <1>8, WakerStep DEF XchgHard
<1>9. ASSUME NEW t \in Threads, ChkOwner(t) \/ Verify(t) PROVE NoLostWakeup'
  BY <1>0, <1>9, OtherMoves
  DEF ChkOwner, Verify, Deadlock, EnterWait, Return, At, Goto, WillWake, Waiting
<1>10. ASSUME NEW t \in Threads, WaitTimeout(t) \/ WaitInterrupt(t) PROVE NoLostWakeup'
  BY <1>0, <1>10, OtherMoves
  DEF WaitTimeout, WaitInterrupt, Return, At, Goto, WillWake, Waiting
<1>11. ASSUME NEW t \in Threads, ReadOwner(t) PROVE NoLostWakeup'
  BY <1>0, <1>11, OtherMoves DEF ReadOwner, At, Goto, WillWake, Waiting
<1>12. ASSUME NEW t \in Threads, Release(t) PROVE NoLostWakeup'
  <2>1. CASE Owner = t
    BY <1>0, <1>12, <2>1, OtherMoves DEF Release, At, Goto, WillWake
  <2>2. CASE Owner # t
    BY <1>0, <1>12, <2>2, SameWakers DEF Release, WillWake, Waiting
  <2> QED
    BY <2>1, <2>2
<1>13. ASSUME NEW t \in Threads, RelXchg(t) PROVE NoLostWakeup'
  <2>1. CASE fs = OwnedHard
    <3>1. WillWake(t)'
      BY <1>0, <1>13, <2>1 DEF RelXchg, At, Goto, WillWake
    <3> QED
      BY <3>1, WakerStep
  <2>2. CASE fs # OwnedHard
    BY <1>0, <1>13, <2>2, OtherMoves DEF RelXchg, Return, At, Goto, WillWake
  <2> QED
    BY <2>1, <2>2
<1>14. ASSUME NEW t \in Threads, Post(t) PROVE NoLostWakeup'
  BY <1>14, WakerStep DEF Post
<1>15. ASSUME NEW t \in Threads, ReleaseFork(t) PROVE NoLostWakeup'
  <2>1. \A u \in Threads : ~Waiting(u)'
    BY <1>15 DEF ReleaseFork, At, Waiting
  <2> QED
    BY <2>1 DEF NoLostWakeup
<1>16. ASSUME NEW t \in Threads, ThreadEnd(t) PROVE NoLostWakeup'
  BY <1>0, <1>16, SameWakers DEF ThreadEnd, At, WillWake, Waiting
<1>17. ASSUME NEW t \in Threads, Kill(t) PROVE NoLostWakeup'
  <2>1. CASE MustComplete
    <3>1. ~WillWake(t)
      BY <1>0, <1>17, <2>1 DEF Kill, WillWake, Balance, Depth, Inside, PCs
    <3> QED
      BY <1>0, <1>17, <2>1, <3>1 DEF Kill, NoLostWakeup, WillWake, Waiting
  <2>2. CASE ~MustComplete
    BY <1>0, <1>17, <2>2, ConstantsAssumption DEF Kill, NoLostWakeup, TypeOK
  <2> QED
    BY <2>1, <2>2
<1>18. ASSUME NEW t \in Threads, ThreadStart(t) PROVE NoLostWakeup'
  <2>1. \A u \in Threads : Waiting(u)' => Waiting(u)
    BY <1>0, <1>18 DEF ThreadStart, Return, Goto, Waiting
  <2>2. \A u \in Threads : WillWake(u) => WillWake(u)'
    BY <1>0, <1>18 DEF ThreadStart, Return, Goto, WillWake
  <2> QED
    BY <1>0, <1>18, <2>1, <2>2, SameWakers DEF ThreadStart
<1>19. CASE StartExit \/ UNCHANGED vars
  BY <1>0, <1>19, SameWakers DEF StartExit, vars, WillWake, Waiting
<1> QED
  BY <1>1, <1>2, <1>3, <1>4, <1>5, <1>6, <1>7, <1>8, <1>9, <1>10, <1>11, <1>12, <1>13, <1>14,
     <1>15, <1>16, <1>17, <1>18, <1>19, Zenon
     DEF Next, ThreadNext, Step, Panicked, RequestUninit

\* While a thread waits on a semaphore that is reset, the word says _FMS_OWNED_HARD or some
\* thread is about to make it so or to post (fmutex.h:71, 91): for any number of threads,
\* although the fast path overwrites the word, and for a must-complete mutex whoever is killed.
THEOREM NoLostWakeupHolds == Spec => []NoLostWakeup
<1>1. Init => HardHasEvent /\ NoLostWakeup
  BY DEF Init, HardHasEvent, NoLostWakeup, Waiting
<1>2. WInv /\ [Next]_vars => (HardHasEvent /\ NoLostWakeup)'
  BY NextHardHasEvent, NextNoLostWakeup
<1> QED
  BY <1>1, <1>2, SpecIInv, SpecBalance, PTL DEF Spec, WInv
=============================================================================
