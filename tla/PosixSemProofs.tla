--------------------------- MODULE PosixSemProofs ---------------------------
(***************************************************************************)
(* The waits of a POSIX semaphore get no more units than there were, for    *)
(* any finite set of threads and any bounds: every unit is in one place, in *)
(* the counter, in the hands of a post between its two steps, remembered by *)
(* the event, or taken by a wait.                                           *)
(***************************************************************************)
EXTENDS PosixSem, FiniteSetTheorems, TLAPS

Posting == {t \in Threads : pc[t] = "post"}
Waiting == {t \in Threads : pc[t] \in {"wait", "blocked"}}

Types ==
    /\ count \in Int
    /\ posted \in BOOLEAN
    /\ pc \in [Threads -> {"idle", "wait", "blocked", "post"}]
    /\ posts \in 0..MaxPosts /\ taken \in Nat
    /\ tried \in 0..MaxTries /\ timeouts \in 0..MaxTimeouts

\* What the counter says: the units there were, less the calls that took one off.
Counter == count = InitValue + posts - taken - Cardinality(Waiting) - timeouts

Remembered == IF posted THEN 1 ELSE 0
InCounter == IF count > 0 THEN count ELSE 0

\* Where the units are.
Units == taken + Cardinality(Posting) + Remembered + InCounter <= InitValue + posts

IInv == Types /\ Counter /\ Units

\* The two sets are finite and not larger than the set of threads.
LEMMA Sizes ==
    /\ IsFiniteSet(Posting) /\ Cardinality(Posting) \in Nat
    /\ IsFiniteSet(Waiting) /\ Cardinality(Waiting) \in Nat
    /\ Cardinality(Waiting) <= Cardinality(Threads) /\ Cardinality(Threads) \in Nat
<1>1. Posting \subseteq Threads /\ Waiting \subseteq Threads
  BY DEF Posting, Waiting
<1> QED
  BY <1>1, ConstantsAssumption, FS_Subset, FS_CardinalityType

\* The size of a finite set with one element more or less.
LEMMA OneMore ==
    ASSUME NEW S, IsFiniteSet(S), NEW x
    PROVE  /\ x \notin S => Cardinality(S \union {x}) = Cardinality(S) + 1
           /\ x \in S => Cardinality(S \ {x}) = Cardinality(S) - 1
BY FS_AddElement, FS_RemoveElement, FS_CardinalityType

LEMMA InitIInv == Init => IInv
<1> SUFFICES ASSUME Init PROVE IInv
  OBVIOUS
<1>1. Posting = {} /\ Waiting = {}
  BY DEF Init, Posting, Waiting
<1>2. Cardinality({}) = 0
  BY FS_EmptySet
<1>3. posted \in BOOLEAN /\ Remembered = 0
  BY DEF Init, Remembered
<1> QED
  BY <1>1, <1>2, <1>3, ConstantsAssumption
  DEF Init, IInv, Types, Counter, Units, InCounter

\* The steps of a wait (sem_wait.c:26-41, sem_timedwait.c:29-76).
LEMMA WaitKeeps ==
    ASSUME IInv, NEW t \in Threads, WaitSub(t) \/ WaitEvent(t) \/ WaitFails(t)
    PROVE  IInv'
<1> USE DEF IInv
<1>0. /\ IsFiniteSet(Waiting) /\ Cardinality(Waiting) \in Nat
      /\ IsFiniteSet(Posting) /\ Cardinality(Posting) \in Nat
  BY Sizes
<1>1. CASE WaitSub(t) /\ count <= 0
  <2>1. Waiting' = Waiting \union {t} /\ t \notin Waiting /\ Posting' = Posting
    BY <1>1 DEF WaitSub, Goto, Waiting, Posting, Types
  <2>2. Cardinality(Waiting') = Cardinality(Waiting) + 1
    BY <2>1, <1>0, OneMore
  <2>3. Types'
    BY <1>1 DEF WaitSub, Goto, Types
  <2> QED
    BY <1>0, <1>1, <2>1, <2>2, <2>3, ConstantsAssumption
    DEF WaitSub, Types, Counter, Units, Remembered, InCounter
<1>2. CASE WaitSub(t) /\ ~(count <= 0)
  <2>1. Waiting' = Waiting /\ Posting' = Posting
    BY <1>2 DEF WaitSub, Waiting, Posting
  <2> QED
    BY <1>0, <1>2, <2>1, ConstantsAssumption
    DEF WaitSub, Types, Counter, Units, Remembered, InCounter
<1>3. CASE WaitEvent(t) /\ posted
  <2>1. Waiting' = Waiting \ {t} /\ t \in Waiting /\ Posting' = Posting
    BY <1>3 DEF WaitEvent, Goto, Waiting, Posting, Types
  <2>2. Cardinality(Waiting') = Cardinality(Waiting) - 1
    BY <2>1, <1>0, OneMore
  <2>3. posted' \in BOOLEAN
    BY <1>3, Zenon DEF WaitEvent
  <2>4. Types'
    BY <1>3, <2>3 DEF WaitEvent, Goto, Types
  <2> QED
    BY <1>0, <1>3, <2>1, <2>2, <2>4, ConstantsAssumption
    DEF WaitEvent, Types, Counter, Units, Remembered, InCounter
<1>4. CASE WaitEvent(t) /\ ~posted
  <2>1. Waiting' = Waiting /\ Posting' = Posting
    BY <1>4 DEF WaitEvent, Goto, Waiting, Posting, Types
  <2>2. Types'
    BY <1>4 DEF WaitEvent, Goto, Types
  <2> QED
    BY <1>0, <1>4, <2>1, <2>2, ConstantsAssumption
    DEF WaitEvent, Types, Counter, Units, Remembered, InCounter
<1>5. CASE WaitFails(t)
  <2>1. Waiting' = Waiting \ {t} /\ t \in Waiting /\ Posting' = Posting
    BY <1>5 DEF WaitFails, Goto, Waiting, Posting, Types
  <2>2. Cardinality(Waiting') = Cardinality(Waiting) - 1
    BY <2>1, <1>0, OneMore
  <2>3. Types'
    BY <1>5, ConstantsAssumption DEF WaitFails, Goto, Types
  <2> QED
    BY <1>0, <1>5, <2>1, <2>2, <2>3, ConstantsAssumption
    DEF WaitFails, Types, Counter, Units, Remembered, InCounter
<1> QED
  BY <1>1, <1>2, <1>3, <1>4, <1>5

\* The steps of a post (sem_post.c:26-42).
LEMMA PostKeeps ==
    ASSUME IInv, NEW t \in Threads, PostAdd(t) \/ PostEvent(t)
    PROVE  IInv'
<1> USE DEF IInv
<1>0. /\ IsFiniteSet(Waiting) /\ Cardinality(Waiting) \in Nat
      /\ IsFiniteSet(Posting) /\ Cardinality(Posting) \in Nat
  BY Sizes
<1>1. CASE PostAdd(t) /\ count < 0
  <2>1. Posting' = Posting \union {t} /\ t \notin Posting /\ Waiting' = Waiting
    BY <1>1 DEF PostAdd, Goto, Waiting, Posting, Types
  <2>2. Cardinality(Posting') = Cardinality(Posting) + 1
    BY <2>1, <1>0, OneMore
  <2>3. Types'
    BY <1>1, ConstantsAssumption DEF PostAdd, Goto, Types
  <2> QED
    BY <1>0, <1>1, <2>1, <2>2, <2>3, ConstantsAssumption
    DEF PostAdd, Types, Counter, Units, Remembered, InCounter
<1>2. CASE PostAdd(t) /\ ~(count < 0)
  <2>1. Waiting' = Waiting /\ Posting' = Posting
    BY <1>2 DEF PostAdd, Waiting, Posting
  <2> QED
    BY <1>0, <1>2, <2>1, ConstantsAssumption
    DEF PostAdd, Types, Counter, Units, Remembered, InCounter
<1>3. ASSUME NEW u \in Threads, PostEvent(t), pc[u] = "blocked",
             pc' = [pc EXCEPT ![t] = "idle", ![u] = "idle"], taken' = taken + 1,
             UNCHANGED posted
      PROVE  IInv'
  <2>1. /\ Posting' = Posting \ {t} /\ t \in Posting
        /\ Waiting' = Waiting \ {u} /\ u \in Waiting
    BY <1>3 DEF PostEvent, Waiting, Posting, Types
  <2>2. /\ Cardinality(Posting') = Cardinality(Posting) - 1
        /\ Cardinality(Waiting') = Cardinality(Waiting) - 1
    BY <2>1, <1>0, OneMore
  <2>3. Types'
    BY <1>3 DEF PostEvent, Types
  <2> QED
    BY <1>0, <1>3, <2>1, <2>2, <2>3, ConstantsAssumption
    DEF PostEvent, Types, Counter, Units, Remembered, InCounter
<1>4. ASSUME PostEvent(t), Goto(t, "idle"), posted' = TRUE, UNCHANGED taken
      PROVE  IInv'
  <2>1. Posting' = Posting \ {t} /\ t \in Posting /\ Waiting' = Waiting
    BY <1>4 DEF PostEvent, Goto, Waiting, Posting, Types
  <2>2. Cardinality(Posting') = Cardinality(Posting) - 1
    BY <2>1, <1>0, OneMore
  <2>3. Types'
    BY <1>4 DEF PostEvent, Goto, Types
  <2> QED
    BY <1>0, <1>4, <2>1, <2>2, <2>3, ConstantsAssumption
    DEF PostEvent, Types, Counter, Units, Remembered, InCounter
<1> QED
  BY <1>1, <1>2, <1>3, <1>4 DEF PostEvent

LEMMA NextIInv == IInv /\ [Next]_vars => IInv'
<1> SUFFICES ASSUME IInv, [Next]_vars PROVE IInv'
  OBVIOUS
<1>1. CASE UNCHANGED vars
  BY <1>1 DEF vars, IInv, Types, Counter, Units, Remembered, InCounter, Posting, Waiting
<1>2. ASSUME NEW t \in Threads, TryWait(t) PROVE IInv'
  BY <1>2, ConstantsAssumption
  DEF TryWait, IInv, Types, Counter, Units, Remembered, InCounter, Posting, Waiting
<1> QED
  BY <1>1, <1>2, WaitKeeps, PostKeeps DEF Next

\* sem_wait and sem_timedwait return 0 no more often than the semaphore was made with and
\* sem_post added units, whatever the order of the two steps of each call; the counter
\* stays within its bounds.  The tries are not in the sum (TriesCovered).
THEOREM WaitsCoveredHolds == Spec => []WaitsCovered
<1>1. IInv => WaitsCovered
  <2> SUFFICES ASSUME IInv PROVE WaitsCovered
    OBVIOUS
  <2>1. /\ Cardinality(Posting) \in Nat /\ Cardinality(Waiting) \in Nat
        /\ Cardinality(Waiting) <= Cardinality(Threads) /\ Cardinality(Threads) \in Nat
    BY Sizes
  <2>2. Remembered \in Nat /\ InCounter \in Nat /\ count <= InCounter
    BY DEF IInv, Types, Remembered, InCounter
  <2>3. taken <= InitValue + posts
    BY <2>1, <2>2, ConstantsAssumption DEF IInv, Types, Units
  <2>4. count \in -(Cardinality(Threads) + MaxTimeouts)..(InitValue + MaxPosts)
    BY <2>1, <2>2, <2>3, ConstantsAssumption DEF IInv, Types, Units, Counter
  <2> QED
    BY <2>3, <2>4 DEF IInv, Types, WaitsCovered, TypeOK
<1> QED
  BY <1>1, InitIInv, NextIInv, PTL DEF Spec
=============================================================================
