----------------------------- MODULE TLSProofs -----------------------------
(***************************************************************************)
(* For any number of threads and slots, a call of __libc_TLSAlloc that got  *)
(* past the count finds a free slot in its first pass over the bitmap.  The *)
(* argument counts, for every position j, the calls that scan at j or later *)
(* and the slots taken there: together they are never more than the slots   *)
(* there are from j on (Room).  A call that has to go on from j found j     *)
(* taken, so it leaves two behind where it needs the room of one.           *)
(*                                                                          *)
(* The mutex that guards the registration of the callback is the simple     *)
(* mutex, which implements Mutex: the byte says whether there is an owner   *)
(* (ByteTellsOwner); with the types this is inductive, and every step is    *)
(* then one of Mutex or a stutter.                                          *)
(***************************************************************************)
EXTENDS TLS, FiniteSetTheorems, TLAPS

-----------------------------------------------------------------------------
(* The simple mutex                                                         *)

Inv == TypeOK /\ ByteTellsOwner

\* An exchange (smutex.h:27, smutex.c:21) keeps the invariant, and gives the mutex
\* to its caller only when nobody owns it.
LEMMA XchgKeeps ==
    ASSUME Inv, NEW t \in Threads, NEW taken \in {"idle", "sleep", "check"},
           pc[t] # "own", Xchg(t, taken)
    PROVE  Inv' /\ (AbstractMutex!Acquire(t) \/ Owners' = Owners)
<1> USE DEF Inv, TypeOK, ByteTellsOwner
<1>1. TypeOK'
  BY DEF Xchg, Goto, PCs
<1>2. CASE sem = 0
  <2>1. Owners = {} /\ Owners' = {t} /\ sem' = 1
    BY <1>2 DEF Xchg, Goto, Owners
  <2> QED
    BY <1>1, <2>1 DEF AbstractMutex!Acquire
<1>3. CASE sem # 0
  <2>1. Owners' = Owners /\ sem' = sem
    BY <1>3 DEF Xchg, Goto, Owners
  <2> QED
    BY <1>1, <2>1
<1> QED
  BY <1>2, <1>3

\* A step that leaves the byte and the owners alone keeps the invariant.
LEMMA QuietKeeps ==
    ASSUME ByteTellsOwner, sem' = sem, Owners' = Owners
    PROVE  ByteTellsOwner'
BY DEF ByteTellsOwner

\* Every step of the mutex keeps the invariant and is a step of Mutex or none.
LEMMA StepRefines ==
    ASSUME Inv, [Next]_vars
    PROVE  Inv' /\ [AbstractMutex!Next]_(Owners)
<1> USE DEF Inv
<1>1. CASE UNCHANGED vars
  <2>1. TypeOK' /\ Owners' = Owners /\ sem' = sem
    BY <1>1 DEF vars, TypeOK, Owners
  <2> QED
    BY <2>1, QuietKeeps
<1>2. ASSUME NEW t \in Threads, Request(t) \/ TryRequest(t) \/ Retry(t)
      PROVE  Inv' /\ [AbstractMutex!Next]_(Owners)
  BY <1>2, XchgKeeps DEF Request, TryRequest, Retry, At, AbstractMutex!Next
<1>3. ASSUME NEW t \in Threads, Check(t)
      PROVE  Inv' /\ [AbstractMutex!Next]_(Owners)
  <2>1. TypeOK' /\ Owners' = Owners /\ sem' = sem
    BY <1>3 DEF Check, At, Goto, TypeOK, Owners, PCs
  <2> QED
    BY <2>1, QuietKeeps
<1>4. ASSUME NEW t \in Threads, Release(t)
      PROVE  Inv' /\ [AbstractMutex!Next]_(Owners)
  <2>1. TypeOK'
    BY <1>4 DEF Release, At, Goto, TypeOK, PCs
  <2>2. t \in Owners /\ Owners' = Owners \ {t} /\ sem' = 0
    BY <1>4 DEF Release, At, Goto, TypeOK, Owners
  <2>3. Owners' = {}
    BY <2>2 DEF ByteTellsOwner
  <2> QED
    BY <2>1, <2>2, <2>3 DEF ByteTellsOwner, AbstractMutex!Next, AbstractMutex!Release
<1>5. ASSUME NEW t \in Threads, Kill(t)
      PROVE  Inv' /\ [AbstractMutex!Next]_(Owners)
  <2>1. TypeOK' /\ Owners' = Owners /\ sem' = sem
    BY <1>5 DEF Kill, TypeOK, Owners
  <2> QED
    BY <2>1, QuietKeeps
<1>6. CASE StartExit
  <2>1. TypeOK' /\ Owners' = Owners /\ sem' = sem
    BY <1>6 DEF StartExit, TypeOK, Owners
  <2> QED
    BY <2>1, QuietKeeps
<1> QED
  BY <1>1, <1>2, <1>3, <1>4, <1>5, <1>6 DEF Next, Step

\* The state a zeroed _smutex is in.
LEMMA InitRefines == Init => Inv /\ AbstractMutex!Init
BY DEF Init, Inv, TypeOK, PCs, ByteTellsOwner, Owners, AbstractMutex!Init

\* The byte and the positions of the threads keep their types, and the byte of
\* the mutex tells whether there is an owner; there is never a second one.
THEOREM ByteTellsOwnerHolds == Spec => [](TypeOK /\ ByteTellsOwner)
<1>1. Inv /\ [Next]_vars => Inv'
  BY StepRefines
<1> QED
  BY <1>1, InitRefines, PTL DEF Spec, Inv

\* _smutex_request, _smutex_try_request and _smutex_release implement the abstract
\* mutex, whatever threads are killed and whenever the process exits.
THEOREM Refinement == Spec => RefinesMutex
<1>1. Inv /\ [Next]_vars => Inv' /\ [AbstractMutex!Next]_(Owners)
  BY StepRefines
<1> QED
  BY <1>1, InitRefines, PTL DEF Spec, RefinesMutex, AbstractMutex!Spec

-----------------------------------------------------------------------------
(* The slots                                                                *)

Scanning(j) == {t \in Threads : tpc[t] = "scan" /\ at[t] >= j}
Taken(j) == {s \in gauBitmap : s >= j}

\* The calls at position j or later and the slots taken there fit in what is left.
Room == \A j \in Slots : Cardinality(Scanning(j)) + Cardinality(Taken(j)) <= Max - j

\* The part of the types the argument needs.
Shape ==
    /\ gcTLSAllocated \in 0 .. Max
    /\ gauBitmap \subseteq Slots /\ keys \subseteq gauBitmap
    /\ tpc \in [Threads -> TPCs]
    /\ at \in [Threads -> Slots]
    /\ \A t \in Threads : tpc[t] # "scan" => at[t] = 0

TInv == Shape /\ ~gaveUp /\ gcTLSAllocated = Cardinality(gauBitmap) + Cardinality(Pending)
              /\ Room

\* Slots and threads are finite, and so is what is counted.
LEMMA Finite ==
    ASSUME gauBitmap \subseteq Slots
    PROVE  /\ IsFiniteSet(gauBitmap) /\ Cardinality(gauBitmap) \in Nat
           /\ IsFiniteSet(Pending) /\ Cardinality(Pending) \in Nat
           /\ \A j \in Int : /\ IsFiniteSet(Scanning(j)) /\ Cardinality(Scanning(j)) \in Nat
                             /\ IsFiniteSet(Taken(j)) /\ Cardinality(Taken(j)) \in Nat
<1> USE TLSAssumption
<1>1. IsFiniteSet(Slots)
  BY FS_Interval DEF Slots
<1>2. IsFiniteSet(gauBitmap)
  BY <1>1, FS_Subset
<1>3. \A j \in Int : IsFiniteSet(Taken(j)) /\ IsFiniteSet(Scanning(j))
  BY <1>2, FS_Subset DEF Taken, Scanning
<1>4. IsFiniteSet(Pending)
  BY FS_Subset DEF Pending
<1> QED
  BY <1>2, <1>3, <1>4, FS_CardinalityType

\* What no step may change for the count and the room to stay as they are.
counted == <<gcTLSAllocated, gauBitmap, at, gaveUp>>

\* A step that moves threads only between places outside the allocation keeps
\* the invariant.
LEMMA QuietStep ==
    ASSUME TInv, UNCHANGED counted, keys' = keys, tpc' \in [Threads -> TPCs],
           \A t \in Threads : \/ tpc'[t] = tpc[t]
                              \/ {tpc[t], tpc'[t]} \intersect {"scan", "count"} = {}
    PROVE  TInv'
<1>1. Shape'
  BY DEF TInv, Shape, counted
<1>2. Pending' = Pending /\ \A j \in Slots : Scanning(j)' = Scanning(j) /\ Taken(j)' = Taken(j)
  BY DEF Pending, Scanning, Taken, counted
<1> QED
  BY <1>1, <1>2 DEF TInv, Room, counted

\* tls.c:88: the counted call starts at position 0, where the count left it room.
LEMMA ReserveKeeps ==
    ASSUME TInv, NEW t \in Threads, Reserve(t)
    PROVE  TInv'
<1> USE TLSAssumption DEF TInv
<1>1. Shape' /\ ~gaveUp'
  BY DEF Reserve, Shape, Idle, In, Move, TPCs
<1>2. gauBitmap' = gauBitmap /\ gcTLSAllocated' = gcTLSAllocated + 1 /\ gcTLSAllocated < Max
      /\ tpc[t] = "idle" /\ at' = at /\ at[t] = 0 /\ tpc' = [tpc EXCEPT ![t] = "scan"]
  BY DEF Reserve, Shape, Idle, In, Move
<1>3. Pending' = Pending \union {t} /\ t \notin Pending
  BY <1>2 DEF Pending, Shape
<1>4. Cardinality(Pending') = Cardinality(Pending) + 1
  BY <1>3, Finite, FS_AddElement DEF Shape
<1>5. ASSUME NEW j \in Slots
      PROVE  (Cardinality(Scanning(j)) + Cardinality(Taken(j)) <= Max - j)'
  <2>1. CASE j = 0
    <3>1. Scanning(j)' \subseteq Pending' /\ Taken(j)' \subseteq gauBitmap'
      BY DEF Scanning, Taken, Pending
    <3>2. Shape'
      BY <1>1
    <3>3. IsFiniteSet(Pending') /\ IsFiniteSet(gauBitmap)
      BY <1>3, Finite, FS_AddElement DEF Shape
    <3>4. /\ Cardinality(Scanning(j)') <= Cardinality(Pending')
          /\ Cardinality(Taken(j)') <= Cardinality(gauBitmap)
          /\ IsFiniteSet(Scanning(j)') /\ IsFiniteSet(Taken(j)')
      BY <1>2, <3>1, <3>3, FS_Subset
    <3>5. Cardinality(Scanning(j)') \in Nat /\ Cardinality(Taken(j)') \in Nat
      BY <3>4, FS_CardinalityType
    <3> QED
      BY <1>2, <1>4, <2>1, <3>4, <3>5, Finite DEF Shape
  <2>2. CASE j # 0
    <3>1. Scanning(j)' = Scanning(j) /\ Taken(j)' = Taken(j)
      BY <1>2, <2>2 DEF Scanning, Taken, Shape, Slots
    <3> QED
      BY <3>1 DEF Room
  <2> QED
    BY <2>1, <2>2
<1> QED
  BY <1>1, <1>2, <1>4, <1>5, Finite DEF Room, Shape

\* tls.c:116: a call that finds a clear bit takes it, and is done.
LEMMA ProbeTakes ==
    ASSUME TInv, NEW t \in Threads, Probe(t), at[t] \notin gauBitmap
    PROVE  TInv'
<1> USE TLSAssumption DEF TInv
<1> DEFINE k == at[t]
<1>1. /\ gauBitmap' = gauBitmap \union {k} /\ keys' = keys \union {k}
      /\ tpc[t] = "scan" /\ tpc' = [tpc EXCEPT ![t] = "idle"] /\ at' = [at EXCEPT ![t] = 0]
      /\ gcTLSAllocated' = gcTLSAllocated /\ gaveUp' = gaveUp
  BY DEF Probe, In, Move
<1>2. k \in Slots /\ 0 \in Slots
  BY DEF Shape, Slots
<1>3. Shape'
  BY <1>1, <1>2 DEF Shape, TPCs
<1>4. Pending' = Pending \ {t} /\ t \in Pending
  BY <1>1 DEF Pending, Shape
<1>5. /\ Cardinality(Pending') = Cardinality(Pending) - 1
      /\ Cardinality(gauBitmap') = Cardinality(gauBitmap) + 1
  <2>1. Cardinality(Pending') = Cardinality(Pending) - 1
    BY <1>4, Finite, FS_RemoveElement DEF Shape
  <2>2. k \notin gauBitmap /\ gauBitmap' = gauBitmap \union {k}
    BY <1>1
  <2>3. Cardinality(gauBitmap') = Cardinality(gauBitmap) + 1
    BY <2>2, Finite, FS_AddElement DEF Shape
  <2> QED
    BY <2>1, <2>3
<1>6. ASSUME NEW j \in Slots
      PROVE  (Cardinality(Scanning(j)) + Cardinality(Taken(j)) <= Max - j)'
  <2>0. j \in Int /\ k \in Int
    BY <1>2 DEF Slots
  <2>1. CASE j <= k
    <3>1. Scanning(j)' = Scanning(j) \ {t} /\ t \in Scanning(j)
      BY <1>1, <2>1, <2>0 DEF Scanning, Shape
    <3>2. Taken(j)' = Taken(j) \union {k} /\ k \notin Taken(j)
      BY <1>1, <2>1, <2>0 DEF Taken
    <3>3. Cardinality(Scanning(j)') = Cardinality(Scanning(j)) - 1
          /\ Cardinality(Taken(j)') = Cardinality(Taken(j)) + 1
      <4>1. IsFiniteSet(Scanning(j)) /\ IsFiniteSet(Taken(j))
        BY <2>0, Finite DEF Shape
      <4>2. Cardinality(Scanning(j) \ {t}) = Cardinality(Scanning(j)) - 1
        BY <3>1, <4>1, FS_RemoveElement
      <4>3. Cardinality(Taken(j) \union {k}) = Cardinality(Taken(j)) + 1
        BY <3>2, <4>1, FS_AddElement
      <4> QED
        BY <3>1, <3>2, <4>2, <4>3
    <3> QED
      BY <2>0, <3>3, Finite DEF Room, Shape
  <2>2. CASE ~(j <= k)
    <3>1. Scanning(j)' = Scanning(j) /\ Taken(j)' = Taken(j)
      BY <1>1, <1>2, <2>2, <2>0 DEF Scanning, Taken, Shape, Slots
    <3> QED
      BY <3>1 DEF Room
  <2> QED
    BY <2>1, <2>2
<1> QED
  <2>1. Cardinality(gauBitmap) \in Nat /\ Cardinality(Pending) \in Nat
    BY Finite DEF Shape
  <2> QED
    BY <1>1, <1>3, <1>5, <1>6, <2>1 DEF Room

\* The call that goes on from a bit that is set leaves the room of two behind.
LEMMA RoomBehind ==
    ASSUME TInv, NEW t \in Threads, tpc[t] = "scan", at[t] \in gauBitmap
    PROVE  /\ at[t] + 1 \in Slots
           /\ Cardinality(Scanning(at[t] + 1)) + Cardinality(Taken(at[t] + 1)) + 2 <= Max - at[t]
<1> USE TLSAssumption DEF TInv
<1> DEFINE k == at[t]
<1>1. k \in Slots /\ k \in Int /\ k + 1 \in Int
  BY DEF Shape, Slots
<1>2. Taken(k + 1) = Taken(k) \ {k} /\ k \in Taken(k)
  <2>1. gauBitmap \subseteq Int /\ k \in gauBitmap
    BY DEF Shape, Slots
  <2>2. \A s \in Int : s >= k + 1 <=> s >= k /\ s # k
    BY <1>1
  <2>3. k >= k
    BY <1>1
  <2> QED
    BY <2>1, <2>2, <2>3 DEF Taken
<1>3. Cardinality(Taken(k + 1)) = Cardinality(Taken(k)) - 1
  <2>1. IsFiniteSet(Taken(k))
    BY <1>1, Finite DEF Shape
  <2>2. Cardinality(Taken(k) \ {k}) = Cardinality(Taken(k)) - 1
    BY <1>2, <2>1, FS_RemoveElement
  <2> QED
    BY <1>2, <2>2
<1>4. Scanning(k + 1) \subseteq Scanning(k) \ {t} /\ t \in Scanning(k)
  BY <1>1 DEF Scanning, Shape, Slots
<1>5. /\ IsFiniteSet(Scanning(k) \ {t})
      /\ Cardinality(Scanning(k) \ {t}) = Cardinality(Scanning(k)) - 1
  BY <1>1, <1>4, Finite, FS_RemoveElement DEF Shape
<1>6. Cardinality(Scanning(k + 1)) <= Cardinality(Scanning(k)) - 1
  BY <1>4, <1>5, FS_Subset
<1>7. Cardinality(Scanning(k)) + Cardinality(Taken(k)) <= Max - k
  BY <1>1 DEF Room
<1>8. Cardinality(Scanning(k + 1)) \in Nat /\ Cardinality(Taken(k + 1)) \in Nat
      /\ Cardinality(Scanning(k)) \in Nat /\ Cardinality(Taken(k)) \in Nat
  BY <1>1, Finite DEF Shape
<1> QED
  BY <1>1, <1>3, <1>6, <1>7, <1>8 DEF Slots

\* The bits after k: the next one, or one at or before k.
LEMMA NextBitsType ==
    ASSUME NEW k \in Slots, NEW n \in NextBits(k)
    PROVE  n = k + 1 \/ (n \in Slots /\ n <= k)
<1> USE TLSAssumption DEF Slots
<1>1. k \in Nat /\ k \div WordBits \in Nat /\ (k \div WordBits) * WordBits <= k
  BY SMTT(30)
<1>2. (k \div WordBits) * WordBits \in Nat
  BY <1>1
<1> QED
  BY <1>1, <1>2 DEF NextBits

\* tls.c:114-131: a call that goes on has room at the next position.
LEMMA ProbeGoesOn ==
    ASSUME TInv, NEW t \in Threads, Probe(t), at[t] \in gauBitmap
    PROVE  TInv'
<1> USE TLSAssumption DEF TInv
<1> DEFINE k == at[t]
<1>1. k \in Slots /\ tpc[t] = "scan" /\ k \in Int
  BY DEF Probe, In, Shape, Slots
<1>2. PICK n \in NextBits(k) :
        IF n \in Slots THEN at' = [at EXCEPT ![t] = n] /\ UNCHANGED <<tpc, gaveUp>>
        ELSE gaveUp' = TRUE
  BY DEF Probe
<1>3. n \in Slots /\ (n = k + 1 \/ n <= k) /\ k + 1 \in Slots
  BY <1>1, <1>2, NextBitsType, RoomBehind
<1>4. /\ at' = [at EXCEPT ![t] = n] /\ UNCHANGED <<tpc, gaveUp>>
      /\ UNCHANGED <<gcTLSAllocated, gauBitmap, keys>>
  BY <1>2, <1>3 DEF Probe
<1>5. Shape'
  BY <1>1, <1>3, <1>4 DEF Shape
<1>6. Pending' = Pending
  BY <1>4 DEF Pending
<1>7. ASSUME NEW j \in Slots
      PROVE  (Cardinality(Scanning(j)) + Cardinality(Taken(j)) <= Max - j)'
  <2>0. Taken(j)' = Taken(j) /\ j \in Int
    BY <1>4 DEF Taken, Slots
  <2>1. CASE j = k + 1 /\ n = k + 1
    <3>1. Scanning(j)' = Scanning(j) \union {t}
      BY <1>1, <1>3, <1>4, <2>1, <2>0 DEF Scanning, Shape
    <3>2. Cardinality(Scanning(j)') <= Cardinality(Scanning(j)) + 1
      <4>1. IsFiniteSet(Scanning(j)) /\ Cardinality(Scanning(j)) \in Nat
        BY <2>0, Finite DEF Shape
      <4>2. Cardinality(Scanning(j) \union {t}) <= Cardinality(Scanning(j)) + 1
        <5>1. Cardinality(Scanning(j) \union {t})
                = IF t \in Scanning(j) THEN Cardinality(Scanning(j)) ELSE Cardinality(Scanning(j)) + 1
          BY <4>1, FS_AddElement
        <5> QED
          BY <4>1, <5>1
      <4> QED
        BY <3>1, <4>2
    <3>3. Cardinality(Scanning(j)') \in Nat
      BY <2>0, <3>1, Finite, FS_AddElement, FS_CardinalityType DEF Shape
    <3> QED
      BY <1>1, <2>0, <2>1, <3>2, <3>3, RoomBehind, Finite DEF Shape
  <2>2. CASE ~(j = k + 1 /\ n = k + 1)
    <3>1. Scanning(j)' \subseteq Scanning(j)
      BY <1>1, <1>3, <1>4, <2>2, <2>0 DEF Scanning, Shape, Slots
    <3>2. Cardinality(Scanning(j)') <= Cardinality(Scanning(j)) /\ IsFiniteSet(Scanning(j)')
      BY <2>0, <3>1, Finite, FS_Subset DEF Shape
    <3>3. Cardinality(Scanning(j)') \in Nat
      BY <3>2, FS_CardinalityType
    <3> QED
      BY <2>0, <3>2, <3>3, Finite DEF Room, Shape
  <2> QED
    BY <2>1, <2>2
<1> QED
  BY <1>4, <1>5, <1>6, <1>7 DEF Room

\* tls.c:158: the bit is cleared while the slot is still counted.
LEMMA FreeKeeps ==
    ASSUME TInv, NEW t \in Threads, NEW k \in Slots, Free(t, k)
    PROVE  TInv'
<1> USE TLSAssumption DEF TInv
<1>1. /\ gauBitmap' = gauBitmap \ {k} /\ k \in gauBitmap
      /\ tpc[t] = "idle" /\ tpc' = [tpc EXCEPT ![t] = "count"]
      /\ UNCHANGED <<at, gaveUp, gcTLSAllocated>>
  BY DEF Free, Idle, In, Move, Shape
<1>2. Shape'
  BY <1>1 DEF Free, Shape, TPCs
<1>3. Pending' = Pending \union {t} /\ t \notin Pending
  BY <1>1 DEF Pending, Shape
<1>4. /\ Cardinality(Pending') = Cardinality(Pending) + 1
      /\ Cardinality(gauBitmap') = Cardinality(gauBitmap) - 1
  BY <1>1, <1>3, Finite, FS_AddElement, FS_RemoveElement DEF Shape
<1>5. ASSUME NEW j \in Slots
      PROVE  (Cardinality(Scanning(j)) + Cardinality(Taken(j)) <= Max - j)'
  <2>0. j \in Int
    BY DEF Slots
  <2>1. Scanning(j)' = Scanning(j) /\ Taken(j)' \subseteq Taken(j)
    BY <1>1 DEF Scanning, Taken, Shape
  <2>2. Cardinality(Taken(j)') <= Cardinality(Taken(j)) /\ IsFiniteSet(Taken(j)')
    BY <2>0, <2>1, Finite, FS_Subset DEF Shape
  <2>3. Cardinality(Taken(j)') \in Nat
    BY <2>2, FS_CardinalityType
  <2> QED
    BY <2>0, <2>1, <2>2, <2>3, Finite DEF Room, Shape
<1> QED
  BY <1>1, <1>2, <1>4, <1>5, Finite DEF Room, Shape

\* tls.c:164: the count follows, and was at least one.
LEMMA FreeCountKeeps ==
    ASSUME TInv, NEW t \in Threads, FreeCount(t)
    PROVE  TInv'
<1> USE TLSAssumption DEF TInv
<1>1. /\ tpc[t] = "count" /\ tpc' = [tpc EXCEPT ![t] = "idle"]
      /\ gcTLSAllocated' = gcTLSAllocated - 1
      /\ UNCHANGED <<at, gaveUp, gauBitmap, keys>>
  BY DEF FreeCount, In, Move
<1>2. Pending' = Pending \ {t} /\ t \in Pending
  BY <1>1 DEF Pending, Shape
<1>3. Cardinality(Pending') = Cardinality(Pending) - 1 /\ Cardinality(Pending') \in Nat
  BY <1>2, Finite, FS_RemoveElement, FS_CardinalityType DEF Shape
<1>4. Shape'
  BY <1>1, <1>3, Finite DEF Shape, TPCs
<1>5. \A j \in Slots : Scanning(j)' = Scanning(j) /\ Taken(j)' = Taken(j)
  BY <1>1 DEF Scanning, Taken, Shape
<1> QED
  BY <1>1, <1>3, <1>4, <1>5, Finite DEF Room, Shape

\* Every step keeps the invariant.
LEMMA TLSStep ==
    ASSUME TInv, [TLSNext]_allVars
    PROVE  TInv'
<1>0. tpc \in [Threads -> TPCs]
  BY DEF TInv, Shape
<1>1. CASE UNCHANGED allVars
  BY <1>0, <1>1, QuietStep DEF allVars, tlsVars, counted
<1>2. ASSUME NEW t \in Threads, Reserve(t) PROVE TInv'
  BY <1>2, ReserveKeeps
<1>3. ASSUME NEW t \in Threads, Probe(t) PROVE TInv'
  BY <1>3, ProbeTakes, ProbeGoesOn
<1>4. ASSUME NEW t \in Threads, NEW k \in Slots, Free(t, k) PROVE TInv'
  BY <1>4, FreeKeeps
<1>5. ASSUME NEW t \in Threads, FreeCount(t) PROVE TInv'
  BY <1>5, FreeCountKeeps
<1>6. ASSUME NEW t \in Threads, NEW k \in Slots, SetValue(t, k) PROVE TInv'
  BY <1>0, <1>6, QuietStep DEF SetValue, counted
<1>7. ASSUME NEW t \in Threads, NEW k \in Slots, Destructor(t, k) PROVE TInv'
  BY <1>0, <1>7, QuietStep DEF Destructor, Idle, In, Move, counted, TPCs
<1>8. ASSUME NEW t \in Threads, InitRequest(t) PROVE TInv'
  BY <1>0, <1>8, QuietStep DEF InitRequest, tlsVars, counted
<1>9. ASSUME NEW t \in Threads, InitSection(t) PROVE TInv'
  BY <1>0, <1>9, QuietStep DEF InitSection, In, Move, counted, TPCs
<1>10. ASSUME NEW t \in Threads, InitRelease(t) PROVE TInv'
  BY <1>0, <1>10, QuietStep DEF InitRelease, In, Move, counted, TPCs
<1>11. ASSUME NEW t \in Threads, StoreDestructor(t) PROVE TInv'
  BY <1>0, <1>11, QuietStep DEF StoreDestructor, In, Move, counted, TPCs
<1>12. ASSUME NEW t \in Threads, ThreadEnd(t) PROVE TInv'
  BY <1>0, <1>12, QuietStep DEF ThreadEnd, counted
<1>13. CASE ExitProcess \/ \E t \in Threads : KillThread(t)
  BY <1>0, <1>13, QuietStep DEF ExitProcess, KillThread, tlsVars, counted
<1> QED
  BY <1>1, <1>2, <1>3, <1>4, <1>5, <1>6, <1>7, <1>8, <1>9, <1>10, <1>11, <1>12, <1>13
  DEF TLSNext

\* Nothing is counted, taken or scanned at first.
LEMMA TLSInitHolds == TLSInit => TInv
<1> SUFFICES ASSUME TLSInit PROVE TInv
  OBVIOUS
<1> USE TLSAssumption
<1>1. Shape /\ ~gaveUp
  BY DEF TLSInit, Shape, TPCs, Slots
<1>2. gauBitmap = {} /\ Pending = {} /\ gcTLSAllocated = 0
  BY DEF TLSInit, Pending
<1>3. \A j \in Slots : Scanning(j) = {} /\ Taken(j) = {}
  BY DEF TLSInit, Scanning, Taken
<1> QED
  <2>1. Room
    <3>1. \A j \in Slots : 0 + 0 <= Max - j
      BY DEF Slots
    <3> QED
      BY <1>3, <3>1, FS_EmptySet DEF Room
  <2> QED
    BY <1>1, <1>2, <2>1, FS_EmptySet DEF TInv

\* The counting invariant holds throughout.
LEMMA TInvHolds == TLSSpec => []TInv
BY TLSInitHolds, TLSStep, PTL DEF TLSSpec

\* The count of slots (tls.c:88, 164) is the bits that are set plus the calls that are
\* between the count and the bitmap, for any number of threads and slots.
THEOREM SlotsAccountedHolds == TLSSpec => []SlotsAccounted
<1>1. TInv => SlotsAccounted
  BY DEF TInv, SlotsAccounted
<1> QED
  BY <1>1, TInvHolds, PTL

\* No call of __libc_TLSAlloc that was counted fails to find a slot in its first pass
\* over the bitmap (tls.c:98), for any number of threads and slots.
THEOREM AllocationSucceeds == TLSSpec => []NeverGivesUp
<1>1. TInv => NeverGivesUp
  BY DEF TInv, NeverGivesUp
<1> QED
  BY <1>1, TInvHolds, PTL

\* What tls.c does with smtxInit is a behaviour of the simple mutex, and so
\* implements the abstract one.
THEOREM InitMutexRefines == TLSSpec => RefinesMutex
<1>1. TLSInit => Init
  BY DEF TLSInit
<1>2. [TLSNext]_allVars => [Next]_vars
  BY DEF TLSNext, allVars, Next, Reserve, Probe, FreeCount, Free, SetValue, Destructor,
         InitRequest, InitSection, InitRelease, StoreDestructor, ThreadEnd, KillThread,
         ExitProcess
<1> QED
  BY <1>1, <1>2, Refinement, PTL DEF TLSSpec, Spec

\* What is left of the types, and fInited as the record of the registration.
Registration ==
    /\ gapfnDestructors \subseteq Slots
    /\ apvTLS \in [Threads -> SUBSET Slots]
    /\ want \in [Threads -> Slots]
    /\ missed \in BOOLEAN /\ sets \in 0 .. MaxSets /\ ends \in 0 .. MaxEnds
    /\ gaveUp \in BOOLEAN /\ fInited \in BOOLEAN
    /\ registered = IF fInited THEN 1 ELSE 0

\* Every step keeps the registration in line with fInited.
LEMMA RegistrationStep ==
    ASSUME TInv, Registration, [TLSNext]_allVars
    PROVE  Registration'
<1> USE TLSAssumption DEF Registration
<1>0. at \in [Threads -> Slots] /\ keys \subseteq Slots /\ 0 \in Slots
  BY DEF TInv, Shape, Slots
<1>1. CASE UNCHANGED allVars
  BY <1>1 DEF allVars, tlsVars
<1>2. ASSUME NEW t \in Threads, Reserve(t) PROVE Registration'
  BY <1>2 DEF Reserve
<1>3. ASSUME NEW t \in Threads, Probe(t) PROVE Registration'
  <2>1. gaveUp' \in BOOLEAN
    BY <1>3 DEF Probe
  <2> QED
    BY <1>0, <1>3, <2>1 DEF Probe
<1>4. ASSUME NEW t \in Threads, NEW k \in Slots, Free(t, k) PROVE Registration'
  BY <1>4 DEF Free
<1>5. ASSUME NEW t \in Threads, FreeCount(t) PROVE Registration'
  BY <1>5 DEF FreeCount
<1>6. ASSUME NEW t \in Threads, NEW k \in Slots, SetValue(t, k) PROVE Registration'
  BY <1>6 DEF SetValue
<1>7. ASSUME NEW t \in Threads, NEW k \in Slots, Destructor(t, k) PROVE Registration'
  BY <1>7 DEF Destructor
<1>8. ASSUME NEW t \in Threads, InitRequest(t) PROVE Registration'
  BY <1>8 DEF InitRequest, tlsVars
<1>9. ASSUME NEW t \in Threads, InitSection(t) PROVE Registration'
  BY <1>9 DEF InitSection
<1>10. ASSUME NEW t \in Threads, InitRelease(t) PROVE Registration'
  BY <1>10 DEF InitRelease
<1>11. ASSUME NEW t \in Threads, StoreDestructor(t) PROVE Registration'
  BY <1>0, <1>11 DEF StoreDestructor
<1>12. ASSUME NEW t \in Threads, ThreadEnd(t) PROVE Registration'
  BY <1>12 DEF ThreadEnd
<1>13. CASE ExitProcess \/ \E t \in Threads : KillThread(t)
  BY <1>13 DEF ExitProcess, KillThread, tlsVars
<1> QED
  BY <1>1, <1>2, <1>3, <1>4, <1>5, <1>6, <1>7, <1>8, <1>9, <1>10, <1>11, <1>12, <1>13
  DEF TLSNext

\* The callback of tls.c:241-249 is registered at most once however many threads give
\* their slots a first destructor at a time, and every variable keeps its type.
THEOREM RegisteredOnceHolds == TLSSpec => []RegisteredOnce
<1>1. TLSInit => Init /\ Registration
  <2> SUFFICES ASSUME TLSInit PROVE Init /\ Registration
    OBVIOUS
  <2>1. 0 \in Slots /\ 0 \in 0 .. MaxSets /\ 0 \in 0 .. MaxEnds
    BY TLSAssumption DEF Slots
  <2> QED
    BY <2>1 DEF TLSInit, Registration
<1>2. [TLSNext]_allVars => [Next]_vars
  BY DEF TLSNext, allVars, Next, Reserve, Probe, FreeCount, Free, SetValue, Destructor,
         InitRequest, InitSection, InitRelease, StoreDestructor, ThreadEnd, KillThread,
         ExitProcess
<1>3. TLSSpec => []TypeOK
  BY <1>1, <1>2, ByteTellsOwnerHolds, PTL DEF TLSSpec, Spec
<1>4. TInv /\ Registration /\ TypeOK => RegisteredOnce
  <2> SUFFICES ASSUME TInv, Registration, TypeOK PROVE RegisteredOnce
    OBVIOUS
  <2>1. registered \in Nat /\ registered <= 1
    BY DEF Registration
  <2>2. keys \subseteq Slots
    BY DEF TInv, Shape
  <2> QED
    BY <2>1, <2>2 DEF TInv, Shape, Registration, RegisteredOnce, TLSTypeOK
<1> QED
  BY <1>1, <1>3, <1>4, TInvHolds, RegistrationStep, PTL DEF TLSSpec
=============================================================================
