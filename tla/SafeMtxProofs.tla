---------------------------- MODULE SafeMtxProofs ----------------------------
(***************************************************************************)
(* Proofs about the signal-safe mutex, for every set of threads and handles *)
(* and any number of kills.                                                 *)
(***************************************************************************)
EXTENDS SafeMtx, TLAPS

\* pmtx->hmtx is the handle the mutex was created with, and who holds the mutex
\* owns that handle.
Ownership ==
    /\ hmtx = FirstHandle
    /\ owner[FirstHandle] # Closed
    /\ \A t \in Threads : lh[t] = FirstHandle
    /\ \A t \in Threads : pc[t] \in {"got", "held"} => owner[FirstHandle] = t

\* The parts of the type invariant that need no counting of sections
Types ==
    /\ owner \in [Handles -> Threads \union {None, Died, Closed}]
    /\ lh \in [Threads -> Handles]
    /\ cOwnerDied \in [Threads -> 0..MaxOwnerDied]
    /\ last \subseteq Threads /\ elapsed \subseteq Threads /\ inExit \subseteq Threads
    /\ panics \subseteq {"timeout", "owner died", "release failed"}
    /\ kills \in 0..MaxKills

\* The parts about the program counter and the sections
Sections ==
    /\ pc \in [Threads -> PCs]
    /\ nest \in [Threads -> Nat]
    /\ HeldIsUnkillable

\* A thread whose cOwnerDied comes to zero panics.
Tries == \A t \in Threads : pc[t] # "dead" => cOwnerDied[t] > 0

\* The inductive invariant
IInv == Types /\ Sections /\ Tries /\ Ownership

LEMMA Labels ==
    /\ "idle" \in PCs /\ "try" \in PCs /\ "wait" \in PCs /\ "got" \in PCs
    /\ "failed" \in PCs /\ "died" \in PCs /\ "held" \in PCs /\ "dead" \in PCs
    /\ "dead" \notin Inside /\ "dead" \notin Outside
    /\ \A l \in Inside : l \notin Outside
BY DEF PCs, Inside, Outside

LEMMA Bounds == MaxOwnerDied \in 0..MaxOwnerDied /\ MaxOwnerDied > 0 /\ MaxKills \in Nat
BY BoundAssumption

LEMMA InitIInv == Init => IInv
<1> SUFFICES ASSUME Init PROVE IInv
  OBVIOUS
<1>1. Types
  BY HandleAssumption, BoundAssumption DEF Init, Types
<1>2. Sections
  BY Labels DEF Init, Sections, HeldIsUnkillable, Inside, Outside
<1>3. Ownership
  BY HandleAssumption, SpecialAssumption DEF Init, Ownership
<1>4. Tries
  BY BoundAssumption DEF Init, Tries
<1> QED
  BY <1>1, <1>2, <1>3, <1>4 DEF IInv

\* A step of one thread to a label on the other side of a section keeps Sections
\* if it enters or leaves the section, ...
LEMMA EnterSection ==
    ASSUME NEW t \in Threads, Sections, pc[t] \in Outside, NEW l \in Inside,
           Goto(t, l), EnterMustComplete(t)
    PROVE  Sections'
<1>1. pc' \in [Threads -> PCs] /\ pc'[t] = l /\ \A u \in Threads : u # t => pc'[u] = pc[u]
  BY DEF Goto, Sections, PCs
<1>2. nest[t] = 0
  BY DEF Sections, HeldIsUnkillable
<1>3. nest' \in [Threads -> Nat] /\ nest'[t] = 1 /\ \A u \in Threads : u # t => nest'[u] = nest[u]
  BY <1>2 DEF EnterMustComplete, Sections
<1>4. HeldIsUnkillable'
  BY <1>1, <1>3, Labels DEF Sections, HeldIsUnkillable
<1> QED
  BY <1>1, <1>3, <1>4 DEF Sections

LEMMA LeaveSection ==
    ASSUME NEW t \in Threads, Sections, pc[t] \in Inside, NEW l \in Outside,
           Goto(t, l), ExitMustComplete(t)
    PROVE  Sections'
<1>1. pc' \in [Threads -> PCs] /\ pc'[t] = l /\ \A u \in Threads : u # t => pc'[u] = pc[u]
  BY DEF Goto, Sections, PCs
<1>2. nest[t] = 1
  BY DEF Sections, HeldIsUnkillable
<1>3. nest' \in [Threads -> Nat] /\ nest'[t] = 0 /\ \A u \in Threads : u # t => nest'[u] = nest[u]
  BY <1>2 DEF ExitMustComplete, Sections
<1>4. HeldIsUnkillable'
  BY <1>1, <1>3, Labels DEF Sections, HeldIsUnkillable
<1> QED
  BY <1>1, <1>3, <1>4 DEF Sections

\* ... and a step that stays on its side, or ends the thread, if it does neither.
LEMMA StayInSection ==
    ASSUME NEW t \in Threads, Sections, NEW l \in PCs, Goto(t, l), UNCHANGED nest,
           \/ pc[t] \in Inside /\ l \in Inside
           \/ pc[t] \in Outside /\ l \in Outside
           \/ l = "dead"
    PROVE  Sections'
<1>1. pc' \in [Threads -> PCs] /\ pc'[t] = l /\ \A u \in Threads : u # t => pc'[u] = pc[u]
  BY DEF Goto, Sections
<1>2. HeldIsUnkillable'
  BY <1>1, Labels DEF Sections, HeldIsUnkillable
<1> QED
  BY <1>1, <1>2 DEF Sections

LEMMA EndsTyped ==
    ASSUME NEW t \in Threads, Types, Ownership, Sections, Ends(t)
    PROVE  /\ owner' \in [Handles -> Threads \union {None, Died, Closed}]
           /\ owner'[FirstHandle] # Closed
           /\ \A u \in Threads : pc'[u] \in {"got", "held"} => owner'[FirstHandle] = u
BY HandleAssumption, SpecialAssumption DEF Ends, Goto, Types, Ownership, Sections

LEMMA NextIInv == IInv /\ [Next]_vars => IInv'
<1> SUFFICES ASSUME IInv, [Next]_vars PROVE IInv'
  OBVIOUS
<1>inv. Types /\ Sections /\ Tries /\ Ownership
  BY DEF IInv
<1>1. ASSUME NEW t \in Threads, Lock(t) PROVE IInv'
  <2>1. Types'
    BY <1>inv, <1>1, HandleAssumption, SpecialAssumption, BoundAssumption
    DEF Types, Ownership, Lock
  <2>2. Sections'
    BY <1>inv, <1>1, EnterSection DEF Lock, Inside, Outside, PCs
  <2>3. Ownership'
    BY <1>inv, <1>1, HandleAssumption, SpecialAssumption
    DEF Types, Sections, Ownership, Lock, Goto
  <2>4. Tries'
    BY <1>inv, <1>1, BoundAssumption DEF Types, Sections, Tries, Lock, Goto
  <2> QED
    BY <2>1, <2>2, <2>3, <2>4 DEF IInv
<1>2. ASSUME NEW t \in Threads, TryOk(t) PROVE IInv'
  <2>1. Types'
    BY <1>inv, <1>2, HandleAssumption, SpecialAssumption, BoundAssumption
    DEF Types, Ownership, TryOk
  <2>2. Sections'
    BY <1>inv, <1>2, StayInSection DEF TryOk, Inside, Outside, PCs
  <2>3. Ownership'
    BY <1>inv, <1>2, HandleAssumption, SpecialAssumption
    DEF Types, Sections, Ownership, TryOk, Goto
  <2>4. Tries'
    BY <1>inv, <1>2, BoundAssumption DEF Types, Sections, Tries, TryOk, Goto
  <2> QED
    BY <2>1, <2>2, <2>3, <2>4 DEF IInv
<1>3. ASSUME NEW t \in Threads, TryFails(t) PROVE IInv'
  <2>a. cOwnerDied' = [cOwnerDied EXCEPT ![t] = MaxOwnerDied]
    BY <1>3 DEF TryFails
  <2>b. cOwnerDied \in [Threads -> 0..MaxOwnerDied]
    BY <1>inv DEF Types
  <2>0. /\ cOwnerDied' \in [Threads -> 0..MaxOwnerDied]
        /\ cOwnerDied'[t] = MaxOwnerDied
        /\ \A u \in Threads : u # t => cOwnerDied'[u] = cOwnerDied[u]
    BY <2>a, <2>b, Bounds
  <2>1. Types'
    BY <1>inv, <1>3, <2>0, HandleAssumption, SpecialAssumption, BoundAssumption
    DEF Types, Ownership, TryFails
  <2>2. Sections'
    BY <1>inv, <1>3, LeaveSection DEF TryFails, Inside, Outside, PCs
  <2>3. Ownership'
    BY <1>inv, <1>3, <2>0, HandleAssumption, SpecialAssumption
    DEF Types, Sections, Ownership, TryFails, Goto
  <2>4. Tries'
    BY <1>inv, <1>3, <2>0, Bounds DEF Sections, Tries, TryFails, Goto
  <2> QED
    BY <2>1, <2>2, <2>3, <2>4 DEF IInv
<1>4. ASSUME NEW t \in Threads, WaitOk(t) PROVE IInv'
  <2>1. Types'
    BY <1>inv, <1>4, HandleAssumption, SpecialAssumption, BoundAssumption
    DEF Types, Ownership, WaitOk
  <2>2. Sections'
    BY <1>inv, <1>4, StayInSection DEF WaitOk, Inside, Outside, PCs
  <2>3. Ownership'
    BY <1>inv, <1>4, HandleAssumption, SpecialAssumption
    DEF Types, Sections, Ownership, WaitOk, Goto
  <2>4. Tries'
    BY <1>inv, <1>4, BoundAssumption DEF Types, Sections, Tries, WaitOk, Goto
  <2> QED
    BY <2>1, <2>2, <2>3, <2>4 DEF IInv
<1>5. ASSUME NEW t \in Threads, GotEnter(t) PROVE IInv'
  <2>1. Types'
    BY <1>inv, <1>5, HandleAssumption, SpecialAssumption, BoundAssumption
    DEF Types, Ownership, GotEnter
  <2>2. Sections'
    BY <1>inv, <1>5, EnterSection DEF GotEnter, Inside, Outside, PCs
  <2>3. Ownership'
    BY <1>inv, <1>5, HandleAssumption, SpecialAssumption
    DEF Types, Sections, Ownership, GotEnter, Goto
  <2>4. Tries'
    BY <1>inv, <1>5, BoundAssumption DEF Types, Sections, Tries, GotEnter, Goto
  <2> QED
    BY <2>1, <2>2, <2>3, <2>4 DEF IInv
<1>6. ASSUME NEW t \in Threads, WaitFails(t) PROVE IInv'
  <2>1. Types'
    BY <1>inv, <1>6, HandleAssumption, SpecialAssumption, BoundAssumption
    DEF Types, Ownership, WaitFails
  <2>2. Sections'
    BY <1>inv, <1>6, EnterSection DEF WaitFails, Inside, Outside, PCs
  <2>3. Ownership'
    BY <1>inv, <1>6, HandleAssumption, SpecialAssumption
    DEF Types, Sections, Ownership, WaitFails, Goto
  <2>4. Tries'
    BY <1>inv, <1>6, BoundAssumption DEF Types, Sections, Tries, WaitFails, Goto
  <2> QED
    BY <2>1, <2>2, <2>3, <2>4 DEF IInv
<1>7. ASSUME NEW t \in Threads, Failed(t) PROVE IInv'
  <2>1. Types'
    BY <1>inv, <1>7, EndsTyped, HandleAssumption, SpecialAssumption, BoundAssumption
    DEF Types, Ownership, Failed, Again, Panic
  <2>2. Sections'
    BY <1>inv, <1>7, LeaveSection, StayInSection, Labels DEF Failed, Again, Panic, Ends, Inside, Outside, PCs
  <2>3. Ownership'
    BY <1>inv, <1>7, EndsTyped, HandleAssumption, SpecialAssumption
    DEF Types, Sections, Ownership, Failed, Again, Panic, Goto
  <2>4. Tries'
    BY <1>inv, <1>7, BoundAssumption DEF Types, Sections, Tries, Failed, Again, Panic, Ends, Goto
  <2> QED
    BY <2>1, <2>2, <2>3, <2>4 DEF IInv
<1>8. ASSUME NEW t \in Threads, Remedy(t) PROVE IInv'
  <2>a. cOwnerDied' = [cOwnerDied EXCEPT ![t] = cOwnerDied[t] - 1]
    BY <1>8 DEF Remedy
  <2>b. cOwnerDied \in [Threads -> 0..MaxOwnerDied]
    BY <1>inv DEF Types
  <2>c. cOwnerDied[t] > 0
    BY <1>inv, <1>8 DEF Tries, Remedy
  <2>d. cOwnerDied[t] - 1 \in 0..MaxOwnerDied
    BY <2>b, <2>c, BoundAssumption
  <2>0. /\ cOwnerDied' \in [Threads -> 0..MaxOwnerDied]
        /\ cOwnerDied'[t] = cOwnerDied[t] - 1
        /\ \A u \in Threads : u # t => cOwnerDied'[u] = cOwnerDied[u]
    BY <2>a, <2>b, <2>d
  <2>e. CASE cOwnerDied[t] > 1
    <3>1. PICK hmtxNew \in Handles :
              /\ owner[hmtxNew] = Closed
              /\ IF hmtx = hmtxNew
                 THEN /\ hmtx' = lh[t]
                      /\ owner' = [owner EXCEPT ![hmtxNew] = t]
                      /\ Goto(t, "held")
                      /\ UNCHANGED <<lh, last, nest, panics>>
                 ELSE /\ lh' = [lh EXCEPT ![t] = hmtx]
                      /\ Again(t)
                      /\ UNCHANGED <<hmtx, owner, panics>>
      BY <1>8, <2>e DEF Remedy
    <3>2. /\ lh' = [lh EXCEPT ![t] = hmtx] /\ Again(t) /\ UNCHANGED <<hmtx, owner, panics>>
          /\ UNCHANGED <<elapsed, inExit, kills>> /\ pc[t] = "died"
      BY <1>inv, <1>8, <3>1 DEF Ownership, Remedy
    <3>3. Types'
      BY <1>inv, <3>2, <2>0, HandleAssumption DEF Types, Ownership, Again
    <3>4. Sections'
      BY <1>inv, <3>2, LeaveSection DEF Again, Inside, Outside
    <3>5. Ownership'
      BY <1>inv, <3>2 DEF Types, Sections, Ownership, Again, Goto
    <3>6. cOwnerDied'[t] > 0
      BY <2>0, <2>b, <2>e
    <3>7. Tries'
      BY <1>inv, <3>2, <3>6, <2>0 DEF Sections, Tries, Again, Goto
    <3> QED
      BY <3>3, <3>4, <3>5, <3>7 DEF IInv
  <2>f. CASE ~(cOwnerDied[t] > 1)
    <3>1. /\ Panic(t, "owner died") /\ UNCHANGED <<hmtx, lh, last>>
          /\ UNCHANGED <<elapsed, inExit, kills>>
      BY <1>8, <2>f DEF Remedy
    <3>2. Ends(t) /\ UNCHANGED nest /\ panics' = panics \union {"owner died"} /\ Goto(t, "dead")
      BY <3>1 DEF Panic, Ends
    <3>3. Types'
      BY <1>inv, <3>1, <3>2, <2>0, EndsTyped DEF Types
    <3>4. Sections'
      BY <1>inv, <3>2, StayInSection, Labels
    <3>5. Ownership'
      BY <1>inv, <3>1, <3>2, EndsTyped DEF Ownership
    <3>6. Tries'
      BY <1>inv, <3>2, <2>0 DEF Sections, Tries, Goto
    <3> QED
      BY <3>3, <3>4, <3>5, <3>6 DEF IInv
  <2> QED
    BY <2>e, <2>f
<1>9. ASSUME NEW t \in Threads, Unlock(t) PROVE IInv'
  <2>1. Types'
    BY <1>inv, <1>9, EndsTyped, HandleAssumption, SpecialAssumption, BoundAssumption
    DEF Types, Ownership, Unlock, Panic
  <2>2. Sections'
    BY <1>inv, <1>9, LeaveSection, StayInSection, Labels DEF Unlock, Panic, Ends, Inside, Outside, PCs
  <2>3. Ownership'
    BY <1>inv, <1>9, EndsTyped, HandleAssumption, SpecialAssumption
    DEF Types, Sections, Ownership, Unlock, Panic, Goto
  <2>4. Tries'
    BY <1>inv, <1>9, BoundAssumption DEF Types, Sections, Tries, Unlock, Panic, Ends, Goto
  <2> QED
    BY <2>1, <2>2, <2>3, <2>4 DEF IInv
<1>10. ASSUME NEW t \in Threads, Clock(t) PROVE IInv'
  <2>1. Types'
    BY <1>inv, <1>10, HandleAssumption, SpecialAssumption, BoundAssumption
    DEF Types, Ownership, Clock
  <2>2. Sections'
    BY <1>inv, <1>10 DEF Clock, Sections, HeldIsUnkillable
  <2>3. Ownership'
    BY <1>inv, <1>10, HandleAssumption, SpecialAssumption
    DEF Types, Sections, Ownership, Clock
  <2>4. Tries'
    BY <1>inv, <1>10, BoundAssumption DEF Types, Sections, Tries, Clock
  <2> QED
    BY <2>1, <2>2, <2>3, <2>4 DEF IInv
<1>11. ASSUME NEW t \in Threads, StartExit(t) PROVE IInv'
  <2>1. Types'
    BY <1>inv, <1>11, HandleAssumption, SpecialAssumption, BoundAssumption
    DEF Types, Ownership, StartExit
  <2>2. Sections'
    BY <1>inv, <1>11 DEF StartExit, Sections, HeldIsUnkillable
  <2>3. Ownership'
    BY <1>inv, <1>11, HandleAssumption, SpecialAssumption
    DEF Types, Sections, Ownership, StartExit
  <2>4. Tries'
    BY <1>inv, <1>11, BoundAssumption DEF Types, Sections, Tries, StartExit
  <2> QED
    BY <2>1, <2>2, <2>3, <2>4 DEF IInv
<1>12. ASSUME NEW t \in Threads, Kill(t) PROVE IInv'
  <2>a. kills \in 0..MaxKills /\ kills < MaxKills /\ kills' = kills + 1
    BY <1>inv, <1>12 DEF Types, Kill
  <2>0. kills' \in 0..MaxKills
    BY <2>a, Bounds
  <2>1. Types'
    BY <1>inv, <1>12, <2>0, EndsTyped, HandleAssumption, SpecialAssumption, BoundAssumption
    DEF Types, Ownership, Kill
  <2>2. Sections'
    BY <1>inv, <1>12, StayInSection, Labels DEF Kill, Ends, Inside, Outside, PCs
  <2>3. Ownership'
    BY <1>inv, <1>12, <2>0, EndsTyped, HandleAssumption, SpecialAssumption
    DEF Types, Sections, Ownership, Kill, Goto
  <2>4. Tries'
    BY <1>inv, <1>12, BoundAssumption DEF Types, Sections, Tries, Kill, Ends, Goto
  <2> QED
    BY <2>1, <2>2, <2>3, <2>4 DEF IInv
<1>13. CASE UNCHANGED vars
  BY <1>inv, <1>13 DEF IInv, Types, Sections, HeldIsUnkillable, Tries, Ownership, vars
<1> QED
  BY <1>1, <1>2, <1>3, <1>4, <1>5, <1>6, <1>7, <1>8, <1>9, <1>10, <1>11, <1>12, <1>13 DEF Next, Step

LEMMA Invariance == Spec => []IInv
BY InitIInv, NextIInv, PTL DEF Spec

\* The type invariant of the signal-safe mutex (safesems.c:157-291).
THEOREM TypeCorrect == Spec => []TypeOK
<1>1. IInv => TypeOK
  BY HandleAssumption DEF IInv, Types, Sections, Ownership, TypeOK
<1> QED
  BY <1>1, Invariance, PTL

\* At most one thread holds the mutex, however many owners die
\* (safesems.c:157-291).
THEOREM MutualExclusionHolds == Spec => []MutualExclusion
<1>1. IInv => MutualExclusion
  BY DEF IInv, Ownership, MutualExclusion
<1> QED
  BY <1>1, Invariance, PTL

\* The owner is in one must-complete section and a thread that returned is in
\* none (safesems.c:182-213, 288).
THEOREM HeldIsUnkillableHolds == Spec => []HeldIsUnkillable
<1>1. IInv => HeldIsUnkillable
  BY DEF IInv, Sections
<1> QED
  BY <1>1, Invariance, PTL

\* The mutex is never replaced: the compare-and-exchange of safesems.c:231 fails
\* whoever dies, so a dead owner is never remedied.
THEOREM NeverReplaced == Spec => [](hmtx = FirstHandle)
<1>1. IInv => hmtx = FirstHandle
  BY DEF IInv, Ownership
<1> QED
  BY <1>1, Invariance, PTL
=============================================================================
