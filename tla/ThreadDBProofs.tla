--------------------------- MODULE ThreadDBProofs ---------------------------
(***************************************************************************)
(* The thread database for any number of threads, ids and structures.  The  *)
(* types hold in every state (Base), the rest until a dereference goes on    *)
(* without the mutex, which is what loose says (Strict).  The argument      *)
(* counts references: those that lookups gave out, and the one of the       *)
(* thread a structure belongs to, are never more than cRefs (Counts).  A    *)
(* thread that takes the last one off has the structure alone; Listed says  *)
(* where a structure that was put on a list is found, Apart and Forgotten    *)
(* that nobody else has one that was not: an interrupted registration and   *)
(* the wrapper's argument after a fork leave such structures.  Life says    *)
(* that a thread is in one operation at a time, and that no two threads     *)
(* have the same id.                                                        *)
(***************************************************************************)
EXTENDS ThreadDB, FiniteSetTheorems, TLAPS

\* The types of the variables, one by one.
FunTypes ==
    /\ state \in [Threads -> States]
    /\ tid \in [Threads -> Tids \union {None}]
    /\ pThrd \in [Threads -> Structs \union {None}]
    /\ gpTLS \in [Threads -> Structs \union {None}]
    /\ ref \in [Threads -> Structs \union {None}]
    /\ doomed \in [Threads -> Structs \union {None}]
    /\ bare \in [Threads -> Structs \union {None}]
    /\ cRefs \in [Structs -> Nat]
    /\ stid \in [Structs -> Tids \union {None}]
    /\ used \subseteq Structs /\ known \subseteq Structs /\ crashed \subseteq Structs
    /\ gpThrdDB \subseteq Structs /\ zombies \subseteq Structs

Bounds ==
    /\ starts \in 0 .. MaxStarts /\ lookups \in 0 .. MaxLookups /\ forks \in 0 .. MaxForks
    /\ interrupts \in 0 .. MaxInterrupts

\* No count is higher than the lookups that were, and a thread that starts has an argument.
Limits ==
    /\ \A s \in Structs : cRefs[s] <= lookups + 1
    /\ \A t \in Threads : state[t] = "starting" => pThrd[t] # None

Base == FunTypes /\ Bounds /\ Limits

\* The thread a structure belongs to, until it dereferences it; the argument of a
\* threadWrapper that forked, in the child.
Owns(t, s) ==
    \/ state[t] = "starting" /\ pThrd[t] = s
    \/ state[t] \in {"run", "ending"} /\ gpTLS[t] = s
Stale(t, s) == state[t] \in {"run", "ending"} /\ pThrd[t] = s /\ s \notin {None, gpTLS[t]}

\* Where a thread may be with what, and the ids.
Life ==
    \A t \in Threads :
        /\ state[t] = "none" <=> tid[t] = None
        /\ state[t] \in {"none", "new", "starting"} => gpTLS[t] = None
        /\ state[t] \in {"none", "new"} => pThrd[t] = None
        /\ state[t] \in {"run", "ending"} => gpTLS[t] # None /\ stid[gpTLS[t]] = tid[t]
        /\ ref[t] # None => state[t] = "run" /\ doomed[t] = None
        /\ doomed[t] # None => state[t] \in {"run", "leaving"}
        /\ bare[t] = None
        /\ \A u \in Threads : tid[u] = tid[t] /\ tid[t] # None => u = t

\* The lists hold structures that were put on one and are in use, one per thread id among
\* the living, and what lookups returned.
Listed ==
    /\ gpThrdDB \union zombies \subseteq known
    /\ known \subseteq used
    /\ gpThrdDB \intersect zombies = {}
    /\ \A p, q \in gpThrdDB : stid[p] = stid[q] => p = q
    /\ \A t \in Threads :
        /\ state[t] \in {"run", "ending"} /\ gpTLS[t] \in known => gpTLS[t] \in gpThrdDB
        /\ state[t] = "starting" => pThrd[t] \notin known
        /\ ref[t] # None => ref[t] \in gpThrdDB \union zombies

\* A structure belongs to one thread, and nobody disposes of it before that thread lets go
\* of it.
Apart ==
    \A t \in Threads, s \in Structs : Owns(t, s) =>
        /\ s \in used
        /\ \A u \in Threads : (Owns(u, s) => u = t) /\ doomed[u] # s

\* The argument of a forked threadWrapper is on no list of the child, and nobody else's.
Forgotten ==
    \A t \in Threads, s \in Structs : Stale(t, s) =>
        /\ s \in used /\ s \notin known /\ stid[s] # None
        /\ \A u \in Threads : ~Owns(u, s) /\ doomed[u] # s /\ (Stale(u, s) => u = t)

\* A structure that is about to be disposed of is on no list, and one thread's.
Doomed ==
    \A t \in Threads : doomed[t] # None =>
        /\ doomed[t] \in used /\ doomed[t] \notin gpThrdDB \union zombies
        /\ \A u \in Threads : doomed[u] = doomed[t] => u = t

\* The threads that have a reference to s from a lookup, and whether s belongs to a
\* thread.
Refs(s) == {t \in Threads : ref[t] = s}
Owned(s) == \E t \in Threads : Owns(t, s)

CountAt(s) ==
    /\ Cardinality(Refs(s)) <= cRefs[s]
    /\ Owned(s) => Cardinality(Refs(s)) < cRefs[s]
Counts == \A s \in Structs : CountAt(s)

\* A walk that runs past the end of a list has to do with a structure that is on none.
Walks == crashed # {} => ~(crashed \subseteq known)

Strict == Life /\ Listed /\ Apart /\ Forgotten /\ Doomed /\ Counts /\ Walks

DBInv == Base /\ loose \in BOOLEAN /\ (~loose => Strict)

-----------------------------------------------------------------------------
(* Counting                                                                 *)

\* Sets of threads are finite.
LEMMA SubThreads ==
    ASSUME NEW S, S \subseteq Threads
    PROVE  /\ IsFiniteSet(S) /\ Cardinality(S) \in Nat
           /\ \A T : T \subseteq S => Cardinality(T) \in Nat /\ Cardinality(T) <= Cardinality(S)
<1>1. IsFiniteSet(S)
  BY ThreadAssumption, FS_Subset
<1> QED
  BY <1>1, FS_Subset, FS_CardinalityType

\* A structure whose count, references and owner a step leaves alone, or that loses
\* some of them, stays accounted for.
LEMMA QuietCount ==
    ASSUME NEW s \in Structs, FunTypes, Counts, cRefs'[s] = cRefs[s],
           Refs(s)' \subseteq Refs(s), Owned(s)' => Owned(s)
    PROVE  CountAt(s)'
<1>1. /\ Cardinality(Refs(s)) \in Nat /\ Cardinality(Refs(s)') \in Nat
      /\ Cardinality(Refs(s)') <= Cardinality(Refs(s))
  BY SubThreads DEF Refs
<1>2. cRefs[s] \in Nat /\ CountAt(s)
  BY DEF FunTypes, Counts
<1> QED
  BY <1>1, <1>2 DEF CountAt

\* A structure nobody has a reference to, but perhaps a thread of its own.
LEMMA FirstCount ==
    ASSUME NEW s \in Structs, cRefs'[s] \in Nat, Refs(s)' = {}, cRefs'[s] = 0 => ~Owned(s)'
    PROVE  CountAt(s)'
<1>1. Cardinality(Refs(s)') = 0
  BY FS_EmptySet
<1> QED
  BY <1>1 DEF CountAt

\* A thread that has a reference, and the last one, has the structure alone.
LEMMA LastReference ==
    ASSUME FunTypes, Counts, NEW t \in Threads, NEW s \in Structs, ref[t] = s, cRefs[s] <= 1
    PROVE  ~Owned(s) /\ Refs(s) = {t}
<1>1. IsFiniteSet(Refs(s)) /\ Cardinality(Refs(s)) \in Nat /\ t \in Refs(s)
  BY SubThreads DEF Refs
<1>2. /\ IsFiniteSet(Refs(s) \ {t})
      /\ Cardinality(Refs(s) \ {t}) = Cardinality(Refs(s)) - 1
  BY <1>1, FS_RemoveElement
<1>3. cRefs[s] \in Nat /\ Cardinality(Refs(s) \ {t}) \in Nat
  BY <1>2, FS_CardinalityType DEF FunTypes
<1>4. Cardinality(Refs(s) \ {t}) = 0 /\ ~Owned(s)
  BY <1>1, <1>2, <1>3 DEF Counts, CountAt
<1>5. Refs(s) \ {t} = {}
  BY <1>2, <1>4, FS_EmptySet
<1> QED
  BY <1>1, <1>4, <1>5

\* So has the thread the structure belongs to.
LEMMA LastOwner ==
    ASSUME FunTypes, Counts, NEW s \in Structs, Owned(s), cRefs[s] <= 1
    PROVE  Refs(s) = {}
<1>1. IsFiniteSet(Refs(s)) /\ Cardinality(Refs(s)) \in Nat
  BY SubThreads DEF Refs
<1>2. cRefs[s] \in Nat
  BY DEF FunTypes
<1>3. Cardinality(Refs(s)) = 0
  BY <1>1, <1>2 DEF Counts, CountAt
<1> QED
  BY <1>1, <1>3, FS_EmptySet

-----------------------------------------------------------------------------
(* The types                                                                *)

\* A dereference, with the mutex or without.
LEMMA DereferenceTypes ==
    ASSUME Base, NEW t \in Threads, NEW s \in Structs, Dereference(t, s)
    PROVE  /\ cRefs' \in [Structs -> Nat] /\ \A p \in Structs : cRefs'[p] <= cRefs[p]
           /\ doomed' \in [Threads -> Structs \union {None}]
           /\ bare' \in [Threads -> Structs \union {None}]
           /\ gpThrdDB' \subseteq Structs /\ zombies' \subseteq Structs
           /\ crashed' \subseteq Structs /\ interrupts' \in 0 .. MaxInterrupts
<1> USE ThreadAssumption DEF Base, FunTypes
<1>1. cRefs[s] \in Nat
  OBVIOUS
<1>2. cRefs' = [cRefs EXCEPT ![s] = IF cRefs[s] > 0 THEN cRefs[s] - 1 ELSE 0]
  BY DEF Dereference, Set
<1>3. cRefs' \in [Structs -> Nat] /\ \A p \in Structs : cRefs'[p] <= cRefs[p]
  BY <1>1, <1>2
<1>4. /\ gpThrdDB' \subseteq gpThrdDB /\ zombies' \subseteq zombies
      /\ crashed' \in {crashed, {s, gpTLS[t]} \ {None}}
      /\ doomed' \in {doomed, [doomed EXCEPT ![t] = s]}
      /\ bare' \in {bare, [bare EXCEPT ![t] = s]}
  BY DEF Dereference, Unlink, Set, lists, mutex
<1>5. interrupts' \in 0 .. MaxInterrupts
  BY DEF Dereference, Interrupted, mutex, Bounds
<1>6. crashed' \subseteq Structs
  BY <1>4
<1>7. doomed' \in [Threads -> Structs \union {None}] /\ bare' \in [Threads -> Structs \union {None}]
  BY <1>4
<1>8. gpThrdDB' \subseteq Structs /\ zombies' \subseteq Structs
  BY <1>4
<1> QED
  BY <1>3, <1>5, <1>6, <1>7, <1>8

\* A registration, interrupted or not.
LEMMA EnterTypes ==
    ASSUME Base, NEW t \in Threads, NEW s \in Structs, Enter(t, s, tid[t])
    PROVE  /\ gpTLS' \in [Threads -> Structs \union {None}]
           /\ stid' \in [Structs -> Tids \union {None}]
           /\ state' \in [Threads -> States] /\ state'[t] = "run"
           /\ \A u \in Threads \ {t} : state'[u] = state[u]
           /\ gpThrdDB' \subseteq Structs /\ zombies' \subseteq Structs
           /\ known' \subseteq Structs /\ interrupts' \in 0 .. MaxInterrupts
           /\ UNCHANGED <<bare, loose>>
<1> USE ThreadAssumption DEF Base, FunTypes
<1>1. /\ gpTLS' = [gpTLS EXCEPT ![t] = s] /\ stid' = [stid EXCEPT ![s] = tid[t]]
      /\ state' = [state EXCEPT ![t] = "run"]
  BY DEF Enter, Set
<1>2. /\ gpThrdDB' \subseteq gpThrdDB \union {s} /\ zombies' \subseteq zombies \union gpThrdDB
      /\ known' \subseteq known \union {s} /\ interrupts' \in 0 .. MaxInterrupts
      /\ UNCHANGED <<bare, loose>>
  BY DEF Enter, Interrupted, Bounds, mutex, lists
<1> QED
  BY <1>1, <1>2 DEF States

LEMMA CreateBase ==
    ASSUME Base, NEW t \in Threads, NEW u \in Threads, NEW s \in Structs, NEW i \in Tids,
           Create(t, u, s, i) \/ CreateFails(t, s) \/ Foreign(t, i)
    PROVE  Base'
<1> USE ThreadAssumption DEF Base
<1>1. CASE Create(t, u, s, i)
  <2>1. FunTypes'
    BY <1>1 DEF Create, Started, Set, FunTypes, States, lists, mutex
  <2>2. Bounds' /\ lookups' = lookups
    BY <1>1 DEF Create, Started, Bounds, mutex
  <2>3. Limits'
    BY <1>1, <2>2 DEF Create, Started, Set, FunTypes, Limits, Bounds
  <2> QED
    BY <2>1, <2>2, <2>3
<1>2. CASE CreateFails(t, s)
  <2>1. FunTypes'
    BY <1>2 DEF CreateFails, Set, FunTypes, lists, mutex
  <2>2. Bounds' /\ lookups' = lookups
    BY <1>2 DEF CreateFails, Interrupted, bounds, Bounds, mutex
  <2>3. Limits'
    BY <1>2, <2>2 DEF CreateFails, Set, FunTypes, Limits, Bounds
  <2> QED
    BY <2>1, <2>2, <2>3
<1>3. CASE Foreign(t, i)
  <2>1. FunTypes'
    BY <1>3 DEF Foreign, Started, Set, FunTypes, States, lists, mutex
  <2>2. Bounds' /\ lookups' = lookups
    BY <1>3 DEF Foreign, Started, Bounds, mutex
  <2>3. Limits'
    BY <1>3, <2>2 DEF Foreign, Started, Set, FunTypes, Limits, Bounds
  <2> QED
    BY <2>1, <2>2, <2>3
<1> QED
  BY <1>1, <1>2, <1>3

LEMMA EnterBase ==
    ASSUME Base, NEW t \in Threads, NEW s \in Structs, Wrapper(t) \/ CurrentSlow(t, s)
    PROVE  Base'
<1> USE ThreadAssumption DEF Base
<1>1. CASE Wrapper(t)
  <2>1. pThrd[t] \in Structs /\ Enter(t, pThrd[t], tid[t])
    BY <1>1 DEF Wrapper, FunTypes, Limits
  <2>2. UNCHANGED <<tid, pThrd, ref, doomed, used, cRefs, crashed, starts, lookups, forks>>
    BY <1>1 DEF Wrapper, bounds
  <2> QED
    BY <2>1, <2>2, EnterTypes DEF FunTypes, Bounds, Limits
<1>2. CASE CurrentSlow(t, s)
  <2>1. /\ Enter(t, s, tid[t]) /\ used' = used \union {s} /\ cRefs' = [cRefs EXCEPT ![s] = 1]
        /\ UNCHANGED <<tid, pThrd, ref, doomed, crashed, starts, lookups, forks>>
    BY <1>2 DEF CurrentSlow, bounds, Set
  <2>2. FunTypes' /\ Bounds'
    BY <2>1, EnterTypes DEF FunTypes, Bounds
  <2>3. Limits'
    BY <2>1, EnterTypes DEF FunTypes, Bounds, Limits
  <2> QED
    BY <2>2, <2>3
<1> QED
  BY <1>1, <1>2

LEMMA FoundBase ==
    ASSUME Base, NEW t \in Threads, NEW s \in gpThrdDB, Found(t, s)
    PROVE  Base'
<1> USE ThreadAssumption DEF Base
<1>1. /\ s \in Structs /\ cRefs' = [cRefs EXCEPT ![s] = cRefs[s] + 1]
      /\ ref' = [ref EXCEPT ![t] = s] /\ lookups < MaxLookups /\ lookups' = lookups + 1
      /\ UNCHANGED <<state, tid, pThrd, gpTLS, doomed, used, stid, gpThrdDB, zombies, known,
                     bare, interrupts, crashed, starts, forks>>
  BY DEF Found, FunTypes, Set, lists, mutex
<1>2. FunTypes'
  BY <1>1 DEF FunTypes
<1>3. Bounds'
  BY <1>1 DEF Bounds
<1>4. Limits'
  BY <1>1 DEF FunTypes, Bounds, Limits
<1> QED
  BY <1>2, <1>3, <1>4

LEMMA DereferenceBase ==
    ASSUME Base, NEW t \in Threads, DerefFound(t) \/ DerefOwn(t)
    PROVE  Base'
<1> USE ThreadAssumption DEF Base
<1>1. PICK s \in Structs : Dereference(t, s)
  BY DEF DerefFound, DerefOwn, FunTypes
<1>2. /\ UNCHANGED <<tid, pThrd, gpTLS, used, stid, known, starts, lookups, forks>>
      /\ ref' \in [Threads -> Structs \union {None}]
      /\ state' \in {state, [state EXCEPT ![t] = "leaving"]}
  BY DEF DerefFound, DerefOwn, Set, bounds, FunTypes
<1>3. FunTypes'
  BY <1>1, <1>2, DereferenceTypes DEF FunTypes, States
<1>4. Bounds'
  BY <1>1, <1>2, DereferenceTypes DEF Bounds
<1>5. \A p \in Structs : cRefs'[p] <= cRefs[p] /\ cRefs'[p] \in Nat /\ cRefs[p] \in Nat
  BY <1>1, DereferenceTypes DEF FunTypes
<1>6. Limits'
  BY <1>2, <1>5 DEF FunTypes, Bounds, Limits
<1> QED
  BY <1>3, <1>4, <1>6

LEMMA RestBase ==
    ASSUME Base, NEW t \in Threads,
           \/ UnlinkBare(t) \/ Dispose(t) \/ Terminate(t) \/ Gone(t) \/ ForkChild(t)
    PROVE  Base'
<1> USE ThreadAssumption DEF Base
<1>1. CASE UnlinkBare(t)
  <2>1. /\ bare[t] \in Structs
        /\ gpThrdDB' \subseteq gpThrdDB /\ zombies' \subseteq zombies
        /\ crashed' \in {crashed, {bare[t], gpTLS[t]} \ {None}}
        /\ doomed' \in {doomed, [doomed EXCEPT ![t] = bare[t]]}
        /\ bare' = [bare EXCEPT ![t] = None]
        /\ UNCHANGED <<state, tid, pThrd, gpTLS, ref, used, cRefs, stid, known, interrupts,
                       starts, lookups, forks>>
    BY <1>1 DEF UnlinkBare, Unlink, Set, bounds, FunTypes
  <2>2. crashed' \subseteq Structs /\ doomed' \in [Threads -> Structs \union {None}]
    BY <2>1 DEF FunTypes
  <2> QED
    BY <2>1, <2>2 DEF FunTypes, Bounds, Limits
<1>2. CASE Dispose(t)
  BY <1>2 DEF Dispose, Set, FunTypes, Bounds, Limits, lists, mutex, bounds
<1>3. CASE Terminate(t)
  BY <1>3 DEF Terminate, Set, FunTypes, States, Bounds, Limits, lists, mutex, bounds
<1>4. CASE Gone(t)
  BY <1>4 DEF Gone, Set, FunTypes, States, Bounds, Limits, lists, bounds
<1>5. CASE ForkChild(t)
  <2>1. FunTypes'
    BY <1>5 DEF ForkChild, Set, FunTypes, States
  <2>2. Bounds'
    BY <1>5 DEF ForkChild, Bounds
  <2>3. Limits'
    BY <1>5 DEF ForkChild, Set, FunTypes, Bounds, Limits
  <2> QED
    BY <2>1, <2>2, <2>3
<1> QED
  BY <1>1, <1>2, <1>3, <1>4, <1>5

-----------------------------------------------------------------------------
(* Threads come to be                                                       *)

\* beginthr.c:83-113: the new structure is its thread's alone.
LEMMA CreateKeeps ==
    ASSUME Base, Strict, crashed = {}, NEW t \in Threads, NEW u \in Threads, NEW s \in Structs,
           NEW i \in Tids, Create(t, u, s, i)
    PROVE  Strict'
<1> USE ThreadAssumption DEF Base, Strict
<1>0. /\ s \notin used /\ state[u] = "none" /\ i \in FreeTids
      /\ state' = [state EXCEPT ![u] = "starting"] /\ tid' = [tid EXCEPT ![u] = i]
      /\ used' = used \union {s} /\ cRefs' = [cRefs EXCEPT ![s] = 1]
      /\ stid' = [stid EXCEPT ![s] = None] /\ pThrd' = [pThrd EXCEPT ![u] = s]
      /\ UNCHANGED <<gpTLS, ref, doomed, gpThrdDB, zombies, known, bare, crashed>>
  BY DEF Create, Started, Set, lists, mutex
<1>a. \A p \in Structs : s # p => /\ (Owned(p)' => Owned(p))
                                  /\ \A v \in Threads : Owns(v, p)' <=> Owns(v, p)
  BY <1>0 DEF FunTypes, Owned, Owns
<1>b. \A v \in Threads : Owns(v, s)' => v = u
  BY <1>0 DEF FunTypes, Owns, Apart
<1>c. \A p \in Structs, v \in Threads : Stale(v, p)' => Stale(v, p) /\ p # s
  BY <1>0 DEF FunTypes, Stale, Forgotten
<1>1. Life'
  BY <1>0 DEF FreeTids, FunTypes, Life, Apart, Owns
<1>2. Listed'
  BY <1>0 DEF FunTypes, Life, Listed
<1>3. Apart'
  BY <1>0, <1>a, <1>b DEF FunTypes, Apart, Doomed
<1>4. Forgotten'
  BY <1>0, <1>a, <1>c DEF FunTypes, Forgotten
<1>5. Doomed' /\ Walks'
  BY <1>0 DEF Doomed, Walks
<1>6. Counts'
  <2> SUFFICES ASSUME NEW p \in Structs PROVE CountAt(p)'
    BY DEF Counts
  <2>1. CASE p = s
    <3>1. Refs(p)' = {} /\ cRefs'[p] = 1
      BY <1>0, <2>1 DEF FunTypes, Listed, Refs
    <3> QED
      BY <3>1, FirstCount
  <2>2. CASE p # s
    <3>1. Refs(p)' = Refs(p) /\ cRefs'[p] = cRefs[p]
      BY <1>0, <2>2 DEF FunTypes, Refs
    <3> QED
      BY <1>a, <2>2, <3>1, QuietCount
  <2> QED
    BY <2>1, <2>2
<1> QED
  BY <1>1, <1>2, <1>3, <1>4, <1>5, <1>6

\* The structure of a thread that could not be created is its creator's to dispose of.
LEMMA CreateFailsKeeps ==
    ASSUME Base, Strict, crashed = {}, NEW t \in Threads, NEW s \in Structs, CreateFails(t, s)
    PROVE  Strict'
<1> USE ThreadAssumption DEF Base, Strict
<1>0. /\ s \notin used /\ state[t] = "run" /\ ref[t] = None /\ doomed[t] = None
      /\ used' = used \union {s} /\ cRefs' = [cRefs EXCEPT ![s] = 0]
      /\ stid' = [stid EXCEPT ![s] = None] /\ doomed' = [doomed EXCEPT ![t] = s]
      /\ UNCHANGED <<state, tid, pThrd, gpTLS, ref, gpThrdDB, zombies, known, bare, crashed>>
  BY DEF CreateFails, Runs, Set, lists, mutex
<1>a. \A p \in Structs : /\ (Owned(p)' <=> Owned(p))
                         /\ \A v \in Threads : (Owns(v, p)' <=> Owns(v, p))
                                               /\ (Stale(v, p)' <=> Stale(v, p))
  BY <1>0 DEF Owned, Owns, Stale
<1>b. ~Owned(s) /\ \A v \in Threads : ~Owns(v, s) /\ ~Stale(v, s)
  BY <1>0 DEF Owned, Apart, Forgotten
<1>1. Life'
  BY <1>0, <1>b DEF FunTypes, Life, Owns
<1>2. Listed'
  BY <1>0 DEF FunTypes, Listed
<1>3. Apart'
  BY <1>0, <1>a, <1>b DEF FunTypes, Apart
<1>4. Forgotten'
  BY <1>0, <1>a, <1>b DEF FunTypes, Forgotten
<1>5. Doomed' /\ Walks'
  BY <1>0 DEF FunTypes, Doomed, Listed, Walks
<1>6. Counts'
  <2> SUFFICES ASSUME NEW p \in Structs PROVE CountAt(p)'
    BY DEF Counts
  <2>1. CASE p = s
    <3>1. Refs(p)' = {} /\ cRefs'[p] = 0
      BY <1>0, <2>1 DEF FunTypes, Listed, Refs
    <3> QED
      BY <1>a, <1>b, <2>1, <3>1, FirstCount
  <2>2. CASE p # s
    <3>1. Refs(p)' = Refs(p) /\ cRefs'[p] = cRefs[p]
      BY <1>0, <2>2 DEF FunTypes, Refs
    <3> QED
      BY <1>a, <2>2, <3>1, QuietCount
  <2> QED
    BY <2>1, <2>2
<1> QED
  BY <1>1, <1>2, <1>3, <1>4, <1>5, <1>6

\* A thread the library does not know has nothing.
LEMMA ForeignKeeps ==
    ASSUME Base, Strict, crashed = {}, NEW u \in Threads, NEW i \in Tids, Foreign(u, i)
    PROVE  Strict'
<1> USE ThreadAssumption DEF Base, Strict
<1>0. /\ state[u] = "none" /\ i \in FreeTids
      /\ state' = [state EXCEPT ![u] = "new"] /\ tid' = [tid EXCEPT ![u] = i]
      /\ UNCHANGED <<pThrd, gpTLS, ref, doomed, used, cRefs, stid, gpThrdDB, zombies, known,
                     bare, crashed>>
  BY DEF Foreign, Started, Set, lists, mutex
<1>a. \A p \in Structs : /\ (Owned(p)' <=> Owned(p))
                         /\ \A v \in Threads : (Owns(v, p)' <=> Owns(v, p))
                                               /\ (Stale(v, p)' <=> Stale(v, p))
  BY <1>0 DEF FunTypes, Owned, Owns, Stale
<1>1. Life'
  BY <1>0 DEF FreeTids, FunTypes, Life
<1>2. Listed'
  BY <1>0 DEF FunTypes, Listed
<1>3. Apart' /\ Forgotten'
  BY <1>0, <1>a DEF Apart, Forgotten
<1>4. Doomed' /\ Walks'
  BY <1>0 DEF Doomed, Walks
<1>5. Counts'
  <2> SUFFICES ASSUME NEW p \in Structs PROVE CountAt(p)'
    BY DEF Counts
  <2>1. Refs(p)' = Refs(p) /\ cRefs'[p] = cRefs[p]
    BY <1>0 DEF Refs
  <2> QED
    BY <1>a, <2>1, QuietCount
<1> QED
  BY <1>1, <1>2, <1>3, <1>4, <1>5

\* thread_internals.c:113-165: a thread takes the structure s, which nobody else has, to
\* the list, and what a dead thread of its id left there goes to the zombies.  If the
\* request is interrupted the structure is on no list.
LEMMA EnterKeeps ==
    ASSUME Base, Strict, crashed = {}, NEW t \in Threads, NEW s \in Structs,
           Enter(t, s, tid[t]), state[t] \in {"new", "starting"}, tid[t] # None,
           UNCHANGED <<tid, pThrd, ref, doomed, crashed>>,
           used' = used \union {s}, s \notin known, pThrd[t] \in {None, s},
           \A u \in Threads : /\ u # t => ~Owns(u, s) /\ ~Stale(u, s)
                              /\ doomed[u] # s,
           Counts'
    PROVE  Strict'
<1> USE ThreadAssumption DEF Base, Strict
<1> DEFINE stale == {p \in gpThrdDB : stid[p] = tid[t]}
<1>0. /\ gpTLS' = [gpTLS EXCEPT ![t] = s] /\ stid' = [stid EXCEPT ![s] = tid[t]]
      /\ state' = [state EXCEPT ![t] = "run"] /\ UNCHANGED bare
  BY DEF Enter, Set, mutex
<1>a. \/ /\ gpThrdDB' = (gpThrdDB \ stale) \union {s} /\ zombies' = zombies \union stale
         /\ known' = known \union {s}
      \/ UNCHANGED <<gpThrdDB, zombies, known>>
  BY DEF Enter, lists
<1> HIDE DEF stale
<1>b. stale \subseteq gpThrdDB /\ \A p \in gpThrdDB : p \in stale <=> stid[p] = tid[t]
  BY DEF stale
<1>c. s \notin gpThrdDB \union zombies
  BY DEF Listed
<1>d. \A p \in Structs, v \in Threads :
        /\ v # t => (Owns(v, p)' <=> Owns(v, p)) /\ (Stale(v, p)' <=> Stale(v, p))
        /\ ~Stale(t, p)' /\ (Owns(t, p)' <=> p = s)
  BY <1>0 DEF FunTypes, Owns, Stale
<1>e. \A v \in Threads : v # t => gpTLS[v] # s \/ state[v] \notin {"run", "ending"}
  BY DEF Owns
<1>1. Life'
  BY <1>0, <1>e DEF FunTypes, Life
<1>2. Listed'
  <2>1. CASE UNCHANGED <<gpThrdDB, zombies, known>>
    BY <1>0, <1>c, <1>e, <2>1 DEF FunTypes, Listed
  <2>2. CASE /\ gpThrdDB' = (gpThrdDB \ stale) \union {s} /\ zombies' = zombies \union stale
             /\ known' = known \union {s}
    <3>1. /\ (gpThrdDB \union zombies \subseteq known)' /\ (known \subseteq used)'
          /\ (gpThrdDB \intersect zombies = {})'
      BY <1>b, <1>c, <2>2 DEF Listed
    <3>2. (\A p, q \in gpThrdDB : stid[p] = stid[q] => p = q)'
      BY <1>0, <1>b, <1>c, <2>2 DEF FunTypes, Listed
    <3>3. ASSUME NEW u \in Threads, state'[u] \in {"run", "ending"}, gpTLS'[u] \in known'
          PROVE  gpTLS'[u] \in gpThrdDB'
      <4>1. CASE u = t
        BY <1>0, <2>2, <4>1 DEF FunTypes
      <4>2. CASE u # t
        <5>1. state[u] \in {"run", "ending"} /\ gpTLS'[u] = gpTLS[u] /\ gpTLS[u] # s
          BY <1>0, <1>e, <3>3, <4>2 DEF FunTypes
        <5>2. gpTLS[u] \in gpThrdDB
          BY <2>2, <3>3, <5>1 DEF Listed
        <5>3. stid[gpTLS[u]] # tid[t]
          BY <4>2, <5>1 DEF Life
        <5> QED
          BY <1>b, <2>2, <5>1, <5>2, <5>3
      <4> QED
        BY <4>1, <4>2
    <3>4. ASSUME NEW u \in Threads, state'[u] = "starting"
          PROVE  pThrd'[u] \notin known'
      <4>1. state[u] = "starting" /\ u # t
        BY <1>0, <3>4 DEF FunTypes
      <4> QED
        BY <2>2, <4>1 DEF Listed, Owns
    <3>5. ASSUME NEW u \in Threads, ref'[u] # None
          PROVE  ref'[u] \in gpThrdDB' \union zombies'
      BY <1>b, <2>2, <3>5 DEF Listed
    <3> QED
      BY <3>1, <3>2, <3>3, <3>4, <3>5 DEF Listed
  <2> QED
    BY <1>a, <2>1, <2>2
<1>3. Apart'
  BY <1>d DEF Apart
<1>f. \A p \in known' : p \in known \/ p = s
  BY <1>a
<1>4. Forgotten'
  BY <1>0, <1>d, <1>f DEF FunTypes, Forgotten
<1>g. \A p : p \in gpThrdDB' \union zombies' => p \in gpThrdDB \union zombies \/ p = s
  BY <1>a, <1>b
<1>5. Doomed'
  BY <1>g DEF Doomed
<1>6. Walks'
  BY DEF Walks
<1> QED
  BY <1>1, <1>2, <1>3, <1>4, <1>5, <1>6

\* The start of threadWrapper: the structure came with the thread.
LEMMA WrapperKeeps ==
    ASSUME Base, Strict, crashed = {}, NEW t \in Threads, Wrapper(t)
    PROVE  Strict'
<1> USE ThreadAssumption DEF Base
<1> DEFINE s == pThrd[t]
<1>0. /\ s \in Structs /\ state[t] = "starting" /\ Enter(t, s, tid[t])
      /\ UNCHANGED <<tid, pThrd, ref, doomed, used, cRefs, crashed>>
  BY DEF Wrapper, FunTypes, Limits
<1>1. tid[t] # None /\ s \notin known
  BY <1>0 DEF Strict, Life, Listed
<1>2. Owns(t, s)
  BY <1>0 DEF Owns
<1> HIDE DEF s
<1>a. s = pThrd[t]
  BY DEF s
<1>3. /\ used' = used \union {s}
      /\ \A u \in Threads : (u # t => ~Owns(u, s) /\ ~Stale(u, s)) /\ doomed[u] # s
  BY <1>0, <1>2 DEF Strict, Apart, Forgotten
<1>4. Counts'
  <2> SUFFICES ASSUME NEW p \in Structs PROVE CountAt(p)'
    BY DEF Counts
  <2>1. Refs(p)' = Refs(p) /\ cRefs'[p] = cRefs[p]
    BY <1>0 DEF Refs
  <2>2. gpTLS' = [gpTLS EXCEPT ![t] = s] /\ state' = [state EXCEPT ![t] = "run"]
    BY <1>0 DEF Enter, Set
  <2>3. Owned(p)' => Owned(p)
    BY <1>0, <1>a, <2>2 DEF FunTypes, Owned, Owns
  <2> QED
    BY <2>1, <2>3, QuietCount DEF Strict
<1> QED
  BY <1>0, <1>1, <1>3, <1>4, <1>a, EnterKeeps

\* thread_internals.c:58-111: a foreign thread gets a structure nobody uses.
LEMMA CurrentSlowKeeps ==
    ASSUME Base, Strict, crashed = {}, NEW t \in Threads, NEW s \in Structs, CurrentSlow(t, s)
    PROVE  Strict'
<1> USE ThreadAssumption DEF Base
<1>0. /\ state[t] = "new" /\ s \notin used /\ Enter(t, s, tid[t])
      /\ used' = used \union {s} /\ cRefs' = [cRefs EXCEPT ![s] = 1]
      /\ UNCHANGED <<tid, pThrd, ref, doomed, crashed>>
  BY DEF CurrentSlow, Set
<1>1. tid[t] # None /\ s \notin known /\ pThrd[t] = None
  BY <1>0 DEF Strict, Life, Listed
<1>2. \A u \in Threads : ~Owns(u, s) /\ ~Stale(u, s) /\ doomed[u] # s
  BY <1>0 DEF Strict, Apart, Forgotten, Doomed
<1>3. Counts'
  <2> SUFFICES ASSUME NEW p \in Structs PROVE CountAt(p)'
    BY DEF Counts
  <2>1. CASE p = s
    <3>1. Refs(p)' = {} /\ cRefs'[p] = 1
      BY <1>0, <2>1 DEF FunTypes, Listed, Refs, Strict
    <3> QED
      BY <3>1, FirstCount
  <2>2. CASE p # s
    <3>1. Refs(p)' = Refs(p) /\ cRefs'[p] = cRefs[p]
      BY <1>0, <2>2 DEF FunTypes, Refs
    <3>2. gpTLS' = [gpTLS EXCEPT ![t] = s] /\ state' = [state EXCEPT ![t] = "run"]
      BY <1>0 DEF Enter, Set
    <3>3. Owned(p)' => Owned(p)
      BY <1>0, <2>2, <3>2 DEF FunTypes, Owned, Owns
    <3> QED
      BY <3>1, <3>3, QuietCount DEF Strict
  <2> QED
    BY <2>1, <2>2
<1> QED
  BY <1>0, <1>1, <1>2, <1>3, EnterKeeps

-----------------------------------------------------------------------------
(* Lookups and dereferences                                                 *)

\* thread_internals.c:319-383: a lookup adds a reference and the thread that has it.
LEMMA FoundKeeps ==
    ASSUME Base, Strict, crashed = {}, NEW t \in Threads, Runs(t), NEW s \in gpThrdDB,
           Found(t, s)
    PROVE  Strict'
<1> USE ThreadAssumption DEF Base, Strict
<1>0. /\ s \in Structs
      /\ cRefs' = [cRefs EXCEPT ![s] = cRefs[s] + 1] /\ ref' = [ref EXCEPT ![t] = s]
      /\ ref[t] = None /\ state[t] = "run" /\ doomed[t] = None
      /\ UNCHANGED <<state, tid, pThrd, gpTLS, doomed, used, stid, gpThrdDB, zombies, known,
                     bare, crashed>>
  BY DEF Found, Runs, Set, lists, mutex, FunTypes
<1>a. \A p \in Structs : /\ (Owned(p)' <=> Owned(p))
                         /\ \A v \in Threads : (Owns(v, p)' <=> Owns(v, p))
                                               /\ (Stale(v, p)' <=> Stale(v, p))
  BY <1>0 DEF Owned, Owns, Stale
<1>1. Life'
  BY <1>0 DEF FunTypes, Life
<1>2. Listed'
  BY <1>0 DEF FunTypes, Listed
<1>3. Apart' /\ Forgotten'
  BY <1>0, <1>a DEF Apart, Forgotten
<1>4. Doomed' /\ Walks'
  BY <1>0 DEF Doomed, Walks
<1>5. Counts'
  <2> SUFFICES ASSUME NEW p \in Structs PROVE CountAt(p)'
    BY DEF Counts
  <2>1. CASE p = s
    <3>1. Refs(p)' = Refs(p) \union {t} /\ t \notin Refs(p)
      BY <1>0, <2>1 DEF FunTypes, Refs
    <3>2. IsFiniteSet(Refs(p)) /\ Cardinality(Refs(p)) \in Nat
      BY SubThreads DEF Refs
    <3>3. Cardinality(Refs(p)') = Cardinality(Refs(p)) + 1
      BY <3>1, <3>2, FS_AddElement
    <3>4. cRefs'[p] = cRefs[p] + 1 /\ cRefs[p] \in Nat /\ CountAt(p)
      BY <1>0, <2>1 DEF FunTypes, Counts
    <3> QED
      BY <1>a, <3>2, <3>3, <3>4 DEF CountAt
  <2>2. CASE p # s
    <3>1. Refs(p)' = Refs(p) /\ cRefs'[p] = cRefs[p]
      BY <1>0, <2>2 DEF FunTypes, Refs
    <3> QED
      BY <1>a, <3>1, QuietCount
  <2> QED
    BY <2>1, <2>2
<1> QED
  BY <1>1, <1>2, <1>3, <1>4, <1>5

\* What a dereference under the mutex does, by the count it finds: it goes down; with the
\* last reference the structure is taken off its list and doomed, or it is not found.
LEMMA DereferenceDoes ==
    ASSUME Base, Strict, crashed = {}, NEW t \in Threads, NEW s \in Structs,
           Dereference(t, s), ~loose, ~loose'
    PROVE  /\ cRefs[s] \in Nat /\ UNCHANGED bare
           /\ cRefs[s] > 1 => /\ cRefs' = [cRefs EXCEPT ![s] = cRefs[s] - 1]
                              /\ UNCHANGED <<gpThrdDB, zombies, crashed, doomed>>
           /\ cRefs[s] <= 1 =>
                /\ cRefs' = [cRefs EXCEPT ![s] = 0]
                /\ gpThrdDB' = gpThrdDB \ {s} /\ zombies' = zombies \ {s}
                /\ \/ /\ UNCHANGED crashed /\ doomed' = [doomed EXCEPT ![t] = s]
                      /\ stid[s] = None \/ s \in gpThrdDB \union zombies
                   \/ /\ crashed' = {s, gpTLS[t]} \ {None} /\ UNCHANGED doomed
                      /\ s \notin gpThrdDB
                      /\ s \in zombies => gpThrdDB = {}
<1> USE ThreadAssumption DEF Base, Strict
<1>1. cRefs[s] \in Nat
  BY DEF FunTypes
<1>2. /\ cRefs' = [cRefs EXCEPT ![s] = IF cRefs[s] > 0 THEN cRefs[s] - 1 ELSE 0]
      /\ UNCHANGED bare
      /\ IF cRefs[s] > 1 THEN UNCHANGED <<gpThrdDB, zombies, crashed, doomed>> ELSE Unlink(t, s)
  BY DEF Dereference, Set, mutex, lists
<1> DEFINE c == IF cRefs[s] > 0 THEN cRefs[s] - 1 ELSE 0
<1>a. (cRefs[s] > 1 => c = cRefs[s] - 1) /\ (cRefs[s] <= 1 => c = 0)
  BY <1>1
<1>b. cRefs' = [cRefs EXCEPT ![s] = c]
  BY <1>2
<1> HIDE DEF c
<1>3. CASE cRefs[s] > 1
  <2>1. UNCHANGED <<gpThrdDB, zombies, crashed, doomed>>
    BY <1>2, <1>3
  <2>2. ~(cRefs[s] <= 1) /\ c = cRefs[s] - 1
    BY <1>1, <1>3, <1>a
  <2> QED
    BY <1>1, <1>2, <1>b, <2>1, <2>2
<1>4. CASE ~(cRefs[s] > 1)
  <2>0. c = 0
    BY <1>1, <1>4, <1>a
  <2>1. cRefs' = [cRefs EXCEPT ![s] = 0]
    BY <1>b, <2>0
  <2>2. Unlink(t, s)
    BY <1>2, <1>4, Zenon
  <2> QED
    BY <1>1, <1>2, <1>4, <2>1, <2>2 DEF Unlink, Set
<1> QED
  BY <1>3, <1>4

\* thread_internals.c:219-289, for the caller of a lookup: the count goes down with the
\* references, and with the last one the structure is found and taken off its list,
\* unless the thread that walks is on no list itself.
LEMMA DerefFoundKeeps ==
    ASSUME Base, Strict, crashed = {}, NEW t \in Threads, DerefFound(t), ~loose, ~loose'
    PROVE  Strict'
<1> USE ThreadAssumption DEF Base, Strict
<1> DEFINE s == ref[t]
<1>0. /\ s \in Structs /\ s # None /\ state[t] = "run" /\ doomed[t] = None
      /\ s \in gpThrdDB \union zombies /\ Dereference(t, s)
      /\ ref' = [ref EXCEPT ![t] = None]
      /\ UNCHANGED <<state, tid, pThrd, gpTLS, used, stid, known>>
  BY DEF DerefFound, Set, FunTypes, Life, Listed
<1>1. /\ cRefs[s] \in Nat /\ UNCHANGED bare
      /\ cRefs[s] > 1 => /\ cRefs' = [cRefs EXCEPT ![s] = cRefs[s] - 1]
                         /\ UNCHANGED <<gpThrdDB, zombies, crashed, doomed>>
      /\ cRefs[s] <= 1 =>
           /\ cRefs' = [cRefs EXCEPT ![s] = 0]
           /\ gpThrdDB' = gpThrdDB \ {s} /\ zombies' = zombies \ {s}
           /\ \/ UNCHANGED crashed /\ doomed' = [doomed EXCEPT ![t] = s]
              \/ /\ crashed' = {s, gpTLS[t]} \ {None} /\ UNCHANGED doomed
                 /\ s \notin gpThrdDB
                 /\ s \in zombies => gpThrdDB = {}
  BY <1>0, DereferenceDoes
<1>a. \A p \in Structs : /\ (Owned(p)' <=> Owned(p))
                         /\ \A v \in Threads : (Owns(v, p)' <=> Owns(v, p))
                                               /\ (Stale(v, p)' <=> Stale(v, p))
  BY <1>0 DEF Owned, Owns, Stale
<1> HIDE DEF s
<1>b. s = ref[t] /\ s \in known
  BY <1>0 DEF s, Listed
<1>c. CASE cRefs[s] > 1
  <2>0. /\ cRefs' = [cRefs EXCEPT ![s] = cRefs[s] - 1]
        /\ UNCHANGED <<gpThrdDB, zombies, crashed, doomed, bare>>
    BY <1>1, <1>c
  <2>1. Life' /\ Listed'
    BY <1>0, <2>0 DEF FunTypes, Life, Listed
  <2>2. Apart' /\ Forgotten'
    BY <1>0, <1>a, <2>0 DEF Apart, Forgotten
  <2>3. Doomed' /\ Walks'
    BY <1>0, <2>0 DEF Doomed, Walks
  <2>4. Counts'
    <3> SUFFICES ASSUME NEW p \in Structs PROVE CountAt(p)'
      BY DEF Counts
    <3>1. CASE p = s
      <4>1. Refs(p)' = Refs(p) \ {t} /\ t \in Refs(p)
        BY <1>0, <1>b, <3>1 DEF FunTypes, Refs
      <4>2. IsFiniteSet(Refs(p)) /\ Cardinality(Refs(p)) \in Nat
        BY SubThreads DEF Refs
      <4>3. Cardinality(Refs(p)') = Cardinality(Refs(p)) - 1
        BY <4>1, <4>2, FS_RemoveElement
      <4>4. cRefs'[p] = cRefs[p] - 1 /\ CountAt(p) /\ cRefs[p] \in Nat
        BY <2>0, <3>1 DEF FunTypes, Counts
      <4> QED
        BY <1>a, <4>2, <4>3, <4>4 DEF CountAt
    <3>2. CASE p # s
      <4>1. Refs(p)' = Refs(p) /\ cRefs'[p] = cRefs[p]
        BY <1>0, <1>b, <2>0, <3>2 DEF FunTypes, Refs
      <4> QED
        BY <1>a, <4>1, QuietCount
    <3> QED
      BY <3>1, <3>2
  <2> QED
    BY <2>1, <2>2, <2>3, <2>4
<1>d. CASE ~(cRefs[s] > 1)
  <2>0. cRefs[s] <= 1
    BY <1>1, <1>d
  <2>1. ~Owned(s) /\ Refs(s) = {t}
    BY <1>0, <1>b, <2>0, LastReference
  <2>2. /\ gpThrdDB' = gpThrdDB \ {s} /\ zombies' = zombies \ {s}
        /\ cRefs' = [cRefs EXCEPT ![s] = 0] /\ UNCHANGED bare
        /\ doomed' \in {doomed, [doomed EXCEPT ![t] = s]}
    BY <1>1, <2>0
  <2>3. \A u \in Threads : ~Owns(u, s) /\ ~Stale(u, s) /\ (u # t => ref[u] # s)
                           /\ doomed[u] # s
    BY <1>0, <1>b, <2>1 DEF Owned, Refs, Forgotten, Doomed
  <2>a. \A u \in Threads : state[u] \in {"run", "ending"} => gpTLS[u] # s
    BY <2>3 DEF Owns
  <2>b. \A u \in Threads : doomed'[u] = doomed[u] \/ (u = t /\ doomed'[u] = s)
    BY <2>2 DEF FunTypes
  <2>4. Life'
    BY <1>0, <2>2, <2>b DEF FunTypes, Life
  <2>5. Listed'
    BY <1>0, <2>2, <2>3, <2>a DEF FunTypes, Listed
  <2>6. Apart'
    BY <1>0, <1>a, <2>3, <2>b DEF Apart
  <2>7. Forgotten'
    BY <1>0, <1>a, <2>3, <2>b DEF Forgotten
  <2>8. Doomed'
    BY <1>0, <1>b, <2>2, <2>3, <2>b DEF Listed, Doomed
  <2>9. Walks'
    <3>1. CASE UNCHANGED crashed
      BY <3>1 DEF Walks
    <3>2. CASE crashed' = {s, gpTLS[t]} \ {None} /\ s \notin gpThrdDB /\ gpThrdDB = {}
      <4>1. gpTLS[t] # None /\ gpTLS[t] \notin known
        BY <1>0, <3>2 DEF Life, Listed
      <4> QED
        BY <1>0, <3>2, <4>1 DEF Walks
    <3> QED
      BY <1>0, <1>1, <2>0, <3>1, <3>2
  <2>10. Counts'
    <3> SUFFICES ASSUME NEW p \in Structs PROVE CountAt(p)'
      BY DEF Counts
    <3>1. CASE p = s
      <4>1. Refs(p)' = {}
        BY <1>0, <2>1, <3>1 DEF FunTypes, Refs
      <4>2. cRefs'[p] = 0
        BY <2>2, <3>1 DEF FunTypes
      <4> QED
        BY <1>a, <2>1, <3>1, <4>1, <4>2, FirstCount
    <3>2. CASE p # s
      <4>1. Refs(p)' = Refs(p) /\ cRefs'[p] = cRefs[p]
        BY <1>0, <1>b, <2>2, <3>2 DEF FunTypes, Refs
      <4> QED
        BY <1>a, <4>1, QuietCount
    <3> QED
      BY <3>1, <3>2
  <2> QED
    BY <2>4, <2>5, <2>6, <2>7, <2>8, <2>9, <2>10
<1> QED
  BY <1>c, <1>d

\* The storage is released; a thread that runs does not lose its own structure.
LEMMA DisposeKeeps ==
    ASSUME Base, Strict, crashed = {}, NEW t \in Threads, Dispose(t)
    PROVE  Strict'
<1> USE ThreadAssumption DEF Base, Strict
<1> DEFINE d == doomed[t]
<1>0. /\ d # None /\ d \in Structs /\ d \notin gpThrdDB \union zombies
      /\ gpTLS' = IF gpTLS[t] = d THEN [gpTLS EXCEPT ![t] = None] ELSE gpTLS
      /\ used' = used \ {d} /\ known' = known \ {d} /\ doomed' = [doomed EXCEPT ![t] = None]
      /\ UNCHANGED <<state, tid, pThrd, ref, cRefs, stid, gpThrdDB, zombies, bare, crashed>>
  BY DEF Dispose, Set, lists, mutex, bounds, FunTypes, Doomed
<1>b. \A u \in Threads : ~Owns(u, d) /\ ~Stale(u, d) /\ (u # t => doomed[u] # d)
  BY <1>0 DEF Apart, Forgotten, Doomed
<1> HIDE DEF d
<1>a. state[t] \in {"run", "ending"} => gpTLS' = gpTLS
  BY <1>0, <1>b DEF Owns
<1>c. \A p \in Structs : /\ (Owned(p)' <=> Owned(p))
                         /\ \A v \in Threads : (Owns(v, p)' <=> Owns(v, p))
                                               /\ (Stale(v, p)' <=> Stale(v, p))
  BY <1>0, <1>a DEF FunTypes, Owned, Owns, Stale
<1>1. Life'
  BY <1>0, <1>a DEF FunTypes, Life
<1>2. Listed'
  BY <1>0, <1>a DEF FunTypes, Listed
<1>3. Apart'
  BY <1>0, <1>b, <1>c DEF FunTypes, Apart
<1>4. Forgotten'
  BY <1>0, <1>b, <1>c DEF FunTypes, Forgotten
<1>5. Doomed' /\ Walks'
  BY <1>0, <1>b DEF FunTypes, Doomed, Walks
<1>6. Counts'
  <2> SUFFICES ASSUME NEW p \in Structs PROVE CountAt(p)'
    BY DEF Counts
  <2>1. Refs(p)' = Refs(p) /\ cRefs'[p] = cRefs[p]
    BY <1>0 DEF Refs
  <2> QED
    BY <1>c, <2>1, QuietCount
<1> QED
  BY <1>1, <1>2, <1>3, <1>4, <1>5, <1>6

-----------------------------------------------------------------------------
(* Threads go                                                               *)

\* The callbacks of the end of a thread leave the database alone.
LEMMA TerminateKeeps ==
    ASSUME Base, Strict, crashed = {}, NEW t \in Threads, Terminate(t)
    PROVE  Strict'
<1> USE ThreadAssumption DEF Base, Strict
<1>0. /\ state[t] = "run" /\ ref[t] = None /\ doomed[t] = None
      /\ state' = [state EXCEPT ![t] = "ending"]
      /\ UNCHANGED <<tid, pThrd, gpTLS, ref, doomed, used, cRefs, stid, gpThrdDB, zombies,
                     known, bare, crashed>>
  BY DEF Terminate, Runs, Set, lists, mutex
<1>a. \A p \in Structs : /\ (Owned(p)' <=> Owned(p))
                         /\ \A v \in Threads : (Owns(v, p)' <=> Owns(v, p))
                                               /\ (Stale(v, p)' <=> Stale(v, p))
  BY <1>0 DEF FunTypes, Owned, Owns, Stale
<1>1. Life'
  BY <1>0 DEF FunTypes, Life
<1>2. Listed'
  BY <1>0 DEF FunTypes, Listed
<1>3. Apart' /\ Forgotten'
  BY <1>0, <1>a DEF Apart, Forgotten
<1>4. Doomed' /\ Walks'
  BY <1>0 DEF Doomed, Walks
<1>5. Counts'
  <2> SUFFICES ASSUME NEW p \in Structs PROVE CountAt(p)'
    BY DEF Counts
  <2>1. Refs(p)' = Refs(p) /\ cRefs'[p] = cRefs[p]
    BY <1>0 DEF Refs
  <2> QED
    BY <1>a, <2>1, QuietCount
<1> QED
  BY <1>1, <1>2, <1>3, <1>4, <1>5

\* thread_internals.c:219-289, for the thread itself: if a lookup has its structure the
\* count keeps that, else the structure is taken off the list, or it was on none.
LEMMA DerefOwnKeeps ==
    ASSUME Base, Strict, crashed = {}, NEW t \in Threads, DerefOwn(t), ~loose, ~loose'
    PROVE  Strict'
<1> USE ThreadAssumption DEF Base, Strict
<1>0. PICK s \in Structs :
        /\ s # None /\ s \in {gpTLS[t], pThrd[t]} /\ Dereference(t, s)
        /\ state[t] = "ending" /\ ref[t] = None /\ doomed[t] = None
        /\ state' = [state EXCEPT ![t] = "leaving"]
        /\ UNCHANGED <<tid, pThrd, gpTLS, ref, used, stid, known>>
  BY DEF DerefOwn, Set, FunTypes, Life
<1>1. /\ cRefs[s] \in Nat /\ UNCHANGED bare
      /\ cRefs[s] > 1 => /\ cRefs' = [cRefs EXCEPT ![s] = cRefs[s] - 1]
                         /\ UNCHANGED <<gpThrdDB, zombies, crashed, doomed>>
      /\ cRefs[s] <= 1 =>
           /\ cRefs' = [cRefs EXCEPT ![s] = 0]
           /\ gpThrdDB' = gpThrdDB \ {s} /\ zombies' = zombies \ {s}
           /\ \/ /\ UNCHANGED crashed /\ doomed' = [doomed EXCEPT ![t] = s]
                 /\ stid[s] = None \/ s \in gpThrdDB \union zombies
              \/ /\ crashed' = {s, gpTLS[t]} \ {None} /\ UNCHANGED doomed
                 /\ s \notin gpThrdDB
                 /\ s \in zombies => gpThrdDB = {}
  BY <1>0, DereferenceDoes
<1>a. Owns(t, s) \/ Stale(t, s)
  BY <1>0 DEF Owns, Stale
<1>b. \A u \in Threads : /\ u # t => ~Owns(u, s) /\ ~Stale(u, s)
                         /\ doomed[u] # s
  BY <1>a DEF Apart, Forgotten
<1>e. \A p \in Structs, v \in Threads :
        /\ v # t => (Owns(v, p)' <=> Owns(v, p)) /\ (Stale(v, p)' <=> Stale(v, p))
        /\ ~Owns(t, p)' /\ ~Stale(t, p)'
  BY <1>0 DEF FunTypes, Owns, Stale
<1>f. (\A p \in Structs : Owned(p)' => Owned(p)) /\ ~Owned(s)'
  BY <1>b, <1>e DEF Owned
<1>c. CASE cRefs[s] > 1
  <2>0. /\ cRefs' = [cRefs EXCEPT ![s] = cRefs[s] - 1]
        /\ UNCHANGED <<gpThrdDB, zombies, crashed, doomed, bare>>
    BY <1>1, <1>c
  <2>1. Life' /\ Listed'
    BY <1>0, <2>0 DEF FunTypes, Life, Listed
  <2>2. Apart' /\ Forgotten'
    BY <1>0, <1>e, <2>0 DEF Apart, Forgotten
  <2>3. Doomed' /\ Walks'
    BY <1>0, <2>0 DEF Doomed, Walks
  <2>4. Counts'
    <3> SUFFICES ASSUME NEW p \in Structs PROVE CountAt(p)'
      BY DEF Counts
    <3>1. Refs(p)' = Refs(p)
      BY <1>0 DEF Refs
    <3>2. CASE p = s
      <4>1. CountAt(p) /\ Cardinality(Refs(p)) \in Nat /\ cRefs'[p] = cRefs[p] - 1
        BY <2>0, <3>2, SubThreads DEF Counts, Refs, FunTypes
      <4>2. CASE Owned(p)
        BY <1>1, <1>f, <3>1, <3>2, <4>1, <4>2 DEF CountAt
      <4>3. CASE ~Owned(p)
        <5>1. s \notin known
          BY <1>a, <3>2, <4>3 DEF Owned, Forgotten
        <5>2. Refs(p)' = {}
          BY <3>1, <3>2, <5>1 DEF Refs, Listed
        <5> QED
          BY <1>1, <1>c, <1>f, <3>2, <4>1, <5>2, FirstCount
      <4> QED
        BY <4>2, <4>3
    <3>3. CASE p # s
      <4>1. cRefs'[p] = cRefs[p]
        BY <2>0, <3>3 DEF FunTypes
      <4> QED
        BY <1>f, <3>1, <4>1, QuietCount
    <3> QED
      BY <3>2, <3>3
  <2> QED
    BY <2>1, <2>2, <2>3, <2>4
<1>d. CASE ~(cRefs[s] > 1)
  <2>0. cRefs[s] <= 1
    BY <1>1, <1>d
  <2>1. Refs(s) = {}
    <3>1. CASE Owns(t, s)
      BY <2>0, <3>1, LastOwner DEF Owned
    <3>2. CASE Stale(t, s)
      BY <3>2 DEF Refs, Forgotten, Listed
    <3> QED
      BY <1>a, <3>1, <3>2
  <2>2. /\ gpThrdDB' = gpThrdDB \ {s} /\ zombies' = zombies \ {s}
        /\ cRefs' = [cRefs EXCEPT ![s] = 0] /\ UNCHANGED bare
        /\ doomed' \in {doomed, [doomed EXCEPT ![t] = s]}
    BY <1>1, <2>0
  <2>3. \A u \in Threads : ref[u] # s
    BY <2>1 DEF Refs
  <2>a. \A u \in Threads \ {t} : state[u] \in {"run", "ending"} => gpTLS[u] # s
    BY <1>b DEF Owns
  <2>b. \A u \in Threads : doomed'[u] = doomed[u] \/ (u = t /\ doomed'[u] = s)
    BY <2>2 DEF FunTypes
  <2>c. s \in used
    BY <1>a DEF Apart, Forgotten
  <2>4. Life'
    BY <1>0, <2>2, <2>b DEF FunTypes, Life
  <2>5. Listed'
    BY <1>0, <2>2, <2>3, <2>a DEF FunTypes, Listed
  <2>6. Apart'
    BY <1>0, <1>b, <1>e, <2>b DEF Apart
  <2>7. Forgotten'
    BY <1>0, <1>b, <1>e, <2>b DEF Forgotten
  <2>8. Doomed'
    BY <1>0, <1>b, <2>2, <2>b, <2>c DEF Doomed
  <2>9. Walks'
    <3>1. CASE UNCHANGED crashed
      BY <3>1 DEF Walks
    <3>2. CASE crashed' = {s, gpTLS[t]} \ {None} /\ s \notin gpThrdDB
      <4>1. s \notin known
        BY <1>0, <1>a, <3>2 DEF Owns, Listed, Forgotten
      <4> QED
        BY <1>0, <3>2, <4>1 DEF Walks
    <3> QED
      BY <1>1, <2>0, <3>1, <3>2
  <2>10. Counts'
    <3> SUFFICES ASSUME NEW p \in Structs PROVE CountAt(p)'
      BY DEF Counts
    <3>1. Refs(p)' = Refs(p)
      BY <1>0 DEF Refs
    <3>2. CASE p = s
      <4>1. cRefs'[p] = 0
        BY <2>2, <3>2 DEF FunTypes
      <4> QED
        BY <1>f, <2>1, <3>1, <3>2, <4>1, FirstCount
    <3>3. CASE p # s
      <4>1. cRefs'[p] = cRefs[p]
        BY <2>2, <3>3 DEF FunTypes
      <4> QED
        BY <1>f, <3>1, <4>1, QuietCount
    <3> QED
      BY <3>2, <3>3
  <2> QED
    BY <2>4, <2>5, <2>6, <2>7, <2>8, <2>9, <2>10
<1> QED
  BY <1>c, <1>d

\* A thread that exits or is killed takes its references with it, and its structure and
\* what it was about to dispose of stay where they were.
LEMMA GoneKeeps ==
    ASSUME Base, Strict, crashed = {}, NEW t \in Threads, Gone(t)
    PROVE  Strict'
<1> USE ThreadAssumption DEF Base, Strict
<1>0. /\ state' = [state EXCEPT ![t] = "none"] /\ tid' = [tid EXCEPT ![t] = None]
      /\ gpTLS' = [gpTLS EXCEPT ![t] = None] /\ pThrd' = [pThrd EXCEPT ![t] = None]
      /\ ref' = [ref EXCEPT ![t] = None] /\ doomed' = [doomed EXCEPT ![t] = None]
      /\ bare' = [bare EXCEPT ![t] = None]
      /\ UNCHANGED <<used, cRefs, stid, gpThrdDB, zombies, known, crashed>>
  BY DEF Gone, Set, lists
<1>a. \A p \in Structs, v \in Threads :
        /\ v # t => (Owns(v, p)' <=> Owns(v, p)) /\ (Stale(v, p)' <=> Stale(v, p))
        /\ ~Owns(t, p)' /\ ~Stale(t, p)'
  BY <1>0 DEF FunTypes, Owns, Stale
<1>1. Life'
  BY <1>0 DEF FunTypes, Life
<1>2. Listed'
  BY <1>0 DEF FunTypes, Listed
<1>3. Apart' /\ Forgotten'
  BY <1>0, <1>a DEF FunTypes, Apart, Forgotten
<1>4. Doomed' /\ Walks'
  BY <1>0 DEF FunTypes, Doomed, Walks
<1>5. Counts'
  <2> SUFFICES ASSUME NEW p \in Structs PROVE CountAt(p)'
    BY DEF Counts
  <2>1. Refs(p)' \subseteq Refs(p) /\ cRefs'[p] = cRefs[p]
    BY <1>0 DEF Refs, FunTypes
  <2>2. Owned(p)' => Owned(p)
    BY <1>a DEF Owned
  <2> QED
    BY <2>1, <2>2, QuietCount
<1> QED
  BY <1>1, <1>2, <1>3, <1>4, <1>5

\* thread_internals.c:416-468: the child of a fork starts over with one thread; what its
\* wrapper was given stays in use and is on no list.
LEMMA ForkKeeps ==
    ASSUME Base, Strict, crashed = {}, NEW t \in Threads, ForkChild(t)
    PROVE  Strict'
<1> USE ThreadAssumption DEF Base, Strict
<1>0. /\ state[t] = "run"
      /\ cRefs' = [cRefs EXCEPT ![PreAlloc] = 1] /\ used' = used \union {PreAlloc}
      /\ stid' = [stid EXCEPT ![PreAlloc] = FirstTid]
      /\ gpThrdDB' = {PreAlloc} /\ zombies' = {} /\ known' = {PreAlloc}
      /\ UNCHANGED crashed
  BY DEF ForkChild, Runs, Set
<1>a. \A u \in Threads : /\ state'[u] = IF u = t THEN "run" ELSE "none"
                         /\ tid'[u] = IF u = t THEN FirstTid ELSE None
                         /\ gpTLS'[u] = IF u = t THEN PreAlloc ELSE None
                         /\ pThrd'[u] = IF u = t THEN pThrd[u] ELSE None
                         /\ ref'[u] = None /\ doomed'[u] = None /\ bare'[u] = None
  BY DEF ForkChild
<1>b. \A v \in Threads, p \in Structs : /\ Owns(v, p)' <=> v = t /\ p = PreAlloc
                                        /\ Stale(v, p)' => v = t /\ p # PreAlloc /\ pThrd[t] = p
  BY <1>0, <1>a DEF Owns, Stale
<1>1. Life'
  BY <1>0, <1>a DEF FunTypes, Life
<1>2. Listed'
  BY <1>0, <1>a DEF FunTypes, Listed
<1>3. Apart'
  BY <1>0, <1>a, <1>b DEF Apart
<1>4. Forgotten'
  <2> SUFFICES ASSUME NEW p \in Structs, pThrd[t] = p, p # PreAlloc
               PROVE  p \in used /\ stid[p] # None
    BY <1>0, <1>a, <1>b DEF FunTypes, Forgotten
  <2>1. Owns(t, p) \/ Stale(t, p)
    BY <1>0 DEF Owns, Stale
  <2>2. CASE Stale(t, p)
    BY <2>2 DEF Forgotten
  <2>3. CASE Owns(t, p)
    BY <1>0, <2>3 DEF Apart, Owns, Life
  <2> QED
    BY <2>1, <2>2, <2>3
<1>5. Doomed' /\ Walks'
  BY <1>0, <1>a DEF Doomed, Walks
<1>6. Counts'
  <2> SUFFICES ASSUME NEW p \in Structs PROVE CountAt(p)'
    BY DEF Counts
  <2>1. Refs(p)' = {}
    BY <1>a DEF Refs
  <2>2. CASE p = PreAlloc
    <3>1. cRefs'[p] = 1
      BY <1>0, <2>2 DEF FunTypes
    <3> QED
      BY <2>1, <3>1, FirstCount
  <2>3. CASE p # PreAlloc
    <3>1. cRefs'[p] \in Nat /\ ~Owned(p)'
      BY <1>0, <1>b, <2>3 DEF FunTypes, Owned
    <3> QED
      BY <2>1, <3>1, FirstCount
  <2> QED
    BY <2>2, <2>3
<1> QED
  BY <1>1, <1>2, <1>3, <1>4, <1>5, <1>6

-----------------------------------------------------------------------------
(* The theorems                                                             *)

LEMMA DBInitHolds == DBInit => DBInv
<1> SUFFICES ASSUME DBInit PROVE DBInv
  OBVIOUS
<1> USE ThreadAssumption
<1>0. PICK main \in Threads :
        /\ state = [t \in Threads |-> IF t = main THEN "run" ELSE "none"]
        /\ tid = [t \in Threads |-> IF t = main THEN FirstTid ELSE None]
        /\ pThrd = [t \in Threads |-> None]
        /\ gpTLS = [t \in Threads |-> IF t = main THEN PreAlloc ELSE None]
        /\ ref = [t \in Threads |-> None]
        /\ doomed = [t \in Threads |-> None]
        /\ used = {PreAlloc}
        /\ cRefs = [s \in Structs |-> IF s = PreAlloc THEN 1 ELSE 0]
        /\ stid = [s \in Structs |-> IF s = PreAlloc THEN FirstTid ELSE None]
        /\ gpThrdDB = {PreAlloc}
        /\ zombies = {}
        /\ known = {PreAlloc}
        /\ bare = [t \in Threads |-> None]
        /\ loose = FALSE
        /\ crashed = {}
        /\ starts = 0 /\ lookups = 0 /\ forks = 0 /\ interrupts = 0
  BY DEF DBInit
<1>1. FunTypes
  BY <1>0 DEF FunTypes, States
<1>2. Bounds /\ Limits
  BY <1>0 DEF Bounds, Limits
<1>3. Life /\ Listed /\ Doomed /\ Walks
  BY <1>0 DEF Life, Listed, Doomed, Walks
<1>4. Apart /\ Forgotten
  BY <1>0 DEF Apart, Forgotten, Owns, Stale
<1>5. Counts
  <2> SUFFICES ASSUME NEW s \in Structs PROVE CountAt(s)
    BY DEF Counts
  <2>1. Refs(s) = {}
    BY <1>0 DEF Refs
  <2>2. Cardinality(Refs(s)) = 0
    BY <2>1, FS_EmptySet
  <2>3. Owned(s) => s = PreAlloc
    BY <1>0 DEF Owned, Owns
  <2> QED
    BY <1>0, <2>2, <2>3 DEF CountAt
<1>6. loose \in BOOLEAN
  BY <1>0
<1> QED
  BY <1>1, <1>2, <1>3, <1>4, <1>5, <1>6 DEF DBInv, Base, Strict

\* Every step keeps the types.
LEMMA BaseStep ==
    ASSUME Base, DBNext
    PROVE  Base'
<1>1. ASSUME NEW t \in Threads, NEW u \in Threads, NEW s \in Structs, NEW i \in Tids,
             \/ Create(t, u, s, i) \/ CreateFails(t, s) \/ Foreign(t, i)
             \/ Wrapper(t) \/ CurrentSlow(t, s)
      PROVE  Base'
  BY <1>1, CreateBase, EnterBase
<1>2. ASSUME NEW t \in Threads, NEW i \in Tids, Lookup(t, i) \/ Lookup2(t) PROVE Base'
  BY <1>2, FoundBase DEF Lookup, Lookup2
<1>3. ASSUME NEW t \in Threads, DerefFound(t) \/ DerefOwn(t) PROVE Base'
  BY <1>3, DereferenceBase
<1>4. ASSUME NEW t \in Threads,
             \/ UnlinkBare(t) \/ Dispose(t) \/ Terminate(t) \/ ExitThread(t) \/ KillThread(t)
             \/ ForkChild(t)
      PROVE  Base'
  BY <1>4, RestBase DEF ExitThread, KillThread
<1>5. Threads # {} => PreAlloc \in Structs /\ FirstTid \in Tids
  BY ThreadAssumption
<1> QED
  BY <1>1, <1>2, <1>3, <1>4, <1>5 DEF DBNext

\* Once a dereference went on without the mutex that stays so.
LEMMA LooseStays ==
    ASSUME DBNext, loose \in BOOLEAN
    PROVE  loose' \in BOOLEAN /\ (loose => loose')
<1>1. loose' = loose \/ loose' = TRUE
  BY DEF DBNext, Create, CreateFails, Foreign, Wrapper, CurrentSlow, Enter, Lookup, Lookup2,
         Found, DerefFound, Dereference, UnlinkBare, Dispose, Terminate, DerefOwn, ExitThread,
         KillThread, Gone, ForkChild, mutex
<1> QED
  BY <1>1

\* Every step that does not do that keeps the rest.
LEMMA StrictStep ==
    ASSUME Base, Strict, crashed = {}, ~loose, ~loose', DBNext
    PROVE  Strict'
<1>1. ASSUME NEW t \in Threads, NEW u \in Threads, NEW s \in Structs, NEW i \in Tids,
             Create(t, u, s, i)
      PROVE  Strict'
  BY <1>1, CreateKeeps
<1>2. ASSUME NEW t \in Threads, NEW s \in Structs, CreateFails(t, s) \/ CurrentSlow(t, s)
      PROVE  Strict'
  BY <1>2, CreateFailsKeeps, CurrentSlowKeeps
<1>3. ASSUME NEW t \in Threads, NEW i \in Tids, Foreign(t, i) PROVE Strict'
  BY <1>3, ForeignKeeps
<1>4. ASSUME NEW t \in Threads, NEW i \in Tids, Lookup(t, i) PROVE Strict'
  BY <1>4, FoundKeeps DEF Lookup
<1>5. ASSUME NEW t \in Threads, Lookup2(t) PROVE Strict'
  BY <1>5, FoundKeeps DEF Lookup2
<1>6. ASSUME NEW t \in Threads, Wrapper(t) \/ DerefFound(t) \/ Dispose(t) PROVE Strict'
  BY <1>6, WrapperKeeps, DerefFoundKeeps, DisposeKeeps
<1>7. ASSUME NEW t \in Threads, Terminate(t) \/ DerefOwn(t) PROVE Strict'
  BY <1>7, TerminateKeeps, DerefOwnKeeps
<1>8. ASSUME NEW t \in Threads, ExitThread(t) \/ KillThread(t) PROVE Strict'
  BY <1>8, GoneKeeps DEF ExitThread, KillThread
<1>9. ASSUME NEW t \in Threads, ForkChild(t) PROVE Strict'
  BY <1>9, ForkKeeps
<1>10. ASSUME NEW t \in Threads, UnlinkBare(t) PROVE Strict'
  BY <1>10 DEF UnlinkBare, Strict, Life
<1> QED
  BY <1>1, <1>2, <1>3, <1>4, <1>5, <1>6, <1>7, <1>8, <1>9, <1>10 DEF DBNext

\* The invariant holds throughout.
LEMMA DBInvHolds == DBSpec => []DBInv
<1>1. DBInv /\ [crashed = {} /\ DBNext]_dbVars => DBInv'
  <2> SUFFICES ASSUME DBInv, [crashed = {} /\ DBNext]_dbVars PROVE DBInv'
    OBVIOUS
  <2>1. CASE UNCHANGED dbVars
    <3>1. UNCHANGED <<state, tid, pThrd, gpTLS, ref, doomed, used, cRefs, stid, gpThrdDB,
                      zombies, known, bare, loose, crashed, starts, lookups, forks, interrupts>>
      BY <2>1 DEF dbVars
    <3>2. \A t, s : (Owns(t, s)' <=> Owns(t, s)) /\ (Stale(t, s)' <=> Stale(t, s))
      BY <3>1 DEF Owns, Stale
    <3>3. \A s : Refs(s)' = Refs(s) /\ (Owned(s)' <=> Owned(s))
      BY <3>1, <3>2 DEF Refs, Owned
    <3>4. Base => Base'
      BY <3>1 DEF Base, FunTypes, Bounds, Limits
    <3>5. Strict => Strict'
      BY <3>1, <3>2, <3>3 DEF Strict, Life, Listed, Apart, Forgotten, Doomed, Counts, CountAt,
                              Walks
    <3> QED
      BY <3>1, <3>4, <3>5 DEF DBInv
  <2>2. CASE crashed = {} /\ DBNext
    <3>1. Base' /\ loose' \in BOOLEAN /\ (loose => loose')
      BY <2>2, BaseStep, LooseStays DEF DBInv
    <3>2. ASSUME ~loose' PROVE Strict'
      BY <2>2, <3>1, <3>2, StrictStep DEF DBInv
    <3> QED
      BY <3>1, <3>2 DEF DBInv
  <2> QED
    BY <2>1, <2>2
<1> QED
  BY <1>1, DBInitHolds, PTL DEF DBSpec

\* A structure is disposed of once, by a thread that has it alone, and nobody is left
\* with a pointer to one that was (thread.h:442), whatever threads end, are killed, fork,
\* look each other up and dereference what they found, until a dereference goes on
\* without the mutex; the types hold after that too.
THEOREM NoDanglingHolds == DBSpec => []NoDangling
<1>1. DBInv => TypeOK
  <2> SUFFICES ASSUME DBInv PROVE TypeOK
    OBVIOUS
  <2>1. cRefs \in [Structs -> 0 .. MaxLookups + 1]
    BY ThreadAssumption DEF DBInv, Base, FunTypes, Bounds, Limits
  <2>2. loose \in BOOLEAN
    BY DEF DBInv
  <2> QED
    BY <2>1, <2>2 DEF DBInv, Base, FunTypes, Bounds, TypeOK
<1>2. DBInv /\ ~loose => Intact
  <2> SUFFICES ASSUME Base, Strict PROVE Intact
    BY DEF DBInv
  <2> SUFFICES ASSUME NEW t \in Threads
               PROVE  /\ Holds(t) \subseteq used
                      /\ doomed[t] # None =>
                           /\ doomed[t] \notin gpThrdDB \union zombies
                           /\ \A u \in Threads \ {t} : doomed[t] \notin Holds(u)
    BY DEF Intact
  <2>1. \A u \in Threads : \A p \in Holds(u) :
          p \in Structs /\ (Owns(u, p) \/ p \in {ref[u], doomed[u]})
    BY DEF Base, FunTypes, States, Strict, Life, Holds, Owns
  <2>2. Holds(t) \subseteq used
    BY <2>1, ThreadAssumption DEF Strict, Listed, Apart, Doomed, Holds
  <2>3. ASSUME doomed[t] # None, NEW u \in Threads \ {t} PROVE doomed[t] \notin Holds(u)
    BY <2>1, <2>3, ThreadAssumption DEF Strict, Listed, Apart, Doomed, Holds
  <2> QED
    BY <2>2, <2>3 DEF Strict, Doomed
<1>3. DBInv => NoDangling
  BY <1>1, <1>2 DEF NoDangling
<1> QED
  BY <1>3, DBInvHolds, PTL

\* A lookup by id finds the structure of the thread that has the id now
\* (thread_internals.c:124-156), if the thread was put on the list.
THEOREM LookupIsCurrentHolds == DBSpec => []LookupIsCurrent
<1>1. DBInv => LookupIsCurrent
  BY DEF DBInv, Strict, Life, Listed, LookupIsCurrent
<1> QED
  BY <1>1, DBInvHolds, PTL

\* A walk that runs past the end of a list, or into the assertion of
\* thread_internals.c:285, has to do with a structure that was put on no list in this
\* process.
THEOREM DerefFindsHolds == DBSpec => []DerefFinds
<1>1. DBInv => DerefFinds
  BY DEF DBInv, Strict, Walks, DerefFinds
<1> QED
  BY <1>1, DBInvHolds, PTL
=============================================================================
