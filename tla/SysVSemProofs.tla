--------------------------- MODULE SysVSemProofs ---------------------------
(***************************************************************************)
(* System V semaphores for any number of processes, sets, vectors and calls.*)
(*                                                                          *)
(* The undo structures: an adjustment changes one value of the map that the *)
(* entries stand for (Adj) and the number of entries with it; the inverse   *)
(* adjustment changes both back.  So the rollback, which goes through the   *)
(* operations in the reverse order, meets in each step a structure with as  *)
(* many entries as the forward loop left it, and the space it needs.        *)
(*                                                                          *)
(* The pool: the sets lie apart, so that a call changes the values of one,  *)
(* and what is taken back leaves them as they were.                         *)
(*                                                                          *)
(* The wake-ups: a process that waits is counted at its semaphore until the *)
(* set is gone, and the values of a set change only with a post or by a     *)
(* call that looked at the counts.                                          *)
(*                                                                          *)
(* What the loops over a vector or a structure compute is shown by          *)
(* induction over sets of naturals.                                         *)
(***************************************************************************)
EXTENDS SysVSem, SafeEvClient, WellFoundedInduction, FiniteSetTheorems, SequenceTheorems, TLAPS

-----------------------------------------------------------------------------
(* Induction and recursion                                                  *)

\* Induction over the naturals, for sets.
LEMMA Induction ==
    ASSUME NEW S, 0 \in S, \A n \in Nat : n \in S => n + 1 \in S
    PROVE  Nat \subseteq S
<1> DEFINE R == OpToRel(<, Nat)
           T == Nat \ S
<1> SUFFICES ASSUME T # {} PROVE FALSE
  OBVIOUS
<1>1. PICK n \in T : \A m \in T : ~(<<m, n>> \in R)
  BY NatLessThanWellFounded, WFMin
<1>2. n \in Nat /\ n # 0 /\ n - 1 \in Nat /\ n - 1 < n
  <2>1. n \in Nat /\ n \notin S
    BY <1>1
  <2>2. n # 0
    BY <2>1
  <2> QED
    BY <2>1, <2>2
<1>3. <<n - 1, n>> \in R
  BY <1>2 DEF OpToRel
<1>4. n - 1 \in S
  BY <1>1, <1>2, <1>3
<1>5. (n - 1) + 1 = n
  BY <1>2
<1> QED
  BY <1>1, <1>2, <1>4, <1>5

\* f is defined by its first value and the steps h.
Recurs(f, N, X, v, h) ==
    /\ f \in [0 .. N -> X]
    /\ f[0] = v /\ \A i \in 1 .. N : f[i] = h[i][f[i - 1]]

\* A function on 0 .. N may be defined by its first value and a step.
LEMMA Recursion ==
    ASSUME NEW N \in Nat, NEW X, NEW v \in X, NEW h \in [1 .. N -> [X -> X]]
    PROVE  \E f : Recurs(f, N, X, v, h)
<1> DEFINE P(n) == \E f \in [0 .. n -> X] :
                     f[0] = v /\ \A i \in 1 .. n : f[i] = h[i][f[i - 1]]
           S == {n \in Nat : n <= N => P(n)}
<1>1. 0 \in S
  <2> DEFINE f == [i \in 0 .. 0 |-> v]
  <2>1. f \in [0 .. 0 -> X] /\ f[0] = v /\ 1 .. 0 = {}
    OBVIOUS
  <2> HIDE DEF f
  <2>2. P(0)
    BY <2>1
  <2> QED
    BY <2>2
<1>2. ASSUME NEW n \in Nat, n \in S PROVE n + 1 \in S
  <2> SUFFICES ASSUME n + 1 <= N PROVE P(n + 1)
    OBVIOUS
  <2>0. P(n)
    BY <1>2
  <2>1. PICK f \in [0 .. n -> X] :
          f[0] = v /\ \A i \in 1 .. n : f[i] = h[i][f[i - 1]]
    BY <2>0
  <2> DEFINE g == [i \in 0 .. n + 1 |-> IF i = n + 1 THEN h[n + 1][f[n]] ELSE f[i]]
  <2>2. f[n] \in X /\ n + 1 \in 1 .. N
    BY <2>1
  <2>3. h[n + 1][f[n]] \in X
    BY <2>2
  <2>4. \A i \in 0 .. n + 1 : i # n + 1 => i \in 0 .. n
    OBVIOUS
  <2>5. g \in [0 .. n + 1 -> X]
    BY <2>1, <2>3, <2>4
  <2>6. g[0] = v
    BY <2>1
  <2>7. ASSUME NEW i \in 1 .. n + 1 PROVE g[i] = h[i][g[i - 1]]
    <3>1. CASE i = n + 1
      <4>1. i \in 0 .. n + 1 /\ i - 1 = n /\ n \in 0 .. n + 1 /\ n # n + 1
        BY <3>1
      <4>2. g[i] = h[n + 1][f[n]] /\ g[n] = f[n]
        BY <3>1, <4>1
      <4> QED
        BY <3>1, <4>1, <4>2
    <3>2. CASE i # n + 1
      <4>1. i \in 1 .. n /\ i - 1 \in 0 .. n /\ i - 1 # n + 1 /\ i \in 0 .. n + 1 /\ i - 1 \in 0 .. n + 1
        BY <3>2
      <4>2. g[i] = f[i] /\ g[i - 1] = f[i - 1]
        BY <4>1, <3>2
      <4> QED
        BY <2>1, <4>1, <4>2
    <3> QED
      BY <3>1, <3>2
  <2> HIDE DEF g
  <2> QED
    BY <2>5, <2>6, <2>7
<1>3. Nat \subseteq S
  <2> HIDE DEF S
  <2> QED
    BY <1>1, <1>2, Induction
<1>4. N \in S
  BY <1>3
<1>5. P(N)
  BY <1>4
<1> QED
  BY <1>5 DEF Recurs

\* f takes the steps h as long as it stays in X.
Follows(f, N, X, v, h) ==
    /\ f = [i \in 0 .. N |-> f[i]]
    /\ f[0] = v /\ \A i \in 1 .. N : f[i - 1] \in X => f[i] = h[i][f[i - 1]]

\* It then stays in X.
LEMMA RecursionType ==
    ASSUME NEW N \in Nat, NEW X, NEW v \in X, NEW h \in [1 .. N -> [X -> X]], NEW f,
           Follows(f, N, X, v, h)
    PROVE  Recurs(f, N, X, v, h)
<1> USE DEF Follows
<1> DEFINE S == {i \in Nat : i <= N => f[i] \in X}
<1>1. 0 \in S
  OBVIOUS
<1>2. ASSUME NEW n \in Nat, n \in S PROVE n + 1 \in S
  <2> SUFFICES ASSUME n + 1 <= N PROVE f[n + 1] \in X
    OBVIOUS
  <2>1. n + 1 \in 1 .. N /\ (n + 1) - 1 = n /\ f[n] \in X
    BY <1>2
  <2>2. f[n + 1] = h[n + 1][f[n]]
    BY <2>1
  <2> QED
    BY <2>1, <2>2
<1> HIDE DEF S
<1>3. Nat \subseteq S
  BY <1>1, <1>2, Induction
<1>4. \A i \in 0 .. N : f[i] \in X
  BY <1>3 DEF S
<1>5. \A i \in 1 .. N : i - 1 \in 0 .. N
  OBVIOUS
<1> QED
  BY <1>4, <1>5 DEF Recurs
\* Adding at one place of a function keeps its type.
LEMMA AddAt ==
    ASSUME NEW D, NEW x \in [D -> Int], NEW n, NEW d \in Int
    PROVE  [x EXCEPT ![n] = @ + d] \in [D -> Int]
<1>1. CASE n \in D
  <2>1. x[n] + d \in Int
    BY <1>1
  <2> QED
    BY <2>1
<1>2. CASE n \notin D
  <2>1. [x EXCEPT ![n] = @ + d] = x
    BY <1>2
  <2> QED
    BY <2>1
<1> QED
  BY <1>1, <1>2

\* f adds the operations to the values one by one, or takes them off.
Sums(f, D, vals, sops, sign) ==
    /\ f \in [0 .. Len(sops) -> [D -> Int]]
    /\ f[0] = vals
    /\ \A i \in 1 .. Len(sops) :
         f[i] = [f[i - 1] EXCEPT ![sops[i].num] = @ + sign * sops[i].op]

\* That is what the loop over a vector does.
LEMMA AppliedIs ==
    ASSUME NEW sops \in Seq(Sops), NEW sign \in Int,
           NEW D, NEW vals \in [D -> Int], NEW f, f = Applied(vals, sops, sign)
    PROVE  Sums(f, D, vals, sops, sign)
<1> DEFINE N == Len(sops)
           X == [D -> Int]
           StepOf(x, i) == [x EXCEPT ![sops[i].num] = @ + sign * sops[i].op]
           h == [i \in 1 .. N |-> [x \in X |-> StepOf(x, i)]]
<1>1. N \in Nat
  OBVIOUS
<1>2. \A i \in 1 .. N : sops[i] \in Sops
  OBVIOUS
<1>3. \A x \in X, i \in 1 .. N : StepOf(x, i) \in X
  <2> SUFFICES ASSUME NEW x \in X, NEW i \in 1 .. N PROVE StepOf(x, i) \in X
    OBVIOUS
  <2>1. sops[i].op \in Int
    BY <1>2 DEF Sops
  <2> DEFINE d == sign * sops[i].op
  <2>2. d \in Int
    BY <2>1
  <2> HIDE DEF d
  <2>3. [x EXCEPT ![sops[i].num] = @ + d] \in X
    BY <2>2, AddAt
  <2> QED
    BY <2>3 DEF d
<1>4. f = [i \in 0 .. N |-> IF i = 0 THEN vals ELSE StepOf(f[i - 1], i)]
  <2> HIDE DEF StepOf
  <2>1. h \in [1 .. N -> [X -> X]]
    BY <1>3
  <2>2. \A x \in X, i \in 1 .. N : h[i][x] = StepOf(x, i)
    OBVIOUS
  <2> HIDE DEF h, X
  <2>3. vals \in X
    BY DEF X
  <2>4. PICK g \in [0 .. N -> X] : g[0] = vals /\ \A i \in 1 .. N : g[i] = h[i][g[i - 1]]
    <3>1. PICK g : Recurs(g, N, X, vals, h)
      <4> HIDE DEF N
      <4> QED
        BY <1>1, <2>1, <2>3, Recursion
    <3> QED
      BY <3>1 DEF Recurs
  <2>5. \A i \in 1 .. N : g[i] = StepOf(g[i - 1], i)
    <3> SUFFICES ASSUME NEW i \in 1 .. N PROVE g[i] = StepOf(g[i - 1], i)
      OBVIOUS
    <3>1. i - 1 \in 0 .. N
      BY <1>1
    <3> QED
      BY <2>2, <2>4, <3>1
  <2>6. \A i \in 0 .. N : g[i] = IF i = 0 THEN vals ELSE StepOf(g[i - 1], i)
    BY <1>1, <2>4, <2>5
  <2>7. g = [i \in 0 .. N |-> IF i = 0 THEN vals ELSE StepOf(g[i - 1], i)]
    BY <2>4, <2>6
  <2> QED
    BY <2>7 DEF Applied, StepOf
<1>5. f[0] = vals /\ \A i \in 1 .. N : f[i] = StepOf(f[i - 1], i)
  <2> HIDE DEF StepOf
  <2> QED
    BY <1>1, <1>4
<1>6. \A i \in 0 .. N : f[i] \in X
  <2> HIDE DEF StepOf
  <2>1. h \in [1 .. N -> [X -> X]]
    BY <1>3
  <2>2. \A i \in 1 .. N : f[i - 1] \in X => f[i] = h[i][f[i - 1]]
    BY <1>5
  <2>3. vals \in X /\ Follows(f, N, X, vals, h)
    BY <1>4, <1>5, <2>2 DEF Follows
  <2> HIDE DEF h, X, N
  <2>4. Recurs(f, N, X, vals, h)
    BY <1>1, <2>1, <2>3, RecursionType
  <2> QED
    BY <2>4 DEF Recurs
<1>7. f \in [0 .. N -> X]
  <2> HIDE DEF StepOf, X
  <2> QED
    BY <1>4, <1>6
<1> QED
  BY <1>5, <1>7 DEF Sums

-----------------------------------------------------------------------------
(* The undo structures                                                      *)

\* struct undo
Ents == [id : Nat, num : Nat, adj : Int]

\* A sem_undo as the code keeps it: no two entries for one semaphore, none that is
\* zero or beyond SEMAEM, and no more than there is room for.
Sound(un) ==
    /\ un \in Seq(Ents) /\ Len(un) <= SEMUME
    /\ \A i, j \in 1 .. Len(un) : un[i].id = un[j].id /\ un[i].num = un[j].num => i = j
    /\ \A i \in 1 .. Len(un) : un[i].adj # 0 /\ un[i].adj <= SEMAEM /\ un[i].adj >= -SEMAEM

\* v is what un holds for one semaphore.
Holds(un, e, n, v) ==
    \/ \E i \in 1 .. Len(un) : un[i].id = e /\ un[i].num = n /\ un[i].adj = v
    \/ v = 0 /\ \A i \in 1 .. Len(un) : ~(un[i].id = e /\ un[i].num = n)

\* Adj is that value.
LEMMA AdjHolds ==
    ASSUME NEW un, Sound(un), NEW e, NEW n
    PROVE  /\ Holds(un, e, n, Adj(un, e, n))
           /\ \A v : Holds(un, e, n, v) => v = Adj(un, e, n)
           /\ Adj(un, e, n) = 0 <=> Entry(un, e, n) = {}
           /\ Adj(un, e, n) \in Int /\ Adj(un, e, n) <= SEMAEM /\ Adj(un, e, n) >= -SEMAEM
<1>1. CASE Entry(un, e, n) = {}
  <2>1. Adj(un, e, n) = 0 /\ \A i \in 1 .. Len(un) : ~(un[i].id = e /\ un[i].num = n)
    BY <1>1 DEF Adj, Entry
  <2> QED
    BY <1>1, <2>1, LimitAssumption DEF Holds
<1>2. CASE Entry(un, e, n) # {}
  <2> DEFINE k == CHOOSE i \in Entry(un, e, n) : TRUE
  <2>1. k \in 1 .. Len(un) /\ un[k].id = e /\ un[k].num = n /\ Adj(un, e, n) = un[k].adj
    <3>1. k \in Entry(un, e, n)
      BY <1>2
    <3> QED
      BY <1>2, <3>1 DEF Adj, Entry
  <2> HIDE DEF k
  <2>2. un[k].adj \in Int
    <3>1. un[k] \in Ents
      BY <2>1 DEF Sound
    <3> QED
      BY <3>1 DEF Ents
  <2>3. un[k].adj # 0 /\ un[k].adj <= SEMAEM /\ un[k].adj >= -SEMAEM
    BY <2>1 DEF Sound
  <2>4. \A i \in 1 .. Len(un) : un[i].id = e /\ un[i].num = n => i = k
    BY <2>1 DEF Sound
  <2> QED
    BY <1>2, <2>1, <2>2, <2>3, <2>4 DEF Holds
<1> QED
  BY <1>1, <1>2

\* un2 holds what un does but for the semaphore n of e, ...
Keeps(un, un2, e, n) ==
    \A d, m, w : ~(d = e /\ m = n) /\ Holds(un, d, m, w) => Holds(un2, d, m, w)

\* ... for which it holds v.
Updated(un, un2, e, n, v) ==
    /\ Sound(un) /\ Sound(un2)
    /\ \A d, m : Adj(un2, d, m) = IF d = e /\ m = n THEN v ELSE Adj(un, d, m)

\* How the values change, from how the entries do
LEMMA AdjChanges ==
    ASSUME NEW un, NEW un2, Sound(un), Sound(un2), NEW e, NEW n, NEW v,
           Holds(un2, e, n, v), Keeps(un, un2, e, n)
    PROVE  Updated(un, un2, e, n, v)
<1> SUFFICES ASSUME NEW d, NEW m
             PROVE  Adj(un2, d, m) = IF d = e /\ m = n THEN v ELSE Adj(un, d, m)
  BY DEF Updated
<1>1. CASE d = e /\ m = n
  BY <1>1, AdjHolds
<1>2. CASE ~(d = e /\ m = n)
  <2>1. Holds(un, d, m, Adj(un, d, m))
    BY AdjHolds
  <2>2. Holds(un2, d, m, Adj(un, d, m))
    BY <1>2, <2>1 DEF Keeps
  <2> QED
    BY <1>2, <2>2, AdjHolds
<1> QED
  BY <1>1, <1>2

\* The last entry takes the place of one that is deleted.
LEMMA DeleteIs ==
    ASSUME NEW un, Sound(un), NEW k \in 1 .. Len(un)
    PROVE  /\ Updated(un, Delete(un, k), un[k].id, un[k].num, 0)
           /\ Len(Delete(un, k)) = Len(un) - 1
<1> DEFINE L == Len(un)
           un2 == [j \in 1 .. (L - 1) |-> IF j = k THEN un[L] ELSE un[j]]
           at(j) == IF j = k THEN L ELSE j
<1>1. L \in Nat /\ k \in Int /\ 1 <= k /\ k <= L /\ un \in Seq(Ents) /\ L <= SEMUME
  BY DEF Sound
<1>2. \A j \in 1 .. L : un[j] \in Ents
  BY <1>1
<1>3. \A j \in 1 .. L - 1 : at(j) \in 1 .. L /\ at(j) # k /\ un2[j] = un[at(j)]
  BY <1>1
<1>4. \A i, j \in 1 .. L - 1 : at(i) = at(j) => i = j
  BY <1>1
<1>5. un2 \in Seq(Ents) /\ Len(un2) = L - 1
  <2>1. un2 \in [1 .. L - 1 -> Ents]
    BY <1>1, <1>2
  <2>2. L - 1 \in Nat
    BY <1>1
  <2> HIDE DEF un2, L
  <2> QED
    BY <2>1, <2>2
<1>6. \A i \in 1 .. L : i # k => \E j \in 1 .. L - 1 : at(j) = i
  <2> SUFFICES ASSUME NEW i \in 1 .. L, i # k PROVE \E j \in 1 .. L - 1 : at(j) = i
    OBVIOUS
  <2>1. CASE i = L
    <3>1. k \in 1 .. L - 1 /\ at(k) = i
      BY <1>1, <2>1
    <3> QED
      BY <3>1
  <2>2. CASE i # L
    <3>1. i \in 1 .. L - 1 /\ at(i) = i
      BY <1>1, <2>2
    <3> QED
      BY <3>1
  <2> QED
    BY <2>1, <2>2
<1>7. Delete(un, k) = un2
  BY DEF Delete
<1> HIDE DEF un2, at
<1>8. Sound(un2)
  <2>1. ASSUME NEW i \in 1 .. L - 1, NEW j \in 1 .. L - 1,
               un2[i].id = un2[j].id, un2[i].num = un2[j].num
        PROVE  i = j
    <3>1. at(i) = at(j)
      BY <1>3, <2>1 DEF Sound
    <3> QED
      BY <1>4, <3>1
  <2>2. \A i \in 1 .. L - 1 : un2[i].adj # 0 /\ un2[i].adj <= SEMAEM /\ un2[i].adj >= -SEMAEM
    BY <1>3 DEF Sound
  <2>3. L - 1 <= SEMUME
    BY <1>1, LimitAssumption
  <2> QED
    BY <1>5, <2>1, <2>2, <2>3 DEF Sound
<1>9. Holds(un2, un[k].id, un[k].num, 0)
  <2>1. \A i \in 1 .. L - 1 : ~(un2[i].id = un[k].id /\ un2[i].num = un[k].num)
    BY <1>3 DEF Sound
  <2> QED
    BY <1>5, <2>1 DEF Holds
<1>10. ASSUME NEW d, NEW m, NEW w, ~(d = un[k].id /\ m = un[k].num), Holds(un, d, m, w)
       PROVE  Holds(un2, d, m, w)
  <2>1. CASE \E i \in 1 .. L : un[i].id = d /\ un[i].num = m /\ un[i].adj = w
    <3>1. PICK i \in 1 .. L : un[i].id = d /\ un[i].num = m /\ un[i].adj = w
      BY <2>1
    <3>2. i # k
      BY <1>10, <3>1
    <3>3. PICK j \in 1 .. L - 1 : at(j) = i
      BY <1>6, <3>2
    <3> QED
      BY <1>3, <1>5, <3>1, <3>3 DEF Holds
  <2>2. CASE w = 0 /\ \A i \in 1 .. L : ~(un[i].id = d /\ un[i].num = m)
    BY <1>3, <1>5, <2>2 DEF Holds
  <2> QED
    BY <1>10, <2>1, <2>2 DEF Holds
<1>11. Updated(un, un2, un[k].id, un[k].num, 0)
  <2>1. Keeps(un, un2, un[k].id, un[k].num)
    BY <1>10 DEF Keeps
  <2> QED
    BY <1>8, <1>9, <2>1, AdjChanges
<1> QED
  BY <1>5, <1>7, <1>11

\* An entry for a semaphore that has none
LEMMA AppendIs ==
    ASSUME NEW un, Sound(un), NEW e \in Nat, NEW n \in Nat, NEW v \in Int,
           Entry(un, e, n) = {}, Len(un) < SEMUME, v # 0, v <= SEMAEM, v >= -SEMAEM,
           NEW un2, un2 = Append(un, [id |-> e, num |-> n, adj |-> v])
    PROVE  Updated(un, un2, e, n, v) /\ Len(un2) = Len(un) + 1
<1> DEFINE x == [id |-> e, num |-> n, adj |-> v]
           L == Len(un)
<1>1. x \in Ents /\ x.id = e /\ x.num = n /\ x.adj = v
  BY DEF Ents
<1>2. un \in Seq(Ents) /\ L \in Nat
  BY DEF Sound
<1>3. /\ un2 \in Seq(Ents) /\ Len(un2) = L + 1
      /\ \A i \in 1 .. L : un2[i] = un[i]
      /\ un2[L + 1] = x
  BY <1>1, <1>2, AppendProperties
<1>4. \A i \in 1 .. L + 1 : i \in 1 .. L \/ i = L + 1
  BY <1>2
<1>5. L + 1 \in 1 .. L + 1 /\ 1 .. L \subseteq 1 .. L + 1 /\ L + 1 <= SEMUME
  BY <1>2, LimitAssumption
<1>6. \A i \in 1 .. L : ~(un[i].id = e /\ un[i].num = n)
  BY DEF Entry
<1> HIDE DEF x
<1>7. Sound(un2)
  <2>1. ASSUME NEW i \in 1 .. L + 1, NEW j \in 1 .. L + 1,
               un2[i].id = un2[j].id, un2[i].num = un2[j].num
        PROVE  i = j
    BY <1>1, <1>3, <1>4, <1>6, <2>1 DEF Sound
  <2>2. \A i \in 1 .. L + 1 : un2[i].adj # 0 /\ un2[i].adj <= SEMAEM /\ un2[i].adj >= -SEMAEM
    BY <1>1, <1>3, <1>4 DEF Sound
  <2> QED
    BY <1>3, <1>5, <2>1, <2>2 DEF Sound
<1>8. Holds(un2, e, n, v)
  BY <1>1, <1>3, <1>5 DEF Holds
<1>9. ASSUME NEW d, NEW m, NEW w, ~(d = e /\ m = n), Holds(un, d, m, w)
      PROVE  Holds(un2, d, m, w)
  <2>1. \A i \in 1 .. L + 1 : un2[i].id = d /\ un2[i].num = m => i \in 1 .. L
    BY <1>1, <1>3, <1>4, <1>9
  <2> QED
    BY <1>3, <1>5, <1>9, <2>1 DEF Holds
<1>10. Keeps(un, un2, e, n)
  BY <1>9 DEF Keeps
<1> QED
  BY <1>3, <1>7, <1>8, <1>10, AdjChanges

\* The value of an entry replaced by another that is not zero
LEMMA ReplaceIs ==
    ASSUME NEW un, Sound(un), NEW k \in 1 .. Len(un), NEW v \in Int,
           v # 0, v <= SEMAEM, v >= -SEMAEM, NEW un2, un2 = [un EXCEPT ![k].adj = v]
    PROVE  Updated(un, un2, un[k].id, un[k].num, v) /\ Len(un2) = Len(un)
<1> DEFINE L == Len(un)
<1>1. un \in Seq(Ents) /\ L \in Nat /\ un \in [1 .. L -> Ents]
  BY DEF Sound
<1>2. \A i \in 1 .. L : un[i] \in Ents
  BY <1>1
<1>3. [un[k] EXCEPT !.adj = v] \in Ents /\ [un[k] EXCEPT !.adj = v].id = un[k].id
      /\ [un[k] EXCEPT !.adj = v].num = un[k].num /\ [un[k] EXCEPT !.adj = v].adj = v
  BY <1>2 DEF Ents
<1>4. un2 \in [1 .. L -> Ents] /\ \A i \in 1 .. L : i # k => un2[i] = un[i]
  BY <1>1, <1>3
<1>5. un2[k].id = un[k].id /\ un2[k].num = un[k].num /\ un2[k].adj = v
  BY <1>1, <1>3
<1>6. un2 \in Seq(Ents) /\ Len(un2) = L
  <2> HIDE DEF L
  <2> QED
    BY <1>1, <1>4
<1>7. \A i \in 1 .. L : un2[i].id = un[i].id /\ un2[i].num = un[i].num
  BY <1>4, <1>5
<1>8. Sound(un2)
  <2>1. \A i \in 1 .. L : un2[i].adj # 0 /\ un2[i].adj <= SEMAEM /\ un2[i].adj >= -SEMAEM
    BY <1>4, <1>5 DEF Sound
  <2>2. \A i, j \in 1 .. L : un2[i].id = un2[j].id /\ un2[i].num = un2[j].num => i = j
    BY <1>7 DEF Sound
  <2>3. L <= SEMUME
    BY DEF Sound
  <2> HIDE DEF L
  <2> QED
    BY <1>6, <2>1, <2>2, <2>3 DEF Sound
<1>9. Holds(un2, un[k].id, un[k].num, v)
  BY <1>5, <1>6 DEF Holds
<1>10. ASSUME NEW d, NEW m, NEW w, ~(d = un[k].id /\ m = un[k].num), Holds(un, d, m, w)
       PROVE  Holds(un2, d, m, w)
  BY <1>4, <1>6, <1>7, <1>10 DEF Holds
<1>11. Updated(un, un2, un[k].id, un[k].num, v)
  <2>1. Keeps(un, un2, un[k].id, un[k].num)
    BY <1>10 DEF Keeps
  <2> QED
    BY <1>8, <1>9, <2>1, AdjChanges
<1> QED
  BY <1>6, <1>11

\* One adjustment of un leads to un2.
Adjusted(un, ix, num, a, un2) ==
    /\ Updated(un, un2, ix, num, Adj(un, ix, num) + a)
    /\ Len(un2) = Len(un) + (IF Adj(un, ix, num) = 0 THEN 1 ELSE 0)
                          - (IF Adj(un, ix, num) + a = 0 THEN 1 ELSE 0)

\* semundo_adjust fails for want of room or range, and changes one value otherwise.
LEMMA AdjustIs ==
    ASSUME NEW un, Sound(un), NEW ix \in Nat, NEW num \in Nat, NEW a \in Int, a # 0,
           NEW r, r = Adjust(un, ix, num, a)
    PROVE  /\ r.ok \in BOOLEAN
           /\ r.ok => Adjusted(un, ix, num, a, r.un)
           /\ ~r.ok => r.un = un
           /\ /\ Adj(un, ix, num) + a <= SEMAEM /\ Adj(un, ix, num) + a >= -SEMAEM
              /\ Adj(un, ix, num) # 0 \/ Len(un) < SEMUME
              => r.ok
<1> DEFINE E == Entry(un, ix, num)
           w == Adj(un, ix, num)
<1>1. w \in Int /\ (w = 0 <=> E = {}) /\ Len(un) \in Nat /\ Len(un) <= SEMUME
  BY AdjHolds DEF Sound
<1>2. CASE E = {}
  <2>1. CASE a > SEMAEM \/ a < -SEMAEM \/ Len(un) = SEMUME
    <3>1. r.ok = FALSE /\ r.un = un
      BY <1>2, <2>1 DEF Adjust
    <3>2. ~(w + a <= SEMAEM /\ w + a >= -SEMAEM /\ (w # 0 \/ Len(un) < SEMUME))
      BY <1>1, <1>2, <2>1, LimitAssumption
    <3> QED
      BY <3>1, <3>2
  <2>2. CASE ~(a > SEMAEM \/ a < -SEMAEM \/ Len(un) = SEMUME)
    <3>1. r.ok = TRUE /\ r.un = Append(un, [id |-> ix, num |-> num, adj |-> a])
      BY <1>2, <2>2 DEF Adjust
    <3>2. a <= SEMAEM /\ a >= -SEMAEM /\ Len(un) < SEMUME
      BY <1>1, <2>2, LimitAssumption
    <3>3. Updated(un, r.un, ix, num, a) /\ Len(r.un) = Len(un) + 1
      BY <1>2, <3>1, <3>2, AppendIs
    <3>4. w = 0 /\ w + a = a
      BY <1>1, <1>2
    <3>5. Adjusted(un, ix, num, a, r.un)
      BY <1>1, <3>3, <3>4 DEF Adjusted
    <3> QED
      BY <3>1, <3>5
  <2> QED
    BY <2>1, <2>2
<1>3. CASE E # {}
  <2> DEFINE k == CHOOSE j \in E : TRUE
  <2>1. /\ k \in 1 .. Len(un) /\ un[k].id = ix /\ un[k].num = num /\ un[k].adj = w
        /\ r = IF un[k].adj + a > SEMAEM \/ un[k].adj + a < -SEMAEM THEN [ok |-> FALSE, un |-> un]
               ELSE IF un[k].adj + a = 0 THEN [ok |-> TRUE, un |-> Delete(un, k)]
               ELSE [ok |-> TRUE, un |-> [un EXCEPT ![k].adj = un[k].adj + a]]
    <3>1. k \in E
      BY <1>3
    <3> QED
      BY <1>3, <3>1 DEF Adjust, Adj, Entry
  <2> HIDE DEF k
  <2>2. w # 0
    BY <1>1, <1>3
  <2>3. CASE w + a > SEMAEM \/ w + a < -SEMAEM
    <3>1. r.ok = FALSE /\ r.un = un
      BY <2>1, <2>3
    <3>2. ~(w + a <= SEMAEM /\ w + a >= -SEMAEM)
      BY <1>1, <2>3, LimitAssumption
    <3> QED
      BY <3>1, <3>2
  <2>4. CASE ~(w + a > SEMAEM \/ w + a < -SEMAEM) /\ w + a = 0
    <3>1. r.ok = TRUE /\ r.un = Delete(un, k)
      BY <2>1, <2>4
    <3>2. Updated(un, r.un, ix, num, 0) /\ Len(r.un) = Len(un) - 1
      BY <2>1, <3>1, DeleteIs
    <3>3. Adjusted(un, ix, num, a, r.un)
      BY <1>1, <2>2, <2>4, <3>2 DEF Adjusted
    <3> QED
      BY <3>1, <3>3
  <2>5. CASE ~(w + a > SEMAEM \/ w + a < -SEMAEM) /\ w + a # 0
    <3>1. r.ok = TRUE /\ r.un = [un EXCEPT ![k].adj = w + a]
      BY <2>1, <2>5
    <3>2. w + a \in Int /\ w + a # 0 /\ w + a <= SEMAEM /\ w + a >= -SEMAEM
      BY <1>1, <2>5, LimitAssumption
    <3>3. Updated(un, r.un, ix, num, w + a) /\ Len(r.un) = Len(un)
      BY <2>1, <3>1, <3>2, ReplaceIs
    <3>4. Adjusted(un, ix, num, a, r.un)
      BY <1>1, <2>2, <3>2, <3>3 DEF Adjusted
    <3> QED
      BY <3>1, <3>4
  <2> QED
    BY <2>3, <2>4, <2>5
<1> QED
  BY <1>2, <1>3

\* Two structures with the same values and as many entries
Same(u, v) == Sound(u) /\ Sound(v) /\ Len(u) = Len(v) /\ \A d, m : Adj(u, d, m) = Adj(v, d, m)

\* An adjustment can be taken back from any structure like the one it led to, and that
\* leads to one like it was made from.
LEMMA AdjustBack ==
    ASSUME NEW un, NEW un2, NEW u, NEW ix \in Nat, NEW num \in Nat, NEW a \in Int, a # 0,
           Adjusted(un, ix, num, -a, un2), Same(u, un2), NEW r, r = Adjust(u, ix, num, a)
    PROVE  r.ok /\ Same(r.un, un)
<1> DEFINE w == Adj(un, ix, num)
<1>1. w \in Int /\ w <= SEMAEM /\ w >= -SEMAEM
  BY AdjHolds DEF Adjusted, Updated
<1>2. Adj(u, ix, num) = w + (-a) /\ Adj(u, ix, num) + a = w
  BY <1>1 DEF Adjusted, Updated, Same
<1>3. /\ Len(un) \in Nat /\ Len(un) <= SEMUME
      /\ Len(u) = Len(un) + (IF w = 0 THEN 1 ELSE 0) - (IF w + (-a) = 0 THEN 1 ELSE 0)
  BY DEF Adjusted, Updated, Same, Sound
<1>4. Adj(u, ix, num) # 0 \/ Len(u) < SEMUME
  <2>1. SEMUME \in Nat
    BY LimitAssumption
  <2>2. CASE w = 0
    <3>1. w + (-a) # 0
      BY <2>2
    <3> QED
      BY <1>2, <3>1
  <2>3. CASE w # 0 /\ w + (-a) = 0
    <3>1. Len(u) = Len(un) - 1
      BY <1>3, <2>3
    <3>2. Len(un) \in Nat /\ Len(un) <= SEMUME
      BY <1>3
    <3>3. Len(u) < SEMUME
      BY <2>1, <3>1, <3>2
    <3> QED
      BY <3>3
  <2>4. CASE w + (-a) # 0
    BY <1>2, <2>4
  <2> QED
    BY <2>2, <2>3, <2>4
<1>5. r.ok /\ Adjusted(u, ix, num, a, r.un)
  BY <1>1, <1>2, <1>4, AdjustIs DEF Same
<1>6. Len(r.un) = Len(un)
  BY <1>1, <1>2, <1>3, <1>5 DEF Adjusted
<1>7. \A d, m : Adj(r.un, d, m) = Adj(un, d, m)
  BY <1>2, <1>5 DEF Adjusted, Updated, Same
<1> QED
  BY <1>5, <1>6, <1>7 DEF Adjusted, Updated, Same

-----------------------------------------------------------------------------
(* The undo loops                                                           *)

Undos == {u \in Seq(Ents) : Sound(u)}

\* How far the undo loop of semop has come, and its rollback
Forth == [un : Undos, at : Nat]
Back == [un : Undos, ok : BOOLEAN]

\* The turns of the two loops
ForthStep(x, ix, sop, i) ==
    IF x.at # 0 \/ ~IsUndo(sop) THEN x
    ELSE LET a == Adjust(x.un, ix, sop.num, -sop.op)
         IN  [un |-> a.un, at |-> IF a.ok THEN 0 ELSE i]

BackStep(x, ix, sop) ==
    IF ~IsUndo(sop) THEN x
    ELSE LET a == Adjust(x.un, ix, sop.num, sop.op)
         IN  [un |-> a.un, ok |-> x.ok /\ a.ok]

LEMMA StepsTyped ==
    ASSUME NEW ix \in Nat, NEW sop \in Sops
    PROVE  /\ \A x \in Forth, i \in Nat : ForthStep(x, ix, sop, i) \in Forth
           /\ \A x \in Back : BackStep(x, ix, sop) \in Back
<1>1. sop.num \in Nat /\ sop.op \in Int /\ -sop.op \in Int
  BY DEF Sops
<1>2. ASSUME NEW u \in Undos, NEW d \in Int, d # 0
      PROVE  /\ Adjust(u, ix, sop.num, d).un \in Undos
             /\ Adjust(u, ix, sop.num, d).ok \in BOOLEAN
  <2> DEFINE a == Adjust(u, ix, sop.num, d)
  <2>1. Sound(u)
    BY DEF Undos
  <2>2. /\ a.ok \in BOOLEAN
        /\ a.ok => Adjusted(u, ix, sop.num, d, a.un)
        /\ ~a.ok => a.un = u
    <3> HIDE DEF a
    <3>1. a = Adjust(u, ix, sop.num, d)
      BY DEF a
    <3> QED
      BY <1>1, <1>2, <2>1, <3>1, AdjustIs
  <2>3. Sound(a.un)
    BY <2>1, <2>2 DEF Adjusted, Updated
  <2>4. a.un \in Seq(Ents)
    BY <2>3 DEF Sound
  <2> QED
    BY <2>2, <2>3, <2>4 DEF Undos
<1>3. ASSUME NEW x \in Forth, NEW i \in Nat PROVE ForthStep(x, ix, sop, i) \in Forth
  <2>1. CASE x.at # 0 \/ ~IsUndo(sop)
    BY <2>1 DEF ForthStep
  <2>2. CASE ~(x.at # 0 \/ ~IsUndo(sop))
    <3> DEFINE a == Adjust(x.un, ix, sop.num, -sop.op)
    <3>1. x.un \in Undos
      BY DEF Forth
    <3>2. -sop.op # 0
      BY <1>1, <2>2 DEF IsUndo
    <3>3. a.un \in Undos
      BY <1>1, <1>2, <3>1, <3>2
    <3>4. ForthStep(x, ix, sop, i) = [un |-> a.un, at |-> IF a.ok THEN 0 ELSE i]
      BY <2>2 DEF ForthStep
    <3> HIDE DEF a
    <3> QED
      BY <3>3, <3>4 DEF Forth
  <2> QED
    BY <2>1, <2>2
<1>4. ASSUME NEW x \in Back PROVE BackStep(x, ix, sop) \in Back
  <2>1. CASE ~IsUndo(sop)
    BY <2>1 DEF BackStep
  <2>2. CASE IsUndo(sop)
    <3> DEFINE a == Adjust(x.un, ix, sop.num, sop.op)
    <3>1. x.un \in Undos
      BY DEF Back
    <3>2. sop.op # 0
      BY <2>2 DEF IsUndo
    <3>3. a.un \in Undos
      BY <1>1, <1>2, <3>1, <3>2
    <3>4. BackStep(x, ix, sop) = [un |-> a.un, ok |-> x.ok /\ a.ok]
      BY <2>2 DEF BackStep
    <3> HIDE DEF a
    <3> QED
      BY <3>3, <3>4 DEF Back
  <2> QED
    BY <2>1, <2>2
<1> QED
  BY <1>3, <1>4

\* What the undo loop of semop does, turn by turn
LEMMA AdjustAllIs ==
    ASSUME NEW un0, Sound(un0), NEW ix \in Nat, NEW sops \in Seq(Sops),
           NEW f, f = AdjustAll(un0, ix, sops)
    PROVE  /\ f \in [0 .. Len(sops) -> Forth]
           /\ f[0] = [un |-> un0, at |-> 0]
           /\ \A i \in 1 .. Len(sops) : f[i] = ForthStep(f[i - 1], ix, sops[i], i)
<1> DEFINE N == Len(sops)
           v == [un |-> un0, at |-> 0]
           h == [i \in 1 .. N |-> [x \in Forth |-> ForthStep(x, ix, sops[i], i)]]
<1>1. N \in Nat
  OBVIOUS
<1>2. v \in Forth
  <2>1. un0 \in Undos
    BY DEF Undos, Sound
  <2> QED
    BY <2>1 DEF Forth
<1>3. \A i \in 1 .. N : sops[i] \in Sops /\ i \in Nat
  OBVIOUS
<1>4. \A x \in Forth, i \in 1 .. N : ForthStep(x, ix, sops[i], i) \in Forth
  BY <1>3, StepsTyped
<1>5. h \in [1 .. N -> [Forth -> Forth]]
  BY <1>4
<1>6. \A x \in Forth, i \in 1 .. N : h[i][x] = ForthStep(x, ix, sops[i], i)
  OBVIOUS
<1> HIDE DEF h
<1>7. f = [i \in 0 .. N |-> IF i = 0 THEN v ELSE ForthStep(f[i - 1], ix, sops[i], i)]
  <2>1. PICK g : Recurs(g, N, Forth, v, h)
    <3> HIDE DEF N, v
    <3> QED
      BY <1>1, <1>2, <1>5, Recursion
  <2>2. g \in [0 .. N -> Forth] /\ g[0] = v /\ \A i \in 1 .. N : g[i] = h[i][g[i - 1]]
    BY <2>1 DEF Recurs
  <2>3. \A i \in 1 .. N : i - 1 \in 0 .. N
    BY <1>1
  <2>4. \A i \in 1 .. N : g[i] = ForthStep(g[i - 1], ix, sops[i], i)
    <3> HIDE DEF N, v
    <3> QED
      BY <1>6, <2>2, <2>3
  <2>5. \A i \in 0 .. N : i = 0 \/ i \in 1 .. N
    BY <1>1
  <2>6. g = [i \in 0 .. N |-> IF i = 0 THEN v ELSE ForthStep(g[i - 1], ix, sops[i], i)]
    <3> HIDE DEF N, v
    <3> QED
      BY <2>2, <2>4, <2>5
  <2> QED
    BY <2>6 DEF AdjustAll, ForthStep
<1>8. 0 \in 0 .. N /\ \A i \in 1 .. N : i \in 0 .. N /\ i # 0
  BY <1>1
<1> HIDE DEF N, v
<1>9. f[0] = v /\ \A i \in 1 .. N : f[i] = ForthStep(f[i - 1], ix, sops[i], i)
  BY <1>7, <1>8
<1>10. Recurs(f, N, Forth, v, h)
  <2>1. f = [i \in 0 .. N |-> f[i]]
    BY <1>7
  <2>2. Follows(f, N, Forth, v, h)
    BY <1>6, <1>9, <2>1 DEF Follows
  <2> QED
    BY <1>1, <1>2, <1>5, <2>2, RecursionType
<1> QED
  BY <1>9, <1>10 DEF Recurs, N, v

\* What its rollback does, turn by turn
LEMMA ReadjustIs ==
    ASSUME NEW un0, Sound(un0), NEW ix \in Nat, NEW sops \in Seq(Sops),
           NEW at \in 1 .. Len(sops), NEW f, f = Readjust(un0, ix, sops, at)
    PROVE  /\ f \in [0 .. at - 1 -> Back]
           /\ f[0] = [un |-> un0, ok |-> TRUE]
           /\ \A j \in 1 .. at - 1 : f[j] = BackStep(f[j - 1], ix, sops[at - j])
<1> DEFINE N == at - 1
           v == [un |-> un0, ok |-> TRUE]
           h == [j \in 1 .. N |-> [x \in Back |-> BackStep(x, ix, sops[at - j])]]
<1>1. N \in Nat
  OBVIOUS
<1>2. v \in Back
  <2>1. un0 \in Undos
    BY DEF Undos, Sound
  <2> QED
    BY <2>1 DEF Back
<1>3. \A j \in 1 .. N : sops[at - j] \in Sops
  <2>1. \A j \in 1 .. N : at - j \in 1 .. Len(sops)
    OBVIOUS
  <2> QED
    BY <2>1
<1>4. \A x \in Back, j \in 1 .. N : BackStep(x, ix, sops[at - j]) \in Back
  BY <1>3, StepsTyped
<1>5. h \in [1 .. N -> [Back -> Back]]
  BY <1>4
<1>6. \A x \in Back, j \in 1 .. N : h[j][x] = BackStep(x, ix, sops[at - j])
  OBVIOUS
<1> HIDE DEF h
<1>7. f = [j \in 0 .. N |-> IF j = 0 THEN v ELSE BackStep(f[j - 1], ix, sops[at - j])]
  <2>1. PICK g : Recurs(g, N, Back, v, h)
    <3> HIDE DEF N, v
    <3> QED
      BY <1>1, <1>2, <1>5, Recursion
  <2>2. g \in [0 .. N -> Back] /\ g[0] = v /\ \A j \in 1 .. N : g[j] = h[j][g[j - 1]]
    BY <2>1 DEF Recurs
  <2>3. \A j \in 1 .. N : j - 1 \in 0 .. N
    BY <1>1
  <2>4. \A j \in 1 .. N : g[j] = BackStep(g[j - 1], ix, sops[at - j])
    <3> HIDE DEF N, v
    <3> QED
      BY <1>6, <2>2, <2>3
  <2>5. \A j \in 0 .. N : j = 0 \/ j \in 1 .. N
    BY <1>1
  <2>6. g = [j \in 0 .. N |-> IF j = 0 THEN v ELSE BackStep(g[j - 1], ix, sops[at - j])]
    <3> HIDE DEF N, v
    <3> QED
      BY <2>2, <2>4, <2>5
  <2> QED
    BY <2>6 DEF Readjust, BackStep
<1>8. 0 \in 0 .. N /\ \A j \in 1 .. N : j \in 0 .. N /\ j # 0
  BY <1>1
<1> HIDE DEF N, v
<1>9. f[0] = v /\ \A j \in 1 .. N : f[j] = BackStep(f[j - 1], ix, sops[at - j])
  BY <1>7, <1>8
<1>10. Recurs(f, N, Back, v, h)
  <2>1. f = [j \in 0 .. N |-> f[j]]
    BY <1>7
  <2>2. Follows(f, N, Back, v, h)
    BY <1>6, <1>9, <2>1 DEF Follows
  <2> QED
    BY <1>1, <1>2, <1>5, <2>2, RecursionType
<1> QED
  BY <1>9, <1>10 DEF Recurs, N, v

\* The structures that the adjustments of the first n operations lead through
Chain(u, ix, sops, n) ==
    /\ \A i \in 0 .. n : Sound(u[i])
    /\ \A i \in 1 .. n :
         IF IsUndo(sops[i]) THEN Adjusted(u[i - 1], ix, sops[i].num, -sops[i].op, u[i])
                            ELSE u[i] = u[i - 1]

\* The loop goes along a chain to its end, or to the first adjustment that fails.
LEMMA AdjustAllChain ==
    ASSUME NEW un0, Sound(un0), NEW ix \in Nat, NEW sops \in Seq(Sops),
           NEW f, f = AdjustAll(un0, ix, sops), NEW r, r = f[Len(sops)]
    PROVE  /\ r.at \in 0 .. Len(sops)
           /\ \E u : /\ u[0] = un0
                     /\ r.at = 0 => Chain(u, ix, sops, Len(sops)) /\ r.un = u[Len(sops)]
                     /\ r.at # 0 => Chain(u, ix, sops, r.at - 1) /\ r.un = u[r.at - 1]
<1> DEFINE N == Len(sops)
           u == [i \in 0 .. N |-> f[i].un]
           Link(i) == IF IsUndo(sops[i])
                      THEN Adjusted(f[i - 1].un, ix, sops[i].num, -sops[i].op, f[i].un)
                      ELSE f[i].un = f[i - 1].un
           Good(n) == /\ f[n].at \in 0 .. n
                      /\ f[n].at = 0 => \A i \in 1 .. n : Link(i)
                      /\ f[n].at # 0 => /\ f[n].un = f[f[n].at - 1].un
                                        /\ \A i \in 1 .. f[n].at - 1 : Link(i)
           S == {n \in Nat : n <= N => Good(n)}
<1>1. N \in Nat
  OBVIOUS
<1>2. /\ f \in [0 .. N -> Forth] /\ f[0] = [un |-> un0, at |-> 0]
      /\ \A i \in 1 .. N : f[i] = ForthStep(f[i - 1], ix, sops[i], i)
  BY AdjustAllIs
<1>3. \A i \in 0 .. N : f[i].un \in Undos /\ f[i].at \in Nat
  <2> HIDE DEF N
  <2>1. \A i \in 0 .. N : f[i] \in Forth
    BY <1>2
  <2> QED
    BY <2>1 DEF Forth
<1>4. 0 \in S
  <2>1. f[0].at = 0 /\ 1 .. 0 = {}
    BY <1>2
  <2>2. Good(0)
    BY <2>1
  <2> QED
    BY <2>2
<1>5. ASSUME NEW n \in Nat, n \in S PROVE n + 1 \in S
  <2> SUFFICES ASSUME n + 1 <= N PROVE Good(n + 1)
    OBVIOUS
  <2>0. Good(n)
    BY <1>5
  <2>1. n \in 0 .. N /\ n + 1 \in 1 .. N /\ (n + 1) - 1 = n
    BY <1>1
  <2> DEFINE x == f[n]
             y == f[n + 1]
             sop == sops[n + 1]
  <2>2. y = ForthStep(x, ix, sop, n + 1)
    BY <1>2, <2>1
  <2>3. sop \in Sops
    BY <2>1
  <2>4. sop.num \in Nat /\ sop.op \in Int /\ -sop.op \in Int
    BY <2>3 DEF Sops
  <2>5. CASE x.at # 0
    <3>1. y = x
      BY <2>2, <2>5 DEF ForthStep
    <3>2. y.at \in 0 .. n + 1
      BY <2>0, <3>1
    <3> HIDE DEF Link
    <3> QED
      BY <2>0, <2>5, <3>1, <3>2
  <2>6. CASE x.at = 0 /\ ~IsUndo(sop)
    <3>1. y = x
      BY <2>2, <2>6 DEF ForthStep
    <3>2. Link(n + 1)
      BY <2>1, <2>6, <3>1
    <3>3. y.at = 0
      BY <2>6, <3>1
    <3>4. \A i \in 1 .. n + 1 : i \in 1 .. n \/ i = n + 1
      OBVIOUS
    <3> HIDE DEF Link
    <3> QED
      BY <2>0, <2>6, <3>2, <3>3, <3>4
  <2>7. CASE x.at = 0 /\ IsUndo(sop)
    <3> DEFINE a == Adjust(x.un, ix, sop.num, -sop.op)
    <3>1. y = [un |-> a.un, at |-> IF a.ok THEN 0 ELSE n + 1]
      BY <2>2, <2>7 DEF ForthStep
    <3>2. -sop.op # 0
      BY <2>4, <2>7 DEF IsUndo
    <3>3. Sound(x.un)
      BY <1>3, <2>1 DEF Undos
    <3>4. a.ok \in BOOLEAN /\ (a.ok => Adjusted(x.un, ix, sop.num, -sop.op, a.un))
          /\ (~a.ok => a.un = x.un)
      <4> DEFINE un == x.un
                 num == sop.num
                 d == -sop.op
      <4>1. num \in Nat /\ d \in Int /\ d # 0 /\ Sound(un) /\ a = Adjust(un, ix, num, d)
        BY <2>4, <3>2, <3>3
      <4> HIDE DEF a, un, num, d
      <4>2. a.ok \in BOOLEAN /\ (a.ok => Adjusted(un, ix, num, d, a.un)) /\ (~a.ok => a.un = un)
        BY <4>1, AdjustIs
      <4> QED
        BY <4>2 DEF un, num, d
    <3>5. CASE a.ok
      <4>1. y.at = 0 /\ y.un = a.un
        BY <3>1, <3>5
      <4>2. Link(n + 1)
        BY <2>1, <2>7, <3>4, <3>5, <4>1
      <4>3. \A i \in 1 .. n + 1 : i \in 1 .. n \/ i = n + 1
        OBVIOUS
      <4> HIDE DEF Link
      <4> QED
        BY <2>0, <2>7, <4>1, <4>2, <4>3
    <3>6. CASE ~a.ok
      <4>1. y.at = n + 1 /\ y.un = x.un
        BY <3>1, <3>4, <3>6
      <4> HIDE DEF Link
      <4>2. \A i \in 1 .. n : Link(i)
        BY <2>0, <2>7
      <4> QED
        BY <2>1, <4>1, <4>2
    <3> QED
      BY <3>4, <3>5, <3>6
  <2> QED
    BY <2>5, <2>6, <2>7
<1>6. Nat \subseteq S
  <2> HIDE DEF S
  <2> QED
    BY <1>4, <1>5, Induction
<1>7. N \in S
  BY <1>1, <1>6
<1>8. Good(N)
  BY <1>1, <1>7
<1>9. \A i \in 0 .. N : u[i] = f[i].un /\ Sound(u[i])
  BY <1>3 DEF Undos
<1>10. \A n \in 0 .. N : (\A i \in 1 .. n : Link(i)) => Chain(u, ix, sops, n)
  <2> SUFFICES ASSUME NEW n \in 0 .. N, \A i \in 1 .. n : Link(i) PROVE Chain(u, ix, sops, n)
    OBVIOUS
  <2>1. \A i \in 0 .. n : i \in 0 .. N
    BY <1>1
  <2>2. \A i \in 1 .. n : i \in 0 .. N /\ i - 1 \in 0 .. N
    BY <1>1
  <2> HIDE DEF u, N
  <2> QED
    BY <1>9, <2>1, <2>2 DEF Chain
<1>11. u[0] = un0
  BY <1>1, <1>2
<1>12. N \in 0 .. N /\ (r.at # 0 => r.at - 1 \in 0 .. N)
  BY <1>1, <1>8
<1> HIDE DEF u, N, Link
<1>13. r.at \in 0 .. N
  BY <1>8 DEF N
<1>14. CASE r.at = 0
  <2>1. Chain(u, ix, sops, N) /\ r.un = u[N]
    BY <1>8, <1>9, <1>10, <1>12, <1>14 DEF N
  <2> QED
    BY <1>11, <1>13, <1>14, <2>1 DEF N
<1>15. CASE r.at # 0
  <2>1. Chain(u, ix, sops, r.at - 1) /\ r.un = u[r.at - 1]
    BY <1>8, <1>9, <1>10, <1>12, <1>15 DEF N
  <2> QED
    BY <1>11, <1>13, <1>15, <2>1 DEF N
<1> QED
  BY <1>14, <1>15

\* The rollback of a chain succeeds, and leads to a structure like the one it began with.
LEMMA ReadjustBack ==
    ASSUME NEW u, NEW ix \in Nat, NEW sops \in Seq(Sops), NEW at \in 1 .. Len(sops),
           Chain(u, ix, sops, at - 1),
           NEW r, r = Readjust(u[at - 1], ix, sops, at)[at - 1]
    PROVE  r.ok /\ Same(r.un, u[0])
<1> DEFINE N == at - 1
           g == Readjust(u[N], ix, sops, at)
           Good(j) == g[j].ok = TRUE /\ Same(g[j].un, u[N - j])
           S == {j \in Nat : j <= N => Good(j)}
<1>1. N \in Nat /\ \A j \in 0 .. N : Sound(u[j])
  BY DEF Chain
<1>2. /\ g \in [0 .. N -> Back] /\ g[0] = [un |-> u[N], ok |-> TRUE]
      /\ \A j \in 1 .. N : g[j] = BackStep(g[j - 1], ix, sops[at - j])
  <2> DEFINE w == u[N]
  <2>1. Sound(w)
    BY <1>1
  <2>2. g = Readjust(w, ix, sops, at)
    OBVIOUS
  <2> HIDE DEF w, g
  <2>3. /\ g \in [0 .. (at - 1) -> Back] /\ g[0] = [un |-> w, ok |-> TRUE]
        /\ \A j \in 1 .. (at - 1) : g[j] = BackStep(g[j - 1], ix, sops[at - j])
    BY <2>1, <2>2, ReadjustIs
  <2> QED
    BY <2>3 DEF w
<1>3. 0 \in S
  <2>1. N - 0 = N /\ Sound(u[N])
    BY <1>1
  <2> HIDE DEF g, N
  <2>2. Good(0)
    BY <1>2, <2>1 DEF Same
  <2> QED
    BY <2>2
<1>4. ASSUME NEW n \in Nat, n \in S PROVE n + 1 \in S
  <2> SUFFICES ASSUME n + 1 <= N PROVE Good(n + 1)
    <3> HIDE DEF Good, N
    <3> QED
      BY DEF S
  <2> DEFINE k == at - (n + 1)
             sop == sops[k]
             x == g[n]
             y == g[n + 1]
  <2>1. /\ n + 1 \in 1 .. N /\ (n + 1) - 1 = n /\ n \in 0 .. N
        /\ k \in 1 .. N /\ k = N - n /\ k - 1 = N - (n + 1) /\ k \in 1 .. Len(sops)
    BY <1>1
  <2>2. Good(n)
    BY <1>1, <1>4, <2>1
  <2>3. y = BackStep(x, ix, sop)
    <3> HIDE DEF g
    <3> QED
      BY <1>2, <2>1
  <2>4. sop \in Sops
    BY <2>1
  <2>5. sop.num \in Nat /\ sop.op \in Int
    BY <2>4 DEF Sops
  <2>6. x.ok = TRUE /\ Same(x.un, u[k])
    BY <2>1, <2>2
  <2>7. IF IsUndo(sop) THEN Adjusted(u[k - 1], ix, sop.num, -sop.op, u[k]) ELSE u[k] = u[k - 1]
    BY <2>1 DEF Chain
  <2> HIDE DEF g, x, y, sop, k
  <2>8. CASE ~IsUndo(sop)
    <3>1. y = x /\ u[k] = u[k - 1]
      BY <2>3, <2>7, <2>8 DEF BackStep
    <3>2. y.ok = TRUE /\ Same(y.un, u[k - 1])
      BY <2>6, <3>1
    <3> QED
      BY <2>1, <3>2 DEF y, k
  <2>9. CASE IsUndo(sop)
    <3> DEFINE a == Adjust(x.un, ix, sop.num, sop.op)
    <3>1. y = [un |-> a.un, ok |-> x.ok /\ a.ok]
      BY <2>3, <2>9 DEF BackStep
    <3>2. sop.op # 0
      BY <2>9 DEF IsUndo
    <3>3. a.ok /\ Same(a.un, u[k - 1])
      <4>1. a = Adjust(x.un, ix, sop.num, sop.op)
        OBVIOUS
      <4>2. Adjusted(u[k - 1], ix, sop.num, -sop.op, u[k])
        BY <2>7, <2>9
      <4> HIDE DEF a
      <4> QED
        BY <2>5, <2>6, <3>2, <4>1, <4>2, AdjustBack
    <3> HIDE DEF a
    <3>4. y.un = a.un /\ y.ok = (x.ok /\ a.ok)
      BY <3>1
    <3>5. y.ok = TRUE /\ Same(y.un, u[k - 1])
      BY <2>6, <3>3, <3>4
    <3> QED
      BY <2>1, <3>5 DEF y, k
  <2> QED
    BY <2>8, <2>9
<1>5. Nat \subseteq S
  <2> HIDE DEF S
  <2> QED
    BY <1>3, <1>4, Induction
<1>6. N \in S
  BY <1>1, <1>5
<1>7. N - N = 0 /\ Good(N)
  BY <1>1, <1>6
<1>8. r = g[N]
  OBVIOUS
<1> HIDE DEF g
<1> QED
  BY <1>7, <1>8

\* A set of naturals has a smallest member.
LEMMA Smallest ==
    ASSUME NEW S, S \subseteq Nat, S # {}
    PROVE  \E i \in S : \A j \in S : i <= j
<1> DEFINE R == OpToRel(<, Nat)
<1>1. PICK i \in S : \A j \in S : ~(<<j, i>> \in R)
  BY NatLessThanWellFounded, WFMin
<1>2. \A j \in S : ~(j < i)
  BY <1>1 DEF OpToRel
<1>3. \A j \in S : i <= j
  BY <1>2
<1> QED
  BY <1>3

\* A structure has no entry for a set when it holds nothing for its semaphores.
LEMMA OfSetAdj ==
    ASSUME NEW un, Sound(un), NEW e
    PROVE  OfSet(un, e) = {} <=> \A m : Adj(un, e, m) = 0
<1>1. ASSUME OfSet(un, e) = {}, NEW m PROVE Adj(un, e, m) = 0
  <2>1. Entry(un, e, m) = {}
    BY <1>1 DEF OfSet, Entry
  <2> QED
    BY <2>1, AdjHolds
<1>2. ASSUME OfSet(un, e) # {}, \A m : Adj(un, e, m) = 0 PROVE FALSE
  <2>1. PICK i \in 1 .. Len(un) : un[i].id = e
    BY <1>2 DEF OfSet
  <2>2. i \in Entry(un, e, un[i].num)
    BY <2>1 DEF Entry
  <2>3. Entry(un, e, un[i].num) = {}
    BY <1>2, AdjHolds
  <2> QED
    BY <2>2, <2>3
<1> QED
  BY <1>1, <1>2

\* One turn of semundo_clear for a set
ClearStep(x, ix) == IF OfSet(x, ix) = {} THEN x ELSE Delete(x, FirstOf(x, ix))

\* un2 holds what un does for the other sets.
Others(un, un2, ix) ==
    Sound(un) /\ Sound(un2) /\ \A d, m : d # ix => Adj(un2, d, m) = Adj(un, d, m)

LEMMA FirstOfIs ==
    ASSUME NEW un, NEW ix, OfSet(un, ix) # {}
    PROVE  /\ FirstOf(un, ix) \in OfSet(un, ix)
           /\ FirstOf(un, ix) \in 1 .. Len(un) /\ un[FirstOf(un, ix)].id = ix
<1>1. OfSet(un, ix) \subseteq Nat
  BY DEF OfSet
<1>2. \E i \in OfSet(un, ix) : \A j \in OfSet(un, ix) : i <= j
  BY <1>1, Smallest
<1>3. FirstOf(un, ix) \in OfSet(un, ix)
  BY <1>2 DEF FirstOf
<1> QED
  BY <1>3 DEF OfSet

LEMMA ClearStepIs ==
    ASSUME NEW un, Sound(un), NEW ix, NEW un2, un2 = ClearStep(un, ix)
    PROVE  /\ Others(un, un2, ix)
           /\ OfSet(un, ix) = {} => un2 = un
           /\ OfSet(un, ix) # {} => Len(un2) = Len(un) - 1
<1>1. CASE OfSet(un, ix) = {}
  BY <1>1 DEF ClearStep, Others
<1>2. CASE OfSet(un, ix) # {}
  <2> DEFINE k == FirstOf(un, ix)
  <2>1. k \in 1 .. Len(un) /\ un[k].id = ix
    BY <1>2, FirstOfIs
  <2>2. un2 = Delete(un, k)
    BY <1>2 DEF ClearStep
  <2> HIDE DEF k
  <2>3. Updated(un, un2, un[k].id, un[k].num, 0) /\ Len(un2) = Len(un) - 1
    BY <2>1, <2>2, DeleteIs
  <2> QED
    BY <1>2, <2>1, <2>3 DEF Updated, Others
<1> QED
  BY <1>1, <1>2

\* semundo_clear of a whole set leaves no entry of it, and the others.
LEMMA ClearAllIs ==
    ASSUME NEW un, Sound(un), NEW ix, NEW r, r = ClearAll(un, ix)[Len(un)]
    PROVE  Others(un, r, ix) /\ OfSet(r, ix) = {}
<1> DEFINE N == Len(un)
           h == [i \in 1 .. N |-> [x \in Undos |-> ClearStep(x, ix)]]
           f == ClearAll(un, ix)
<1>1. N \in Nat /\ un \in Undos
  BY DEF Sound, Undos
<1>2. \A x \in Undos : ClearStep(x, ix) \in Undos
  <2> SUFFICES ASSUME NEW x \in Undos PROVE ClearStep(x, ix) \in Undos
    OBVIOUS
  <2>1. Sound(x)
    BY DEF Undos
  <2>2. Sound(ClearStep(x, ix))
    BY <2>1, ClearStepIs DEF Others
  <2> QED
    BY <2>2 DEF Undos, Sound
<1>3. h \in [1 .. N -> [Undos -> Undos]]
  BY <1>2
<1>4. \A x \in Undos, i \in 1 .. N : h[i][x] = ClearStep(x, ix)
  OBVIOUS
<1> HIDE DEF h
<1>5. f = [i \in 0 .. N |-> IF i = 0 THEN un ELSE ClearStep(f[i - 1], ix)]
  <2>1. PICK g : Recurs(g, N, Undos, un, h)
    <3> HIDE DEF N
    <3> QED
      BY <1>1, <1>3, Recursion
  <2>2. g \in [0 .. N -> Undos] /\ g[0] = un /\ \A i \in 1 .. N : g[i] = h[i][g[i - 1]]
    BY <2>1 DEF Recurs
  <2>3. \A i \in 1 .. N : i - 1 \in 0 .. N
    BY <1>1
  <2>4. \A i \in 1 .. N : g[i] = ClearStep(g[i - 1], ix)
    <3> HIDE DEF N
    <3> QED
      BY <1>4, <2>2, <2>3
  <2>5. \A i \in 0 .. N : i = 0 \/ i \in 1 .. N
    BY <1>1
  <2>6. g = [i \in 0 .. N |-> IF i = 0 THEN un ELSE ClearStep(g[i - 1], ix)]
    <3> HIDE DEF N
    <3> QED
      BY <2>2, <2>4, <2>5
  <2> QED
    BY <2>6 DEF ClearAll, ClearStep
<1>6. 0 \in 0 .. N /\ \A i \in 1 .. N : i \in 0 .. N /\ i # 0
  BY <1>1
<1>7. r = f[N]
  OBVIOUS
<1> HIDE DEF f
<1>8. f[0] = un /\ \A i \in 1 .. N : f[i] = ClearStep(f[i - 1], ix)
  <2> HIDE DEF N
  <2> QED
    BY <1>5, <1>6
<1>9. f \in [0 .. N -> Undos]
  <2> HIDE DEF N
  <2>1. f = [i \in 0 .. N |-> f[i]]
    BY <1>5
  <2>2. Follows(f, N, Undos, un, h)
    BY <1>4, <1>8, <2>1 DEF Follows
  <2>3. Recurs(f, N, Undos, un, h)
    BY <1>1, <1>3, <2>2, RecursionType
  <2> QED
    BY <2>3 DEF Recurs
<1> DEFINE Good(n) == Others(un, f[n], ix) /\ (OfSet(f[n], ix) = {} \/ Len(f[n]) = N - n)
           S == {n \in Nat : n <= N => Good(n)}
<1>10. 0 \in S
  <2>1. N - 0 = N
    BY <1>1
  <2>2. Good(0)
    BY <1>8, <2>1 DEF Others
  <2> QED
    BY <2>2
<1>11. ASSUME NEW n \in Nat, n \in S PROVE n + 1 \in S
  <2> SUFFICES ASSUME n + 1 <= N PROVE Good(n + 1)
    <3> HIDE DEF Good, N
    <3> QED
      BY DEF S
  <2>1. n + 1 \in 1 .. N /\ (n + 1) - 1 = n /\ n \in 0 .. N
    BY <1>1
  <2>2. Good(n)
    BY <1>1, <1>11
  <2>3. f[n + 1] = ClearStep(f[n], ix)
    BY <1>8, <2>1
  <2>4. Sound(f[n])
    BY <2>2 DEF Others
  <2>5. /\ Others(f[n], f[n + 1], ix)
        /\ OfSet(f[n], ix) = {} => f[n + 1] = f[n]
        /\ OfSet(f[n], ix) # {} => Len(f[n + 1]) = Len(f[n]) - 1
    BY <2>3, <2>4, ClearStepIs
  <2>6. Others(un, f[n + 1], ix)
    BY <2>2, <2>5 DEF Others
  <2>7. CASE OfSet(f[n], ix) = {}
    BY <2>2, <2>5, <2>6, <2>7
  <2>8. CASE OfSet(f[n], ix) # {}
    <3>1. Len(f[n + 1]) = (N - n) - 1
      BY <2>2, <2>5, <2>8
    <3>2. (N - n) - 1 = N - (n + 1)
      BY <1>1
    <3> QED
      BY <2>6, <3>1, <3>2
  <2> QED
    BY <2>7, <2>8
<1>12. Nat \subseteq S
  <2> HIDE DEF S
  <2> QED
    BY <1>10, <1>11, Induction
<1>13. N \in S
  BY <1>1, <1>12
<1>14. Good(N) /\ N - N = 0
  BY <1>1, <1>13
<1>15. OfSet(f[N], ix) = {}
  <2>1. CASE Len(f[N]) = 0
    BY <2>1 DEF OfSet
  <2> QED
    BY <1>14, <2>1
<1> QED
  BY <1>7, <1>14, <1>15

\* semundo_clear of one semaphore touches no other; it finds the entry it looks for
\* when that is the only one of the set.
LEMMA ClearOneIs ==
    ASSUME NEW un, Sound(un), NEW ix, NEW num \in Nat, NEW r, r = Clear(un, ix, num)
    PROVE  /\ Others(un, r, ix)
           /\ \A m : m # num => Adj(r, ix, m) = Adj(un, ix, m)
           /\ Entry(un, ix, num) \in {{}, OfSet(un, ix)} => Adj(r, ix, num) = 0
<1> DEFINE k == FirstOf(un, ix)
<1>0. num # -1
  OBVIOUS
<1>1. CASE OfSet(un, ix) = {}
  <2>1. r = un
    BY <1>0, <1>1 DEF Clear
  <2>2. Adj(un, ix, num) = 0
    BY <1>1, OfSetAdj
  <2> QED
    BY <2>1, <2>2 DEF Others
<1>2. CASE OfSet(un, ix) # {} /\ un[k].num # num
  <2>1. r = un
    BY <1>0, <1>2 DEF Clear
  <2>2. k \in 1 .. Len(un) /\ un[k].id = ix
    BY <1>2, FirstOfIs
  <2>3. k \in OfSet(un, ix) /\ k \notin Entry(un, ix, num)
    BY <1>2, <2>2 DEF OfSet, Entry
  <2>4. Entry(un, ix, num) \in {{}, OfSet(un, ix)} => Adj(un, ix, num) = 0
    BY <2>3, AdjHolds
  <2> QED
    BY <2>1, <2>4 DEF Others
<1>3. CASE OfSet(un, ix) # {} /\ un[k].num = num
  <2>1. k \in 1 .. Len(un) /\ un[k].id = ix
    BY <1>3, FirstOfIs
  <2>2. r = Delete(un, k)
    BY <1>0, <1>3 DEF Clear
  <2> HIDE DEF k
  <2>3. Updated(un, r, ix, num, 0)
    BY <1>3, <2>1, <2>2, DeleteIs
  <2> QED
    BY <2>3 DEF Updated, Others
<1> QED
  BY <1>1, <1>2, <1>3

\* o is what un holds for the semaphores of a set, but for some of them.
Tracks(un, ix, o, but) ==
    o \in [Pool -> Int] /\ \A n \in Pool \ but : o[n] = Adj(un, ix, n)

\* Along a chain the values of the set go the way of the operations, and those of
\* the other sets stay.
LEMMA ChainAdj ==
    ASSUME NEW u, NEW ix \in Nat, NEW sops \in Seq(Sops), Chain(u, ix, sops, Len(sops)),
           NEW o, NEW but, Tracks(u[0], ix, o, but),
           NEW r, r = Applied(o, UndoPart(sops), -1)[Len(sops)]
    PROVE  Tracks(u[Len(sops)], ix, r, but) /\ Others(u[0], u[Len(sops)], ix)
<1> USE DEF Tracks
<1> DEFINE N == Len(sops)
           part == UndoPart(sops)
           f == Applied(o, part, -1)
<1>1. N \in Nat /\ \A i \in 1 .. N : sops[i] \in Sops /\ sops[i].num \in Nat /\ sops[i].op \in Int
  <2>1. N \in Nat /\ \A i \in 1 .. N : sops[i] \in Sops
    OBVIOUS
  <2>2. \A s \in Sops : s.num \in Nat /\ s.op \in Int
    BY DEF Sops
  <2> QED
    BY <2>1, <2>2
<1>2. /\ part \in Seq(Sops) /\ Len(part) = N
      /\ \A i \in 1 .. N : /\ part[i].num = sops[i].num
                           /\ part[i].op = IF IsUndo(sops[i]) THEN sops[i].op ELSE 0
  <2>1. \A i \in 1 .. N : /\ [sops[i] EXCEPT !.op = 0] \in Sops
                          /\ [sops[i] EXCEPT !.op = 0].num = sops[i].num
                          /\ [sops[i] EXCEPT !.op = 0].op = 0
    <3>1. ASSUME NEW s \in Sops
          PROVE  /\ [s EXCEPT !.op = 0] \in Sops
                 /\ [s EXCEPT !.op = 0].num = s.num
                 /\ [s EXCEPT !.op = 0].op = 0
      <4>1. s = [num |-> s.num, op |-> s.op, flg |-> s.flg] /\ s.num \in Nat
            /\ s.flg \in SUBSET {"SEM_UNDO", "IPC_NOWAIT"}
        BY DEF Sops
      <4>2. [s EXCEPT !.op = 0] = [num |-> s.num, op |-> 0, flg |-> s.flg]
        BY <4>1
      <4> QED
        BY <4>1, <4>2 DEF Sops
    <3> QED
      BY <1>1, <3>1
  <2>2. part = [i \in 1 .. N |-> IF IsUndo(sops[i]) THEN sops[i] ELSE [sops[i] EXCEPT !.op = 0]]
    BY DEF UndoPart
  <2> HIDE DEF part, N
  <2>3. part \in [1 .. N -> Sops]
    BY <1>1, <2>1, <2>2
  <2>4. part \in Seq(Sops) /\ Len(part) = N
    BY <1>1, <2>3
  <2>5. \A i \in 1 .. N : /\ part[i].num = sops[i].num
                          /\ part[i].op = IF IsUndo(sops[i]) THEN sops[i].op ELSE 0
    BY <2>1, <2>2
  <2> QED
    BY <2>4, <2>5
<1>3. r = f[N]
  OBVIOUS
<1>4. f = Applied(o, part, -1)
  OBVIOUS
<1> HIDE DEF part, f
<1>5. /\ f \in [0 .. N -> [Pool -> Int]] /\ f[0] = o
      /\ \A i \in 1 .. N : f[i] = [f[i - 1] EXCEPT ![part[i].num] = @ + (-1) * part[i].op]
  <2> DEFINE sign == -1
  <2>1. sign \in Int /\ f = Applied(o, part, sign)
    BY <1>4
  <2>2. part \in Seq(Sops) /\ Len(part) = N
    BY <1>2
  <2> HIDE DEF sign, N
  <2>3. Sums(f, Pool, o, part, sign)
    BY <2>1, <2>2, AppliedIs
  <2> QED
    BY <2>2, <2>3 DEF sign, Sums
<1> DEFINE Good(i) == (\A n \in Pool \ but : f[i][n] = Adj(u[i], ix, n)) /\ Others(u[0], u[i], ix)
           S == {i \in Nat : i <= N => Good(i)}
<1>6. 0 \in S
  <2>1. Sound(u[0])
    BY <1>1 DEF Chain
  <2>2. Good(0)
    BY <1>5, <2>1 DEF Others
  <2> QED
    BY <2>2
<1>7. ASSUME NEW i \in Nat, i \in S PROVE i + 1 \in S
  <2> SUFFICES ASSUME i + 1 <= N PROVE Good(i + 1)
    <3> HIDE DEF Good, N
    <3> QED
      BY DEF S
  <2>1. i + 1 \in 1 .. N /\ (i + 1) - 1 = i /\ i \in 0 .. N
    BY <1>1
  <2>2. Good(i)
    BY <1>1, <1>7
  <2> DEFINE sop == sops[i + 1]
             x == f[i]
             y == f[i + 1]
             d == part[i + 1].op
  <2>3. sop.num \in Nat /\ sop.op \in Int /\ d = IF IsUndo(sop) THEN sop.op ELSE 0
    BY <1>1, <1>2, <2>1
  <2>4. x \in [Pool -> Int] /\ y = [x EXCEPT ![sop.num] = @ + (-1) * d]
    BY <1>2, <1>5, <2>1
  <2>5. /\ Sound(u[i]) /\ Sound(u[i + 1])
        /\ IF IsUndo(sop) THEN Adjusted(u[i], ix, sop.num, -sop.op, u[i + 1]) ELSE u[i + 1] = u[i]
    <3>1. i \in 0 .. N /\ i + 1 \in 0 .. N
      BY <1>1, <2>1
    <3> QED
      BY <2>1, <3>1 DEF Chain
  <2> HIDE DEF d, x, y, sop
  <2>6. CASE IsUndo(sop)
    <3>1. d = sop.op /\ (-1) * d = -sop.op
      BY <2>3, <2>6
    <3>2. Updated(u[i], u[i + 1], ix, sop.num, Adj(u[i], ix, sop.num) + (-sop.op))
      BY <2>5, <2>6 DEF Adjusted
    <3>3. Others(u[0], u[i + 1], ix)
      BY <2>2, <3>2 DEF Updated, Others
    <3>4. ASSUME NEW n \in Pool \ but PROVE y[n] = Adj(u[i + 1], ix, n)
      <4>1. x[n] = Adj(u[i], ix, n)
        BY <2>2 DEF x
      <4>2. CASE n = sop.num
        <5>1. y[n] = x[n] + (-sop.op)
          BY <2>4, <3>1, <4>2
        <5>2. Adj(u[i + 1], ix, n) = Adj(u[i], ix, n) + (-sop.op)
          BY <3>2, <4>2 DEF Updated
        <5> QED
          BY <4>1, <5>1, <5>2
      <4>3. CASE n # sop.num
        <5>1. y[n] = x[n]
          BY <2>4, <4>3
        <5>2. Adj(u[i + 1], ix, n) = Adj(u[i], ix, n)
          BY <3>2, <4>3 DEF Updated
        <5> QED
          BY <4>1, <5>1, <5>2
      <4> QED
        BY <4>2, <4>3
    <3> QED
      BY <3>3, <3>4 DEF y
  <2>7. CASE ~IsUndo(sop)
    <3>1. d = 0 /\ u[i + 1] = u[i] /\ (-1) * d = 0
      BY <2>3, <2>5, <2>7
    <3>2. \A n \in Pool : x[n] + 0 = x[n]
      BY <2>4
    <3>3. \A n \in Pool : y[n] = x[n]
      BY <2>4, <3>1, <3>2
    <3> QED
      BY <2>2, <3>1, <3>3 DEF x, y
  <2> QED
    BY <2>6, <2>7
<1>8. Nat \subseteq S
  <2> HIDE DEF S
  <2> QED
    BY <1>6, <1>7, Induction
<1>9. N \in S
  BY <1>1, <1>8
<1>10. Good(N) /\ N \in 0 .. N
  BY <1>1, <1>9
<1> QED
  BY <1>3, <1>5, <1>10

\* The undo part of semop: adj is what SemopDone has when the loop ends.
UndoOf(p, ix, sops) ==
    LET n == Len(sops)
        undos == \E i \in 1..n : IsUndo(sops[i])
        alloc == SemuAlloc(p)
        first == CHOOSE i \in 1..n : IsUndo(sops[i]) /\ \A j \in 1..(i - 1) : ~IsUndo(sops[j])
    IN  IF ~undos THEN [un |-> undo[p], at |-> 0]
        ELSE IF alloc.ok THEN AdjustAll(undo[p], ix, sops)[n]
        ELSE [un |-> undo[p], at |-> first]

\* From un0 it has gone along a chain to the end, or is taken back.
Ends(un0, ix, sops, adj, r) ==
    /\ adj.at = 0 => \E u : /\ u[0] = un0 /\ Chain(u, ix, sops, Len(sops))
                            /\ adj.un = u[Len(sops)]
    /\ adj.at # 0 => r.ok /\ Same(r.un, un0)

LEMMA UndoOutcome ==
    ASSUME NEW p, Sound(undo[p]), NEW ix \in Nat, NEW sops \in Seq(Sops),
           NEW adj, adj = UndoOf(p, ix, sops),
           NEW r, r = Readjust(adj.un, ix, sops, adj.at)[adj.at - 1]
    PROVE  Ends(undo[p], ix, sops, adj, r)
<1> USE DEF Ends
<1> DEFINE N == Len(sops)
           undos == \E i \in 1 .. N : IsUndo(sops[i])
           un0 == undo[p]
           c == [i \in 0 .. N |-> un0]
<1>1. N \in Nat
  OBVIOUS
<1>2. \A n \in 0 .. N : (\A i \in 1 .. n : ~IsUndo(sops[i])) => Chain(c, ix, sops, n)
  <2> SUFFICES ASSUME NEW n \in 0 .. N, \A i \in 1 .. n : ~IsUndo(sops[i])
               PROVE  Chain(c, ix, sops, n)
    OBVIOUS
  <2>1. \A i \in 0 .. n : c[i] = un0
    BY <1>1
  <2>2. \A i \in 1 .. n : i \in 0 .. n /\ i - 1 \in 0 .. n
    BY <1>1
  <2> HIDE DEF c
  <2> QED
    BY <2>1, <2>2 DEF Chain
<1>3. c[0] = un0 /\ \A n \in 0 .. N : c[n] = un0
  BY <1>1
<1> HIDE DEF c
<1>4. CASE ~undos
  <2>1. adj.un = un0 /\ adj.at = 0
    BY <1>4 DEF UndoOf
  <2>2. N \in 0 .. N
    BY <1>1
  <2>3. Chain(c, ix, sops, N) /\ adj.un = c[N]
    BY <1>2, <1>3, <1>4, <2>1, <2>2
  <2> QED
    BY <1>3, <2>1, <2>3
<1>5. CASE undos /\ SemuAlloc(p).ok
  <2> DEFINE f == AdjustAll(un0, ix, sops)
  <2>1. adj = f[N]
    BY <1>5 DEF UndoOf
  <2>2. PICK u : /\ u[0] = un0
                 /\ adj.at = 0 => Chain(u, ix, sops, N) /\ adj.un = u[N]
                 /\ adj.at # 0 => Chain(u, ix, sops, adj.at - 1) /\ adj.un = u[adj.at - 1]
    <3>1. f = AdjustAll(un0, ix, sops)
      OBVIOUS
    <3> HIDE DEF f
    <3> QED
      BY <2>1, <3>1, AdjustAllChain
  <2>3. adj.at \in 0 .. N
    <3>1. f = AdjustAll(un0, ix, sops)
      OBVIOUS
    <3> HIDE DEF f
    <3> QED
      BY <2>1, <3>1, AdjustAllChain
  <2>4. ASSUME adj.at # 0 PROVE r.ok /\ Same(r.un, un0)
    <3> DEFINE at == adj.at
    <3>1. at \in 1 .. N
      BY <1>1, <2>3, <2>4
    <3>2. Chain(u, ix, sops, at - 1) /\ r = Readjust(u[at - 1], ix, sops, at)[at - 1]
      BY <2>2, <2>4
    <3> HIDE DEF at
    <3>3. r.ok /\ Same(r.un, u[0])
      BY <3>1, <3>2, ReadjustBack
    <3> QED
      BY <2>2, <3>3
  <2>5. adj.at = 0 => u[0] = un0 /\ Chain(u, ix, sops, N) /\ adj.un = u[N]
    BY <2>2
  <2> QED
    BY <2>4, <2>5
<1>6. CASE undos /\ ~SemuAlloc(p).ok
  <2> DEFINE T == {i \in 1 .. N : IsUndo(sops[i])}
             first == CHOOSE i \in 1 .. N : IsUndo(sops[i]) /\ \A j \in 1 .. (i - 1) : ~IsUndo(sops[j])
  <2>1. T \subseteq Nat /\ T # {}
    BY <1>1, <1>6
  <2>2. PICK i \in T : \A j \in T : i <= j
    <3> HIDE DEF T
    <3> QED
      BY <2>1, Smallest
  <2>3. \A j \in 1 .. (i - 1) : ~IsUndo(sops[j])
    <3> SUFFICES ASSUME NEW j \in 1 .. (i - 1), IsUndo(sops[j]) PROVE FALSE
      OBVIOUS
    <3>1. j \in 1 .. N /\ j < i
      BY <1>1
    <3>2. j \in T
      BY <3>1
    <3>3. i <= j
      BY <2>2, <3>2
    <3> QED
      BY <1>1, <3>1, <3>3
  <2>4. first \in 1 .. N /\ \A j \in 1 .. (first - 1) : ~IsUndo(sops[j])
    <3>1. \E k \in 1 .. N : IsUndo(sops[k]) /\ \A j \in 1 .. (k - 1) : ~IsUndo(sops[j])
      BY <2>3
    <3> QED
      BY <3>1
  <2>5. adj.un = un0 /\ adj.at = first
    BY <1>6 DEF UndoOf
  <2> HIDE DEF first
  <2>6. adj.at # 0 /\ first - 1 \in 0 .. N
    BY <1>1, <2>4, <2>5
  <2>7. Chain(c, ix, sops, first - 1) /\ c[first - 1] = un0
    BY <1>2, <1>3, <2>4, <2>6
  <2>8. r = Readjust(c[first - 1], ix, sops, first)[first - 1]
    BY <2>5, <2>7
  <2>9. r.ok /\ Same(r.un, c[0])
    BY <2>4, <2>7, <2>8, ReadjustBack
  <2> QED
    BY <1>3, <2>6, <2>9
<1> QED
  BY <1>4, <1>5, <1>6

-----------------------------------------------------------------------------
(* Types                                                                    *)

Sets == [alloc : BOOLEAN, seq : 0 .. SeqMod - 1, nsems : Nat, base : Int]
Labels == {"idle", "semop", "asleep", "semget", "setall", "rmid_shift", "rmid_bases", "rmid_clear",
           "dead"}
Reqs == [ix : Evs, k : Nat, sops : Seq(Sops), num : Int, cnt : {"ncnt", "zcnt"}]

\* What the proofs need of the types: the undo structures are sound.
Shapes ==
    /\ sema \in [Evs -> Sets] /\ semtot \in Int /\ inst \in [Evs -> Nat]
    /\ pc \in [Threads -> Labels] /\ req \in [Threads -> Reqs]
    /\ undo \in [Threads -> Undos]

\* What semget holds on to between SEM_ALLOC and the rest
Making ==
    \A p \in Threads : pc[p] = "semget" =>
        /\ req[p].num \in Nat /\ req[p].num <= SEMMNS - semtot
        /\ ~sema[req[p].ix].alloc /\ inst[req[p].ix] < MaxGets
        /\ \A q \in Threads : pc[q] = "semget" => q = p

LEMMA NoReqIs == NoReq \in Reqs
<1>1. (CHOOSE e \in Evs : TRUE) \in Evs
  BY EventAssumption
<1>2. <<>> \in Seq(Sops)
  OBVIOUS
<1> QED
  BY <1>1, <1>2 DEF NoReq, Reqs

LEMMA StopIs ==
    ASSUME NEW vals, NEW sops \in Seq(Sops), ~(Stop(vals, sops) > Len(sops))
    PROVE  Stop(vals, sops) \in 1 .. Len(sops)
<1> DEFINE stuck == {i \in 1 .. Len(sops) :
                       ~CanDo(Applied(vals, sops, 1)[i - 1][sops[i].num], sops[i].op)}
<1>1. stuck \subseteq Nat /\ Len(sops) \in Nat /\ stuck \subseteq 1 .. Len(sops)
  OBVIOUS
<1>2. Stop(vals, sops) = IF stuck = {} THEN Len(sops) + 1
                         ELSE CHOOSE i \in stuck : \A j \in stuck : i <= j
  BY DEF Stop
<1> HIDE DEF stuck
<1>3. stuck # {}
  BY <1>1, <1>2
<1>4. \E i \in stuck : \A j \in stuck : i <= j
  BY <1>1, <1>3, Smallest
<1>5. Stop(vals, sops) \in stuck
  BY <1>2, <1>3, <1>4
<1> QED
  BY <1>1, <1>5

\* What semop does to the undo structures
LEMMA SemopDoneUndo ==
    ASSUME Shapes, NEW p \in Threads, NEW ix \in Evs, NEW sops \in Seq(Sops),
           SemopDone(p, ix, sops)
    PROVE  /\ undo' \in [Threads -> Undos] /\ panic' = panic
           /\ \A q \in Threads : q # p => undo'[q] = undo[q]
           /\ \/ Same(undo'[p], undo[p]) /\ owed' = owed
              \/ /\ owed' = [owed EXCEPT ![p][ix] = Applied(@, UndoPart(sops), -1)[Len(sops)]]
                 /\ \E u : /\ u[0] = undo[p] /\ Chain(u, ix, sops, Len(sops))
                           /\ undo'[p] = u[Len(sops)]
<1> DEFINE adj == UndoOf(p, ix, sops)
           r == Readjust(adj.un, ix, sops, adj.at)[adj.at - 1]
<1>1. Sound(undo[p]) /\ ix \in Nat /\ undo \in [Threads -> Undos]
  BY EvsAssumption DEF Shapes, Undos
<1>2. /\ adj.at = 0 => \E u : /\ u[0] = undo[p] /\ Chain(u, ix, sops, Len(sops))
                              /\ adj.un = u[Len(sops)]
      /\ adj.at # 0 => r.ok /\ Same(r.un, undo[p])
  <2>1. adj = UndoOf(p, ix, sops)
    OBVIOUS
  <2> HIDE DEF adj
  <2>2. r = Readjust(adj.un, ix, sops, adj.at)[adj.at - 1]
    OBVIOUS
  <2> HIDE DEF r
  <2>3. Ends(undo[p], ix, sops, adj, r)
    BY <1>1, <2>1, <2>2, UndoOutcome
  <2> QED
    BY <2>3 DEF Ends
<1>3. /\ adj.at = 0 =>
           /\ undo' = [undo EXCEPT ![p] = adj.un] /\ panic' = panic
           /\ owed' = [owed EXCEPT ![p][ix] = Applied(@, UndoPart(sops), -1)[Len(sops)]]
      /\ adj.at # 0 =>
           /\ undo' = [undo EXCEPT ![p] = r.un] /\ owed' = owed
           /\ panic' = IF r.ok THEN panic ELSE "rollback"
  BY DEF SemopDone, UndoOf
<1> HIDE DEF adj, r
<1>4. \A un : Sound(un) => un \in Undos
  BY DEF Sound, Undos
<1>5. CASE adj.at = 0
  <2>1. PICK u : u[0] = undo[p] /\ Chain(u, ix, sops, Len(sops)) /\ adj.un = u[Len(sops)]
    BY <1>2, <1>5
  <2>2. Len(sops) \in 0 .. Len(sops)
    OBVIOUS
  <2>3. Sound(adj.un)
    BY <2>1, <2>2 DEF Chain
  <2>4. undo'[p] = adj.un /\ undo' \in [Threads -> Undos]
        /\ \A q \in Threads : q # p => undo'[q] = undo[q]
    BY <1>1, <1>3, <1>4, <1>5, <2>3
  <2> QED
    BY <1>3, <1>5, <2>1, <2>4
<1>6. CASE adj.at # 0
  <2>1. r.ok /\ Same(r.un, undo[p])
    BY <1>2, <1>6
  <2>2. r.un \in Undos
    BY <1>4, <2>1 DEF Same
  <2>3. undo'[p] = r.un /\ undo' \in [Threads -> Undos]
        /\ \A q \in Threads : q # p => undo'[q] = undo[q]
    BY <1>1, <1>3, <1>6, <2>2
  <2> QED
    BY <1>3, <1>6, <2>1, <2>3
<1> QED
  BY <1>5, <1>6

\* One pass of semop, done or not
LEMMA AttemptShapes ==
    ASSUME Shapes, NEW p \in Threads, Attempt(p)
    PROVE  Shapes' /\ panic' = panic
<1> DEFINE ix == req[p].ix
           sops == req[p].sops
<1>1. ix \in Evs /\ sops \in Seq(Sops) /\ req[p] \in Reqs /\ sema[ix] \in Sets /\ sema[ix].base \in Int
  BY DEF Shapes, Reqs, Sets
<1>2. sema' = sema /\ semtot' = semtot /\ inst' = inst
  BY DEF Attempt
<1>3. CASE Stop(Vals(ix), sops) > Len(sops)
  <2>1. SemopDone(p, ix, sops)
    BY <1>3 DEF Attempt
  <2>2. undo' \in [Threads -> Undos] /\ panic' = panic
    <3> HIDE DEF ix, sops
    <3> QED
      BY <1>1, <2>1, SemopDoneUndo
  <2>3. pc' = [pc EXCEPT ![p] = "idle"] /\ req' = req
    BY <2>1 DEF SemopDone, Goto
  <2> QED
    BY <1>2, <2>2, <2>3 DEF Shapes, Labels
<1>4. CASE ~(Stop(Vals(ix), sops) > Len(sops))
  <2> DEFINE stop == Stop(Vals(ix), sops)
             num == sema[ix].base + sops[stop].num
             cnt == IF sops[stop].op = 0 THEN "zcnt" ELSE "ncnt"
  <2>1. SemopStuck(p, ix, sops)
    BY <1>4 DEF Attempt
  <2>2. stop \in 1 .. Len(sops)
    <3> HIDE DEF ix, sops
    <3> QED
      BY <1>1, <1>4, StopIs
  <2>3. sops[stop] \in Sops
    <3> HIDE DEF sops, stop
    <3> QED
      BY <1>1, <2>2
  <2>4. num \in Int
    <3>1. sops[stop].num \in Nat
      BY <2>3 DEF Sops
    <3> HIDE DEF stop
    <3> QED
      BY <1>1, <3>1
  <2>5. undo' = undo /\ panic' = panic
    BY <2>1 DEF SemopStuck
  <2>6. \/ pc' = [pc EXCEPT ![p] = "idle"] /\ req' = req
        \/ pc' = [pc EXCEPT ![p] = "asleep"] /\ req' = [req EXCEPT ![p].num = num, ![p].cnt = cnt]
    BY <2>1 DEF SemopStuck, Goto
  <2> HIDE DEF num
  <2>7. [[req[p] EXCEPT !.num = num] EXCEPT !.cnt = cnt] \in Reqs
    <3>1. cnt \in {"ncnt", "zcnt"}
      OBVIOUS
    <3> HIDE DEF cnt
    <3> QED
      BY <1>1, <2>4, <3>1 DEF Reqs
  <2>8. req' \in [Threads -> Reqs]
    <3> HIDE DEF cnt
    <3> QED
      BY <2>6, <2>7 DEF Shapes
  <2>9. pc' \in [Threads -> Labels]
    BY <2>6 DEF Shapes, Labels
  <2> QED
    BY <1>2, <2>5, <2>8, <2>9 DEF Shapes
<1> QED
  BY <1>3, <1>4

\* semundo_clear of all processes
LEMMA ClearUndoIs ==
    ASSUME Shapes, NEW ix \in Evs, NEW num \in Pool \union {-1}, ClearUndo(ix, num)
    PROVE  /\ undo' \in [Threads -> Undos]
           /\ \A q \in Threads : Others(undo[q], undo'[q], ix)
           /\ num = -1 => \A q \in Threads : OfSet(undo'[q], ix) = {}
           /\ num # -1 => \A q \in Threads :
                /\ \A m : m # num => Adj(undo'[q], ix, m) = Adj(undo[q], ix, m)
                /\ Entry(undo[q], ix, num) \in {{}, OfSet(undo[q], ix)} => Adj(undo'[q], ix, num) = 0
<1> DEFINE One(q) == /\ \A m : m # num => Adj(undo'[q], ix, m) = Adj(undo[q], ix, m)
                     /\ Entry(undo[q], ix, num) \in {{}, OfSet(undo[q], ix)} => Adj(undo'[q], ix, num) = 0
<1>1. undo' = [q \in Threads |-> Clear(undo[q], ix, num)]
  BY DEF ClearUndo
<1>2. ASSUME NEW q \in Threads
      PROVE  /\ Others(undo[q], undo'[q], ix)
             /\ num = -1 => OfSet(undo'[q], ix) = {}
             /\ num # -1 => One(q)
  <2>1. Sound(undo[q]) /\ undo'[q] = Clear(undo[q], ix, num)
    BY <1>1 DEF Shapes, Undos
  <2>2. CASE num = -1
    <3>1. undo'[q] = ClearAll(undo[q], ix)[Len(undo[q])]
      BY <2>1, <2>2 DEF Clear
    <3> QED
      BY <2>1, <2>2, <3>1, ClearAllIs
  <2>3. CASE num # -1
    <3>1. num \in Nat
      BY <2>3 DEF Pool
    <3> QED
      BY <2>1, <2>3, <3>1, ClearOneIs
  <2> QED
    BY <2>2, <2>3
<1>3. \A q \in Threads : undo'[q] \in Undos
  BY <1>2 DEF Others, Undos, Sound
<1>4. undo' \in [Threads -> Undos]
  BY <1>1, <1>3
<1> QED
  BY <1>2, <1>4

\* The actions keep the types, and find room to roll back.
LEMMA ShapesStep ==
    ASSUME Shapes, Making, [Next]_vars
    PROVE  Shapes' /\ (panic' = "rollback" => panic = "rollback")
<1> USE DEF Shapes, Labels
<1>1. ASSUME UNCHANGED vars PROVE Shapes' /\ panic' = panic
  BY <1>1 DEF vars, semVars, history
<1>2. ASSUME NEW p \in Threads, Semget(p) PROVE Shapes' /\ panic' = panic
  <2> DEFINE ix == req[p].ix
             n == req[p].num
  <2>1. /\ UNCHANGED <<undo, req, panic>> /\ semtot' = semtot + n
        /\ pc[p] = "semget" /\ pc' = [pc EXCEPT ![p] = "idle"]
        /\ inst' = [inst EXCEPT ![ix] = @ + 1]
        /\ sema' = [sema EXCEPT ![ix] = [alloc |-> TRUE, seq |-> (sema[ix].seq + 1) % SeqMod,
                                         nsems |-> n, base |-> semtot]]
    BY <1>2 DEF Semget, Goto
  <2>2. ix \in Evs /\ n \in Nat /\ SeqMod \in Nat \ {0}
    BY <2>1, LimitAssumption DEF Making, Reqs
  <2> HIDE DEF ix, n
  <2>3. (sema[ix].seq + 1) % SeqMod \in 0 .. SeqMod - 1
    <3>1. sema[ix].seq \in Nat
      BY <2>2 DEF Sets
    <3> QED
      BY <2>2, <3>1
  <2>4. [alloc |-> TRUE, seq |-> (sema[ix].seq + 1) % SeqMod, nsems |-> n, base |-> semtot] \in Sets
    BY <2>2, <2>3 DEF Sets
  <2> QED
    BY <2>1, <2>2, <2>4
<1>3. ASSUME NEW p \in Threads, NEW ix \in Evs, NEW k \in 1 .. inst[ix], NEW sops \in Vectors,
             Semop(p, ix, k, sops)
      PROVE  Shapes' /\ panic' = panic
  <2>1. sops \in Seq(Sops) /\ k \in Nat
    BY InputAssumption
  <2>2. [ix |-> ix, k |-> k, sops |-> sops, num |-> 0, cnt |-> "ncnt"] \in Reqs
    BY <2>1 DEF Reqs
  <2> QED
    BY <1>3, <2>2 DEF Semop, Goto, semVars, history
<1>4. ASSUME NEW p \in Threads, NEW ix \in Evs, NEW k \in 1 .. inst[ix], NEW num \in Pool,
             NEW val \in Values, SetVal(p, ix, k, num, val)
      PROVE  Shapes' /\ panic' = panic
  <2>1. ClearUndo(ix, num) /\ UNCHANGED <<sema, semtot, pc, req, panic, inst>>
    BY <1>4 DEF SetVal
  <2>2. undo' \in [Threads -> Undos]
    BY <2>1, ClearUndoIs
  <2> QED
    BY <2>1, <2>2
<1>5. ASSUME NEW p \in Threads, NEW ix \in Evs, NEW k \in 1 .. inst[ix], SetAllRead(p, ix, k)
      PROVE  Shapes' /\ panic' = panic
  <2>1. sema[ix].nsems \in Int /\ k \in Nat
    BY DEF Sets
  <2>2. [NoReq EXCEPT !.ix = ix, !.k = k, !.num = sema[ix].nsems] \in Reqs
    BY <2>1, NoReqIs DEF Reqs
  <2> QED
    BY <1>5, <2>2 DEF SetAllRead, Goto, semVars, history
<1>6. ASSUME NEW p \in Threads, NEW ix \in Evs, NEW k \in 1 .. inst[ix], RmidTotal(p, ix, k)
      PROVE  Shapes' /\ panic' = panic
  <2>1. sema[ix].nsems \in Int /\ k \in Nat
    BY DEF Sets
  <2>2. [NoReq EXCEPT !.ix = ix, !.k = k] \in Reqs
    BY <2>1, NoReqIs DEF Reqs
  <2> QED
    BY <1>6, <2>1, <2>2 DEF RmidTotal, Goto, history
<1>7. ASSUME NEW p \in Threads, Fail(p) PROVE Shapes' /\ panic' = panic
  BY <1>7 DEF Fail, Goto, semVars, history
<1>8. ASSUME NEW p \in Threads, SemopBody(p) PROVE Shapes' /\ panic' = panic
  <2>1. Attempt(p) \/ Fail(p)
    BY <1>8 DEF SemopBody
  <2> HIDE DEF Shapes
  <2> QED
    BY <1>7, <2>1, AttemptShapes
<1>9. ASSUME NEW p \in Threads, SemopAwake(p) PROVE Shapes' /\ panic' = panic
  <2>1. Attempt(p) \/ Fail(p)
    BY <1>9 DEF SemopAwake
  <2> HIDE DEF Shapes
  <2> QED
    BY <1>7, <2>1, AttemptShapes
<1>10. ASSUME NEW p \in Threads, SleepStep(p) PROVE Shapes' /\ panic' = panic
  BY <1>10 DEF SleepStep, history
<1>11. ASSUME NEW p \in Threads, NEW array \in Arrays, SetAllWrite(p, array)
       PROVE  Shapes' /\ panic' = panic
  <2> DEFINE ix == req[p].ix
  <2>1. ix \in Evs /\ sema[ix].nsems \in Int /\ req[p] \in Reqs
    BY DEF Reqs, Sets
  <2>2. CASE ~Valid(ix, req[p].k)
    BY <1>11, <2>2 DEF SetAllWrite, Goto, semVars, history
  <2>3. CASE Valid(ix, req[p].k) /\ req[p].num # sema[ix].nsems
    <3>1. req' = [req EXCEPT ![p].num = sema[ix].nsems] /\ UNCHANGED <<sema, semtot, inst, pc, undo, panic>>
      BY <1>11, <2>3 DEF SetAllWrite, semVars, history
    <3>2. [req[p] EXCEPT !.num = sema[ix].nsems] \in Reqs
      BY <2>1 DEF Reqs
    <3>3. req' \in [Threads -> Reqs]
      BY <3>1, <3>2
    <3> QED
      BY <3>1, <3>3
  <2>4. CASE Valid(ix, req[p].k) /\ req[p].num = sema[ix].nsems
    <3>1. ClearUndo(ix, -1) /\ pc' = [pc EXCEPT ![p] = "idle"] /\ UNCHANGED <<sema, semtot, inst, req, panic>>
      BY <1>11, <2>4 DEF SetAllWrite, Goto
    <3>2. undo' \in [Threads -> Undos]
      <4>1. -1 \in Pool \union {-1}
        OBVIOUS
      <4> HIDE DEF ix, Shapes
      <4> QED
        BY <2>1, <3>1, <4>1, ClearUndoIs
    <3> QED
      BY <3>1, <3>2
  <2> QED
    BY <2>2, <2>3, <2>4
<1>12. ASSUME NEW p \in Threads, RmidShift(p) PROVE Shapes' /\ panic' = panic
  BY <1>12 DEF RmidShift, Goto, history
<1>13. ASSUME NEW p \in Threads, RmidBases(p) PROVE Shapes' /\ panic' = panic
  <2> DEFINE s == sema[req[p].ix]
  <2>1. /\ pc' = [pc EXCEPT ![p] = "rmid_clear"] /\ UNCHANGED <<semtot, undo, req, panic, inst>>
        /\ sema' = [e \in Evs |->
                      IF e = req[p].ix THEN [s EXCEPT !.alloc = FALSE]
                      ELSE IF sema[e].alloc /\ sema[e].base > s.base
                           THEN [sema[e] EXCEPT !.base = @ - s.nsems] ELSE sema[e]]
    BY <1>13 DEF RmidBases, Goto, history
  <2>2. s \in Sets /\ s.nsems \in Int /\ \A e \in Evs : sema[e] \in Sets /\ sema[e].base \in Int
    BY DEF Reqs, Sets
  <2>3. [s EXCEPT !.alloc = FALSE] \in Sets
    BY <2>2 DEF Sets
  <2>4. \A e \in Evs : [sema[e] EXCEPT !.base = @ - s.nsems] \in Sets
    <3> HIDE DEF s
    <3> SUFFICES ASSUME NEW e \in Evs PROVE [sema[e] EXCEPT !.base = @ - s.nsems] \in Sets
      OBVIOUS
    <3>1. sema[e] \in Sets /\ sema[e].base - s.nsems \in Int
      BY <2>2
    <3> QED
      BY <3>1 DEF Sets
  <2>5. sema' \in [Evs -> Sets]
    <3> HIDE DEF s
    <3> QED
      BY <2>1, <2>2, <2>3, <2>4
  <2> QED
    BY <2>1, <2>5
<1>14. ASSUME NEW p \in Threads, RmidClear(p) PROVE Shapes' /\ panic' = panic
  <2>1. ClearUndo(req[p].ix, -1) /\ pc' = [pc EXCEPT ![p] = "idle"]
        /\ UNCHANGED <<sema, semtot, req, panic, inst>>
    BY <1>14 DEF RmidClear, Goto
  <2>2. req[p].ix \in Evs /\ -1 \in Pool \union {-1}
    BY DEF Reqs
  <2>3. undo' \in [Threads -> Undos]
    <3> HIDE DEF Shapes
    <3> QED
      BY <2>1, <2>2, ClearUndoIs
  <2> QED
    BY <2>1, <2>3
<1>15. ASSUME NEW p \in Threads, Exit(p)
       PROVE  Shapes' /\ (panic' = panic \/ panic' = "exit")
  BY <1>15 DEF Exit, Goto, history
<1>16. ASSUME NEW p \in Threads, NEW ix \in Evs, NEW n \in Sizes, SemgetAlloc(p, ix, n)
       PROVE  Shapes' /\ panic' = panic
  <2>1. n \in Int
    BY InputAssumption
  <2>2. [NoReq EXCEPT !.ix = ix, !.num = n] \in Reqs
    BY <2>1, NoReqIs DEF Reqs
  <2> QED
    BY <1>16, <2>2 DEF SemgetAlloc, Goto, semVars, history
<1>17. ASSUME NEW p \in Threads, Astray(p) PROVE Shapes' /\ panic' = "astray"
  BY <1>17 DEF Astray, semVars, history
<1> HIDE DEF Shapes, Labels
<1> QED
  BY <1>1, <1>2, <1>3, <1>4, <1>5, <1>6, <1>8, <1>9, <1>10, <1>11, <1>12, <1>13, <1>14, <1>15, <1>16,
     <1>17
     DEF Next

LEMMA MakingKept ==
    ASSUME Shapes, Making, semtot' \in Int, semtot' <= semtot, inst' = inst,
           \A e \in Evs : sema'[e].alloc => sema[e].alloc,
           \A q \in Threads : pc'[q] = "semget" => pc[q] = "semget" /\ req'[q] = req[q]
    PROVE  Making'
<1> SUFFICES ASSUME NEW p \in Threads, pc'[p] = "semget"
             PROVE  /\ req'[p].num \in Nat /\ req'[p].num <= SEMMNS - semtot'
                    /\ ~sema'[req'[p].ix].alloc /\ inst'[req'[p].ix] < MaxGets
                    /\ \A q \in Threads : pc'[q] = "semget" => q = p
  BY DEF Making
<1>1. pc[p] = "semget" /\ req'[p] = req[p] /\ req[p].ix \in Evs
  BY DEF Shapes, Reqs
<1>2. req[p].num \in Nat /\ req[p].num <= SEMMNS - semtot
  BY <1>1 DEF Making
<1>3. req[p].num <= SEMMNS - semtot'
  BY <1>2, LimitAssumption DEF Shapes
<1> QED
  BY <1>1, <1>2, <1>3 DEF Making

\* A thread goes on, and is not in semget.
LEMMA MakingGo ==
    ASSUME Shapes, Making, semtot' \in Int, semtot' <= semtot, inst' = inst,
           \A e \in Evs : sema'[e].alloc => sema[e].alloc,
           NEW p \in Threads, NEW label, label # "semget", pc' = [pc EXCEPT ![p] = label],
           \A q \in Threads : q # p => req'[q] = req[q]
    PROVE  Making'
<1>1. \A q \in Threads : pc'[q] = "semget" => pc[q] = "semget" /\ req'[q] = req[q]
  BY DEF Shapes
<1> QED
  BY <1>1, MakingKept

LEMMA MakingStep ==
    ASSUME Shapes, Making, [Next]_vars
    PROVE  Making'
<1>1. semtot \in Int /\ semtot <= semtot
  BY DEF Shapes
<1>2. ASSUME UNCHANGED <<sema, semtot, inst, pc, req>> PROVE Making'
  BY <1>1, <1>2, MakingKept
<1>3. ASSUME NEW p \in Threads, UNCHANGED <<sema, semtot, inst>>, NEW label, label # "semget",
             pc' = [pc EXCEPT ![p] = label], \A q \in Threads : q # p => req'[q] = req[q]
      PROVE  Making'
  BY <1>1, <1>3, MakingGo
<1>4. ASSUME NEW p \in Threads, NEW ix \in Evs, NEW n \in Sizes, SemgetAlloc(p, ix, n)
      PROVE  Making'
  <2> DEFINE r == [NoReq EXCEPT !.ix = ix, !.num = n]
  <2>1. /\ \A q \in Threads : pc[q] # "semget"
        /\ pc' = [pc EXCEPT ![p] = "semget"] /\ req' = [req EXCEPT ![p] = r]
        /\ inst[ix] < MaxGets /\ ~sema[ix].alloc /\ n <= SEMMNS - semtot
        /\ UNCHANGED <<sema, semtot, inst>>
    BY <1>4 DEF SemgetAlloc, Goto, GlobalFree, semVars, history
  <2>2. r.ix = ix /\ r.num = n
    BY NoReqIs DEF Reqs
  <2>3. n \in Nat
    BY InputAssumption
  <2> HIDE DEF r
  <2>4. \A q \in Threads : pc'[q] = "semget" => q = p /\ req'[q] = r
    BY <2>1 DEF Shapes
  <2> QED
    BY <2>1, <2>2, <2>3, <2>4 DEF Making
<1>5. ASSUME NEW p \in Threads, Semget(p) PROVE Making'
  <2>1. pc[p] = "semget" /\ pc' = [pc EXCEPT ![p] = "idle"]
    BY <1>5 DEF Semget, Goto
  <2>2. \A q \in Threads : pc'[q] # "semget"
    BY <2>1 DEF Shapes, Making
  <2> QED
    BY <2>2 DEF Making
<1>6. ASSUME NEW p \in Threads, Astray(p) PROVE Making'
  BY <1>2, <1>6 DEF Astray, semVars, history
<1>7. ASSUME NEW p \in Threads, NEW ix \in Evs, NEW k \in 1 .. inst[ix], NEW sops \in Vectors,
             Semop(p, ix, k, sops)
      PROVE  Making'
  <2>1. pc' = [pc EXCEPT ![p] = "semop"] /\ UNCHANGED <<sema, semtot, inst>>
        /\ \A q \in Threads : q # p => req'[q] = req[q]
    BY <1>7 DEF Semop, Goto, semVars, history, Shapes
  <2> QED
    BY <1>3, <2>1
<1>8. ASSUME NEW p \in Threads, NEW ix \in Evs, NEW k \in 1 .. inst[ix], NEW num \in Pool,
             NEW val \in Values, SetVal(p, ix, k, num, val)
      PROVE  Making'
  BY <1>2, <1>8 DEF SetVal
<1>9. ASSUME NEW p \in Threads, NEW ix \in Evs, NEW k \in 1 .. inst[ix], SetAllRead(p, ix, k)
      PROVE  Making'
  <2>1. pc' = [pc EXCEPT ![p] = "setall"] /\ UNCHANGED <<sema, semtot, inst>>
        /\ \A q \in Threads : q # p => req'[q] = req[q]
    BY <1>9 DEF SetAllRead, Goto, semVars, history, Shapes
  <2> QED
    BY <1>3, <2>1
<1>10. ASSUME NEW p \in Threads, NEW ix \in Evs, NEW k \in 1 .. inst[ix], RmidTotal(p, ix, k)
       PROVE  Making'
  <2>1. pc' = [pc EXCEPT ![p] = "rmid_shift"] /\ UNCHANGED <<sema, inst>>
        /\ semtot' = semtot - sema[ix].nsems
        /\ \A q \in Threads : q # p => req'[q] = req[q]
    BY <1>10 DEF RmidTotal, Goto, history, Shapes
  <2>2. sema[ix].nsems \in Nat
    BY DEF Shapes, Sets
  <2>3. semtot' \in Int /\ semtot' <= semtot
    BY <1>1, <2>1, <2>2
  <2>4. \A e \in Evs : sema'[e].alloc => sema[e].alloc
    BY <2>1
  <2> QED
    BY <2>1, <2>3, <2>4, MakingGo
<1>11. ASSUME NEW p \in Threads, Fail(p) PROVE Making'
  <2>1. pc' = [pc EXCEPT ![p] = "idle"] /\ UNCHANGED <<sema, semtot, inst, req>>
    BY <1>11 DEF Fail, Goto, semVars, history
  <2> QED
    BY <1>3, <2>1
<1>12. ASSUME NEW p \in Threads, Attempt(p) PROVE Making'
  <2> DEFINE ix == req[p].ix
             sops == req[p].sops
  <2>1. UNCHANGED <<sema, semtot, inst>> /\ (SemopDone(p, ix, sops) \/ SemopStuck(p, ix, sops))
    BY <1>12 DEF Attempt
  <2>2. (pc' = [pc EXCEPT ![p] = "idle"] \/ pc' = [pc EXCEPT ![p] = "asleep"])
        /\ \A q \in Threads : q # p => req'[q] = req[q]
    <3>1. CASE SemopDone(p, ix, sops)
      BY <3>1 DEF SemopDone, Goto
    <3>2. CASE SemopStuck(p, ix, sops)
      BY <3>2 DEF SemopStuck, Goto, Shapes
    <3> QED
      BY <2>1, <3>1, <3>2
  <2> QED
    BY <1>3, <2>1, <2>2
<1>13. ASSUME NEW p \in Threads, SemopBody(p) PROVE Making'
  BY <1>11, <1>12, <1>13 DEF SemopBody
<1>14. ASSUME NEW p \in Threads, SemopAwake(p) PROVE Making'
  BY <1>11, <1>12, <1>14 DEF SemopAwake
<1>15. ASSUME NEW p \in Threads, SleepStep(p) PROVE Making'
  BY <1>2, <1>15 DEF SleepStep, history
<1>16. ASSUME NEW p \in Threads, NEW array \in Arrays, SetAllWrite(p, array) PROVE Making'
  <2> DEFINE ix == req[p].ix
  <2>1. pc[p] = "setall" /\ pc[p] # "semget"
    BY <1>16 DEF SetAllWrite
  <2>2. CASE ~Valid(ix, req[p].k)
    <3>1. pc' = [pc EXCEPT ![p] = "idle"] /\ UNCHANGED <<sema, semtot, inst, req>>
      BY <1>16, <2>2 DEF SetAllWrite, Goto, semVars, history
    <3> QED
      BY <1>3, <3>1
  <2>3. CASE Valid(ix, req[p].k) /\ req[p].num # sema[ix].nsems
    <3>1. req' = [req EXCEPT ![p].num = sema[ix].nsems] /\ UNCHANGED <<sema, semtot, inst, pc>>
      BY <1>16, <2>3 DEF SetAllWrite, semVars, history
    <3>2. \A q \in Threads : pc'[q] = "semget" => pc[q] = "semget" /\ req'[q] = req[q]
      BY <2>1, <3>1 DEF Shapes
    <3> QED
      BY <1>1, <3>1, <3>2, MakingKept
  <2>4. CASE Valid(ix, req[p].k) /\ req[p].num = sema[ix].nsems
    <3>1. pc' = [pc EXCEPT ![p] = "idle"] /\ UNCHANGED <<sema, semtot, inst, req>>
      BY <1>16, <2>4 DEF SetAllWrite, Goto
    <3> QED
      BY <1>3, <3>1
  <2> QED
    BY <2>2, <2>3, <2>4
<1>17. ASSUME NEW p \in Threads, RmidShift(p) PROVE Making'
  <2>1. pc' = [pc EXCEPT ![p] = "rmid_bases"] /\ UNCHANGED <<sema, semtot, inst, req>>
    BY <1>17 DEF RmidShift, Goto, history
  <2> QED
    BY <1>3, <2>1
<1>18. ASSUME NEW p \in Threads, RmidBases(p) PROVE Making'
  <2> DEFINE s == sema[req[p].ix]
  <2>1. /\ pc' = [pc EXCEPT ![p] = "rmid_clear"] /\ UNCHANGED <<semtot, req, inst>>
        /\ sema' = [e \in Evs |->
                      IF e = req[p].ix THEN [s EXCEPT !.alloc = FALSE]
                      ELSE IF sema[e].alloc /\ sema[e].base > s.base
                           THEN [sema[e] EXCEPT !.base = @ - s.nsems] ELSE sema[e]]
    BY <1>18 DEF RmidBases, Goto, history
  <2>2. \A e \in Evs : sema'[e].alloc => sema[e].alloc
    BY <2>1 DEF Shapes, Sets, Reqs
  <2> QED
    BY <1>1, <2>1, <2>2, MakingGo
<1>19. ASSUME NEW p \in Threads, RmidClear(p) PROVE Making'
  <2>1. pc' = [pc EXCEPT ![p] = "idle"] /\ UNCHANGED <<sema, semtot, inst, req>>
    BY <1>19 DEF RmidClear, Goto
  <2> QED
    BY <1>3, <2>1
<1>20. ASSUME NEW p \in Threads, Exit(p) PROVE Making'
  <2>1. pc' = [pc EXCEPT ![p] = "dead"] /\ UNCHANGED <<sema, semtot, inst, req>>
    BY <1>20 DEF Exit, Goto, history
  <2> QED
    BY <1>3, <2>1
<1>21. ASSUME UNCHANGED vars PROVE Making'
  BY <1>2, <1>21 DEF vars, semVars, history
<1> QED
  BY <1>4, <1>5, <1>6, <1>7, <1>8, <1>9, <1>10, <1>13, <1>14, <1>15, <1>16, <1>17, <1>18, <1>19,
     <1>20, <1>21
     DEF Next

LEMMA MakingInit == Init => Making
BY DEF Init, Making

LEMMA ShapesInit == Init => Shapes /\ panic # "rollback"
<1> SUFFICES ASSUME Init PROVE Shapes /\ panic # "rollback"
  OBVIOUS
<1>1. sema \in [Evs -> Sets]
  <2>1. 0 \in 0 .. SeqMod - 1
    BY LimitAssumption
  <2>2. [alloc |-> FALSE, seq |-> 0, nsems |-> 0, base |-> 0] \in Sets
    BY <2>1 DEF Sets
  <2> QED
    BY <2>2 DEF Init
<1>2. undo \in [Threads -> Undos]
  <2>1. Sound(<<>>)
    BY LimitAssumption DEF Sound
  <2>2. <<>> \in Undos
    BY <2>1 DEF Undos, Sound
  <2> QED
    BY <2>2 DEF Init
<1>3. req \in [Threads -> Reqs]
  BY NoReqIs DEF Init
<1> QED
  BY <1>1, <1>2, <1>3 DEF Init, Shapes, Labels

\* "This guarantees that we won't run out of space as we roll things back out"
\* (sysv_sem.c:1177-1180), for any vectors, any number of sets and processes, and
\* any SEMUME and SEMAEM: the rollback of semop's undo entries never fails.
THEOREM RollbackFitsHolds == Spec => []RollbackFits
<1> DEFINE Inv == Shapes /\ Making /\ panic # "rollback"
<1>1. Init => Inv
  BY ShapesInit, MakingInit
<1>2. Inv /\ [Next]_vars => Inv'
  BY ShapesStep, MakingStep
<1>3. Inv => RollbackFits
  BY DEF RollbackFits
<1> QED
  BY <1>1, <1>2, <1>3, PTL DEF Spec

-----------------------------------------------------------------------------
(* Handles                                                                  *)

\* While a slot is used no more often than there are sequence numbers, they count
\* the sets created in it, and a call holds the number of one of these.
Seqs ==
    /\ \A e \in Evs : sema[e].seq = inst[e] /\ inst[e] <= MaxGets
    /\ \A p \in Threads : req[p].k <= inst[req[p].ix]
    /\ foreign = FALSE

LEMMA Remainder ==
    ASSUME NEW m \in Nat, NEW k \in Nat, k < m
    PROVE  k % m = k
OBVIOUS

\* A handle that IPCID_TO_SEQ finds valid names the present set of its slot.
LEMMA ValidIs ==
    ASSUME MaxGets < SeqMod, Shapes, Seqs, NEW ix \in Evs, NEW k \in Nat, k <= inst[ix], Valid(ix, k)
    PROVE  inst[ix] = k
<1>1. inst[ix] \in Nat /\ inst[ix] <= MaxGets /\ sema[ix].seq = inst[ix] /\ MaxGets \in Nat /\ SeqMod \in Nat
  BY LimitAssumption DEF Shapes, Seqs
<1>2. k < SeqMod
  BY <1>1
<1>3. k % SeqMod = k
  BY <1>1, <1>2, Remainder
<1> QED
  BY <1>1, <1>3 DEF Valid

LEMMA SeqsStep ==
    ASSUME MaxGets < SeqMod, Shapes, Shapes', Making, Seqs, [Next]_vars
    PROVE  Seqs'
<1>1. ASSUME NEW p \in Threads PROVE req[p].ix \in Evs /\ req[p].k \in Nat /\ req[p].k <= inst[req[p].ix]
  BY DEF Shapes, Reqs, Seqs
<1>2. \* a call that changes a set, or does not
      ASSUME \A e \in Evs : sema'[e].seq = sema[e].seq, inst' = inst, foreign' = FALSE,
             \A q \in Threads : req'[q].k <= inst[req'[q].ix]
      PROVE  Seqs'
  BY <1>2 DEF Seqs
<1>3. ASSUME UNCHANGED vars PROVE Seqs'
  BY <1>3 DEF vars, semVars, history, Seqs
<1>4. ASSUME NEW p \in Threads, Semget(p) PROVE Seqs'
  <2> DEFINE ix == req[p].ix
             n == req[p].num
  <2>0. ix \in Evs
    BY <1>1
  <2>1. /\ req' = req /\ foreign' = foreign /\ inst[ix] < MaxGets
        /\ inst' = [inst EXCEPT ![ix] = @ + 1]
        /\ sema' = [sema EXCEPT ![ix] = [alloc |-> TRUE, seq |-> (sema[ix].seq + 1) % SeqMod,
                                         nsems |-> n, base |-> semtot]]
    BY <1>4 DEF Semget, Making
  <2> HIDE DEF ix, n
  <2>2. inst \in [Evs -> Nat] /\ sema \in [Evs -> Sets] /\ MaxGets \in Nat /\ SeqMod \in Nat
    BY LimitAssumption DEF Shapes
  <2>3. (sema[ix].seq + 1) % SeqMod = inst[ix] + 1
    <3>1. sema[ix].seq = inst[ix] /\ inst[ix] \in Nat
      BY <2>0, <2>2 DEF Seqs
    <3>2. inst[ix] + 1 \in Nat /\ inst[ix] + 1 < SeqMod
      BY <2>0, <2>1, <2>2, <3>1
    <3>3. (inst[ix] + 1) % SeqMod = inst[ix] + 1
      BY <2>2, <3>2, Remainder
    <3> QED
      BY <3>1, <3>3
  <2>4. \A e \in Evs : sema'[e].seq = inst'[e] /\ inst'[e] <= MaxGets
    <3> SUFFICES ASSUME NEW e \in Evs PROVE sema'[e].seq = inst'[e] /\ inst'[e] <= MaxGets
      OBVIOUS
    <3>1. CASE e = ix
      <4>1. inst'[e] = inst[ix] + 1 /\ sema'[e].seq = (sema[ix].seq + 1) % SeqMod
        BY <2>0, <2>1, <2>2, <3>1
      <4>2. inst[ix] + 1 <= MaxGets
        BY <2>0, <2>1, <2>2
      <4> QED
        BY <2>3, <4>1, <4>2
    <3>2. CASE e # ix
      <4>1. inst'[e] = inst[e] /\ sema'[e] = sema[e]
        BY <2>1, <2>2, <3>2
      <4> QED
        BY <4>1 DEF Seqs
    <3> QED
      BY <3>1, <3>2
  <2>5. \A q \in Threads : req'[q].k <= inst'[req'[q].ix]
    <3> SUFFICES ASSUME NEW q \in Threads PROVE req[q].k <= inst'[req[q].ix]
      BY <2>1
    <3> DEFINE e == req[q].ix
               k == req[q].k
    <3>1. e \in Evs /\ k \in Nat /\ k <= inst[e]
      BY <1>1
    <3> HIDE DEF e, k
    <3>2. inst'[e] \in Nat /\ inst[e] \in Nat /\ (inst'[e] = inst[e] \/ inst'[e] = inst[e] + 1)
      BY <2>0, <2>1, <2>2, <3>1
    <3>3. k <= inst'[e]
      BY <3>1, <3>2
    <3> QED
      BY <3>3 DEF e, k
  <2> QED
    BY <2>1, <2>4, <2>5 DEF Seqs
<1>5. \* a call that begins
      ASSUME NEW p \in Threads, NEW ix \in Evs, NEW k \in 1 .. inst[ix], NEW r,
             r.ix = ix, r.k = k, req' = [req EXCEPT ![p] = r],
             UNCHANGED <<sema, inst, foreign>>
      PROVE  Seqs'
  <2>1. req \in [Threads -> Reqs] /\ inst[ix] \in Nat
    BY DEF Shapes
  <2>2. \A q \in Threads : req'[q] = IF q = p THEN r ELSE req[q]
    BY <1>5, <2>1
  <2>3. k <= inst[ix]
    BY <2>1
  <2>4. \A q \in Threads : req'[q].k <= inst[req'[q].ix]
    BY <1>1, <1>5, <2>2, <2>3
  <2> QED
    BY <1>2, <1>5, <2>4 DEF Seqs
<1>6. ASSUME NEW p \in Threads, NEW ix \in Evs, NEW k \in 1 .. inst[ix], NEW sops \in Vectors,
             Semop(p, ix, k, sops)
      PROVE  Seqs'
  <2> DEFINE r == [ix |-> ix, k |-> k, sops |-> sops, num |-> 0, cnt |-> "ncnt"]
  <2>1. r.ix = ix /\ r.k = k /\ req' = [req EXCEPT ![p] = r] /\ UNCHANGED <<sema, inst, foreign>>
    BY <1>6 DEF Semop, semVars, history
  <2> HIDE DEF r
  <2> QED
    BY <1>5, <2>1
<1>7. ASSUME NEW p \in Threads, NEW ix \in Evs, NEW k \in 1 .. inst[ix], NEW num \in Pool,
             NEW val \in Values, SetVal(p, ix, k, num, val)
      PROVE  Seqs'
  <2>1. k \in Nat /\ k <= inst[ix] /\ Valid(ix, k)
    BY <1>7 DEF SetVal, Shapes
  <2>2. inst[ix] = k
    BY <2>1, ValidIs
  <2>3. UNCHANGED <<sema, req, inst>> /\ foreign' = (foreign \/ inst[ix] # k)
    BY <1>7 DEF SetVal
  <2> QED
    BY <1>1, <1>2, <2>2, <2>3 DEF Seqs
<1>8. ASSUME NEW p \in Threads, NEW ix \in Evs, NEW k \in 1 .. inst[ix], SetAllRead(p, ix, k)
      PROVE  Seqs'
  <2> DEFINE r == [NoReq EXCEPT !.ix = ix, !.k = k, !.num = sema[ix].nsems]
  <2>1. r.ix = ix /\ r.k = k
    BY NoReqIs DEF Reqs
  <2>2. req' = [req EXCEPT ![p] = r] /\ UNCHANGED <<sema, inst, foreign>>
    BY <1>8 DEF SetAllRead, semVars, history
  <2> HIDE DEF r
  <2> QED
    BY <1>5, <2>1, <2>2
<1>9. ASSUME NEW p \in Threads, NEW ix \in Evs, NEW k \in 1 .. inst[ix], RmidTotal(p, ix, k)
      PROVE  Seqs'
  <2> DEFINE r == [NoReq EXCEPT !.ix = ix, !.k = k]
  <2>1. r.ix = ix /\ r.k = k
    BY NoReqIs DEF Reqs
  <2>2. req' = [req EXCEPT ![p] = r] /\ UNCHANGED <<sema, inst, foreign>>
    BY <1>9 DEF RmidTotal, history
  <2> HIDE DEF r
  <2> QED
    BY <1>5, <2>1, <2>2
<1>10. ASSUME NEW p \in Threads, Fail(p) PROVE Seqs'
  BY <1>10 DEF Fail, semVars, history, Seqs
<1>11. ASSUME NEW p \in Threads, Valid(req[p].ix, req[p].k), Attempt(p) PROVE Seqs'
  <2> DEFINE ix == req[p].ix
             sops == req[p].sops
  <2>1. inst[ix] = req[p].k
    <3> DEFINE k == req[p].k
    <3>1. ix \in Evs /\ k \in Nat /\ k <= inst[ix] /\ Valid(ix, k)
      BY <1>1, <1>11
    <3> HIDE DEF ix, k
    <3>2. inst[ix] = k
      BY <3>1, ValidIs
    <3> QED
      BY <3>2 DEF k
  <2>2. UNCHANGED <<sema, inst>> /\ (SemopDone(p, ix, sops) \/ SemopStuck(p, ix, sops))
    BY <1>11 DEF Attempt
  <2>3. CASE SemopDone(p, ix, sops)
    <3>1. req' = req /\ (foreign' = foreign \/ foreign' = (foreign \/ inst[ix] # req[p].k))
      BY <2>3 DEF SemopDone
    <3>2. foreign' = FALSE
      BY <2>1, <3>1 DEF Seqs
    <3> QED
      BY <1>1, <1>2, <2>2, <3>1, <3>2
  <2>4. CASE SemopStuck(p, ix, sops)
    <3> DEFINE num == sema[ix].base + sops[Stop(Vals(ix), sops)].num
               cnt == IF sops[Stop(Vals(ix), sops)].op = 0 THEN "zcnt" ELSE "ncnt"
    <3>1. foreign' = foreign
          /\ (req' = req \/ req' = [req EXCEPT ![p].num = num, ![p].cnt = cnt])
      BY <2>4 DEF SemopStuck
    <3> HIDE DEF num, cnt
    <3>2. \A q \in Threads : req'[q].k = req[q].k /\ req'[q].ix = req[q].ix
      <4> DEFINE r == [[req[p] EXCEPT !.num = num] EXCEPT !.cnt = cnt]
      <4>1. req \in [Threads -> Reqs] /\ req[p] \in Reqs
        BY DEF Shapes
      <4>2. r.k = req[p].k /\ r.ix = req[p].ix
        BY <4>1 DEF Reqs
      <4>3. req' = req \/ req' = [req EXCEPT ![p] = r]
        BY <3>1, <4>1
      <4> HIDE DEF r
      <4> QED
        BY <4>1, <4>2, <4>3
    <3> QED
      BY <1>1, <1>2, <2>2, <3>1, <3>2 DEF Seqs
  <2> QED
    BY <2>2, <2>3, <2>4
<1>12. ASSUME NEW p \in Threads, SemopBody(p) PROVE Seqs'
  <2>1. (Valid(req[p].ix, req[p].k) /\ Attempt(p)) \/ Fail(p)
    BY <1>12 DEF SemopBody
  <2> QED
    BY <1>10, <1>11, <2>1
<1>13. ASSUME NEW p \in Threads, SemopAwake(p) PROVE Seqs'
  <2>1. (Valid(req[p].ix, req[p].k) /\ Attempt(p)) \/ Fail(p)
    BY <1>13 DEF SemopAwake
  <2> QED
    BY <1>10, <1>11, <2>1
<1>14. ASSUME NEW p \in Threads, SleepStep(p) PROVE Seqs'
  BY <1>14 DEF SleepStep, history, Seqs
<1>15. ASSUME NEW p \in Threads, NEW array \in Arrays, SetAllWrite(p, array) PROVE Seqs'
  <2> DEFINE ix == req[p].ix
             k == req[p].k
  <2>1. CASE ~Valid(ix, k)
    BY <1>15, <2>1 DEF SetAllWrite, semVars, history, Seqs
  <2>2. CASE Valid(ix, k) /\ req[p].num # sema[ix].nsems
    <3>1. req' = [req EXCEPT ![p].num = sema[ix].nsems] /\ UNCHANGED <<sema, inst, foreign>>
      BY <1>15, <2>2 DEF SetAllWrite, semVars, history
    <3>2. \A q \in Threads : req'[q].k = req[q].k /\ req'[q].ix = req[q].ix
      BY <3>1 DEF Shapes, Reqs
    <3> QED
      BY <1>1, <1>2, <3>1, <3>2 DEF Seqs
  <2>3. CASE Valid(ix, k) /\ req[p].num = sema[ix].nsems
    <3>1. UNCHANGED <<sema, req, inst>> /\ foreign' = (foreign \/ inst[ix] # k)
      BY <1>15, <2>3 DEF SetAllWrite
    <3>2. inst[ix] = k
      <4>1. ix \in Evs /\ k \in Nat /\ k <= inst[ix] /\ Valid(ix, k)
        BY <1>1, <2>3
      <4> HIDE DEF ix, k
      <4> QED
        BY <4>1, ValidIs
    <3> QED
      BY <1>1, <1>2, <3>1, <3>2 DEF Seqs
  <2> QED
    BY <2>1, <2>2, <2>3
<1>16. ASSUME NEW p \in Threads, RmidShift(p) PROVE Seqs'
  BY <1>16 DEF RmidShift, history, Seqs
<1>17. ASSUME NEW p \in Threads, RmidBases(p) PROVE Seqs'
  <2> DEFINE s == sema[req[p].ix]
  <2>1. /\ UNCHANGED <<req, inst, foreign>>
        /\ sema' = [e \in Evs |->
                      IF e = req[p].ix THEN [s EXCEPT !.alloc = FALSE]
                      ELSE IF sema[e].alloc /\ sema[e].base > s.base
                           THEN [sema[e] EXCEPT !.base = @ - s.nsems] ELSE sema[e]]
    BY <1>17 DEF RmidBases, history
  <2>2. \A e \in Evs : sema'[e].seq = sema[e].seq
    BY <1>1, <2>1 DEF Shapes, Sets
  <2> QED
    BY <1>1, <1>2, <2>1, <2>2 DEF Seqs
<1>18. ASSUME NEW p \in Threads, RmidClear(p) PROVE Seqs'
  BY <1>18 DEF RmidClear, Seqs
<1>19. ASSUME NEW p \in Threads, Exit(p) PROVE Seqs'
  BY <1>19 DEF Exit, history, Seqs
<1>20. ASSUME NEW p \in Threads, NEW ix \in Evs, NEW n \in Sizes, SemgetAlloc(p, ix, n)
       PROVE  Seqs'
  <2> DEFINE r == [NoReq EXCEPT !.ix = ix, !.num = n]
  <2>1. r.ix = ix /\ r.k = 0
    BY NoReqIs DEF NoReq, Reqs
  <2>2. req' = [req EXCEPT ![p] = r] /\ UNCHANGED <<sema, inst, foreign>>
    BY <1>20 DEF SemgetAlloc, semVars, history
  <2>3. inst[ix] \in Nat /\ 0 <= inst[ix]
    BY DEF Shapes
  <2> HIDE DEF r
  <2>4. \A q \in Threads : req'[q].k <= inst[req'[q].ix]
    BY <1>1, <2>1, <2>2, <2>3 DEF Shapes
  <2> QED
    BY <1>2, <2>2, <2>4 DEF Seqs
<1>21. ASSUME NEW p \in Threads, Astray(p) PROVE Seqs'
  BY <1>21 DEF Astray, semVars, history, Seqs
<1> QED
  BY <1>3, <1>4, <1>6, <1>7, <1>8, <1>9, <1>12, <1>13, <1>14, <1>15, <1>16, <1>17, <1>18, <1>19,
     <1>20, <1>21
     DEF Next

\* A call never changes another set than the one its handle named, however the
\* slots are removed and created again while it sleeps or reads its argument
\* (sysv_sem.c:1128-1135, 767-775), as long as a slot is not used so often that its
\* sequence number comes round, and up to the first call that finds an old handle valid
\* because semget has set SEM_ALLOC and not yet the sequence number (890-891).
THEOREM NoForeignChangeHolds ==
    ASSUME MaxGets < SeqMod
    PROVE  Spec => []NoForeignChange
<1> DEFINE Inv == Shapes /\ Making /\ Seqs
<1>1. Init => Inv
  <2>1. Init => Seqs
    <3> SUFFICES ASSUME Init PROVE Seqs
      OBVIOUS
    <3>1. \A e \in Evs : sema[e].seq = 0 /\ inst[e] = 0
      BY DEF Init
    <3>2. \A p \in Threads : req[p].k = 0 /\ req[p].ix \in Evs
      <4>1. NoReq.k = 0 /\ NoReq.ix \in Evs
        BY NoReqIs DEF NoReq, Reqs
      <4> QED
        BY <4>1 DEF Init
    <3>3. foreign = FALSE
      BY DEF Init
    <3> QED
      BY <3>1, <3>2, <3>3, LimitAssumption DEF Seqs
  <2> QED
    BY <2>1, ShapesInit, MakingInit
<1>2. Inv /\ [Next]_vars => Inv'
  BY ShapesStep, MakingStep, SeqsStep
<1>3. Inv => NoForeignChange
  BY DEF Seqs, NoForeignChange
<1> QED
  BY <1>1, <1>2, <1>3, PTL DEF Spec

-----------------------------------------------------------------------------
(* What the undo structures hold                                            *)

\* No set in the slot, and no IPC_RMID that has yet to clear its entries
Gone(ix) == ~sema[ix].alloc /\ \A q \in Threads : ~(pc[q] = "rmid_clear" /\ req[q].ix = ix)

Owes ==
    /\ owed \in [Threads -> [Evs -> [Pool -> Int]]] /\ passed \in [Threads -> [Evs -> SUBSET Pool]]
    /\ \A p \in Threads, ix \in Evs :
         /\ \A n \in Pool \ passed[p][ix] : owed[p][ix][n] = Adj(undo[p], ix, n)
         /\ Gone(ix) => \A m : Adj(undo[p], ix, m) = 0

LEMMA OwesLedger ==
    ASSUME Shapes, Owes
    PROVE  UndoLedger
<1> SUFFICES ASSUME NEW p \in Threads, NEW ix \in Evs, Gone(ix) PROVE OfSet(undo[p], ix) = {}
  BY DEF Owes, UndoLedger, Gone
<1>1. Sound(undo[p])
  BY DEF Shapes, Undos
<1> QED
  BY <1>1, OfSetAdj DEF Owes

\* Slots are not left but by IPC_RMID.
LEMMA OwesKept ==
    ASSUME Owes, UNCHANGED <<undo, owed, passed>>, \A ix \in Evs : Gone(ix)' => Gone(ix)
    PROVE  Owes'
<1> QED
  BY DEF Owes

\* A process that is not about to clear entries may do what it likes with its own pc
\* and req.
LEMMA GoneKept ==
    ASSUME Shapes, NEW p \in Threads, pc[p] # "rmid_clear",
           \A q \in Threads : q # p => pc'[q] = pc[q] /\ req'[q] = req[q],
           \A e \in Evs : sema[e].alloc => sema'[e].alloc
    PROVE  \A ix \in Evs : Gone(ix)' => Gone(ix)
<1> QED
  BY DEF Gone

\* SETVAL, SETALL and IPC_RMID clear what they have made void.
LEMMA OwesCleared ==
    ASSUME Shapes, Shapes', Owes,
           NEW ix \in Evs, NEW num \in Pool \union {-1}, ClearUndo(ix, num),
           \A e \in Evs : Gone(e)' => Gone(e) \/ (e = ix /\ num = -1)
    PROVE  Owes'
<1> DEFINE new(q) == [owed[q] EXCEPT ![ix] = [i \in Pool |-> IF num \in {-1, i} THEN 0 ELSE @[i]]]
<1> DEFINE only(q) == Entry(undo[q], ix, num) \in {{}, OfSet(undo[q], ix)}
           but(q) == IF num = -1 THEN {}
                     ELSE IF only(q) THEN passed[q][ix] \ {num} ELSE passed[q][ix] \union {num}
<1>0. passed' = [q \in Threads |-> [passed[q] EXCEPT ![ix] = but(q)]]
  BY DEF ClearUndo
<1>1. owed' = [q \in Threads |-> new(q)]
  BY DEF ClearUndo
<1>2. owed \in [Threads -> [Evs -> [Pool -> Int]]] /\ passed \in [Threads -> [Evs -> SUBSET Pool]]
  BY DEF Owes
<1>9. /\ passed' \in [Threads -> [Evs -> SUBSET Pool]]
      /\ \A q \in Threads : /\ passed'[q][ix] = but(q)
                             /\ \A e \in Evs : e # ix => passed'[q][e] = passed[q][e]
  <2>1. ASSUME NEW q \in Threads PROVE but(q) \in SUBSET Pool
    <3>1. passed[q][ix] \in SUBSET Pool /\ (num # -1 => num \in Pool)
      BY <1>2
    <3> HIDE DEF only
    <3> QED
      BY <3>1
  <2> HIDE DEF but
  <2> QED
    BY <1>0, <1>2, <2>1
<1>3. ASSUME NEW q \in Threads
      PROVE  /\ new(q) \in [Evs -> [Pool -> Int]]
             /\ \A e \in Evs : e # ix => new(q)[e] = owed[q][e]
             /\ \A n \in Pool : new(q)[ix][n] = IF num \in {-1, n} THEN 0 ELSE owed[q][ix][n]
  <2>1. owed[q] \in [Evs -> [Pool -> Int]] /\ owed[q][ix] \in [Pool -> Int]
    BY <1>2
  <2>2. [i \in Pool |-> IF num \in {-1, i} THEN 0 ELSE owed[q][ix][i]] \in [Pool -> Int]
    BY <2>1
  <2> QED
    BY <2>1, <2>2
<1> HIDE DEF new
<1>4. owed' \in [Threads -> [Evs -> [Pool -> Int]]] /\ \A q \in Threads : owed'[q] = new(q)
  BY <1>1, <1>3
<1>5. \A q \in Threads : Others(undo[q], undo'[q], ix)
  BY ClearUndoIs
<1>6. \A q \in Threads : num = -1 => \A m : Adj(undo'[q], ix, m) = 0
  <2> SUFFICES ASSUME NEW q \in Threads, num = -1 PROVE \A m : Adj(undo'[q], ix, m) = 0
    OBVIOUS
  <2>1. Sound(undo'[q])
    BY <1>5 DEF Others
  <2>2. OfSet(undo'[q], ix) = {}
    BY ClearUndoIs
  <2> QED
    BY <2>1, <2>2, OfSetAdj
<1>7. \A q \in Threads : num # -1 =>
        /\ \A m : m # num => Adj(undo'[q], ix, m) = Adj(undo[q], ix, m)
        /\ only(q) => Adj(undo'[q], ix, num) = 0
  BY ClearUndoIs
<1> HIDE DEF only
<1>8. ASSUME NEW q \in Threads, NEW e \in Evs
      PROVE  /\ \A n \in Pool \ passed'[q][e] : owed'[q][e][n] = Adj(undo'[q], e, n)
             /\ Gone(e)' => \A m : Adj(undo'[q], e, m) = 0
  <2>1. CASE e # ix
    <3>1. \A m : Adj(undo'[q], e, m) = Adj(undo[q], e, m)
      BY <1>5, <2>1 DEF Others
    <3>2. owed'[q][e] = owed[q][e]
      BY <1>3, <1>4, <2>1
    <3>3. /\ \A n \in Pool \ passed[q][e] : owed[q][e][n] = Adj(undo[q], e, n)
          /\ passed'[q][e] = passed[q][e]
      BY <1>9, <2>1 DEF Owes
    <3>4. Gone(e)' => \A m : Adj(undo[q], e, m) = 0
      BY <2>1 DEF Owes
    <3> QED
      BY <3>1, <3>2, <3>3, <3>4
  <2>2. CASE e = ix /\ num = -1
    <3>1. \A n \in Pool : owed'[q][e][n] = 0
      BY <1>3, <1>4, <2>2
    <3> QED
      BY <1>6, <2>2, <3>1
  <2>3. CASE e = ix /\ num # -1
    <3>1. Gone(e)' => Gone(e)
      BY <2>3
    <3>2. ASSUME NEW n \in Pool \ passed'[q][ix] PROVE owed'[q][ix][n] = Adj(undo'[q], ix, n)
      <4>1. owed'[q][ix][n] = IF num = n THEN 0 ELSE owed[q][ix][n]
        BY <1>3, <1>4, <2>3
      <4>2. passed'[q][ix] = IF only(q) THEN passed[q][ix] \ {num} ELSE passed[q][ix] \union {num}
        BY <1>9, <2>3
      <4>3. CASE n = num
        BY <1>7, <2>3, <4>1, <4>2, <4>3
      <4>4. CASE n # num
        <5>1. n \in Pool \ passed[q][ix]
          BY <4>2, <4>4
        <5>2. owed[q][ix][n] = Adj(undo[q], ix, n)
          BY <5>1 DEF Owes
        <5> QED
          BY <1>7, <2>3, <4>1, <4>4, <5>2
      <4> QED
        BY <4>3, <4>4
    <3>3. Gone(e)' => \A m : Adj(undo'[q], e, m) = 0
      <4> SUFFICES ASSUME Gone(e)', NEW m PROVE Adj(undo'[q], e, m) = 0
        OBVIOUS
      <4>1. \A x : Adj(undo[q], e, x) = 0
        BY <3>1 DEF Owes
      <4>2. Sound(undo[q]) /\ OfSet(undo[q], e) = {}
        BY <4>1, OfSetAdj DEF Shapes, Undos
      <4>3. only(q)
        BY <2>3, <4>2 DEF only, Entry, OfSet
      <4> QED
        BY <1>7, <2>3, <4>1, <4>3
    <3> QED
      BY <2>3, <3>2, <3>3
  <2> QED
    BY <2>1, <2>2, <2>3
<1> QED
  BY <1>4, <1>8, <1>9 DEF Owes

\* semop puts into the undo structure what it will have to take back.
LEMMA OwesSemop ==
    ASSUME Shapes, Shapes', Owes, NEW p \in Threads, Attempt(p), sema[req[p].ix].alloc,
           pc[p] # "rmid_clear"
    PROVE  Owes'
<1> DEFINE ix == req[p].ix
           sops == req[p].sops
           N == Len(sops)
<1>1. ix \in Evs /\ ix \in Nat /\ sops \in Seq(Sops) /\ sema' = sema
      /\ passed' = passed
  BY EvsAssumption DEF Shapes, Reqs, Attempt
<1>2. SemopDone(p, ix, sops) \/ SemopStuck(p, ix, sops)
  BY DEF Attempt
<1>3. \A e \in Evs : Gone(e)' => Gone(e)
  <2>1. pc' = [pc EXCEPT ![p] = pc'[p]] /\ \A q \in Threads : q # p => req'[q] = req[q]
    <3>1. CASE SemopDone(p, ix, sops)
      BY <3>1 DEF SemopDone, Goto, Shapes
    <3>2. CASE SemopStuck(p, ix, sops)
      <4>1. pc' = [pc EXCEPT ![p] = "idle"] \/ pc' = [pc EXCEPT ![p] = "asleep"]
        BY <3>2 DEF SemopStuck, Goto
      <4> DEFINE num == sema[ix].base + sops[Stop(Vals(ix), sops)].num
                 cnt == IF sops[Stop(Vals(ix), sops)].op = 0 THEN "zcnt" ELSE "ncnt"
      <4>2. req' = req \/ req' = [req EXCEPT ![p].num = num, ![p].cnt = cnt]
        BY <3>2 DEF SemopStuck
      <4> HIDE DEF num, cnt
      <4>3. \A q \in Threads : q # p => req'[q] = req[q]
        BY <4>2 DEF Shapes
      <4> QED
        BY <4>1, <4>3 DEF Shapes
    <3> QED
      BY <1>2, <3>1, <3>2
  <2>2. \A q \in Threads : q # p => pc'[q] = pc[q] /\ req'[q] = req[q]
    BY <2>1 DEF Shapes
  <2> QED
    BY <1>1, <2>2, GoneKept
<1>4. CASE SemopStuck(p, ix, sops)
  <2>1. UNCHANGED <<undo, owed>>
    BY <1>4 DEF SemopStuck
  <2> QED
    BY <1>1, <1>3, <2>1, OwesKept
<1>5. CASE SemopDone(p, ix, sops)
  <2>1. /\ \A q \in Threads : q # p => undo'[q] = undo[q]
        /\ \/ Same(undo'[p], undo[p]) /\ owed' = owed
           \/ /\ owed' = [owed EXCEPT ![p][ix] = Applied(@, UndoPart(sops), -1)[N]]
              /\ \E u : /\ u[0] = undo[p] /\ Chain(u, ix, sops, N) /\ undo'[p] = u[N]
    <3> HIDE DEF ix, sops
    <3> QED
      BY <1>1, <1>5, SemopDoneUndo
  <2>2. CASE Same(undo'[p], undo[p]) /\ owed' = owed
    <3>1. \A q \in Threads : \A e, m : Adj(undo'[q], e, m) = Adj(undo[q], e, m)
      BY <2>1, <2>2 DEF Same
    <3>2. ASSUME NEW q \in Threads, NEW e \in Evs
          PROVE  /\ \A n \in Pool \ passed[q][e] : owed'[q][e][n] = Adj(undo'[q], e, n)
                 /\ Gone(e)' => \A m : Adj(undo'[q], e, m) = 0
      <4>1. Gone(e)' => Gone(e)
        BY <1>3
      <4>2. Gone(e) => \A m : Adj(undo[q], e, m) = 0
        BY DEF Owes
      <4>3. \A n \in Pool \ passed[q][e] : owed'[q][e][n] = Adj(undo'[q], e, n)
        <5>1. \A n \in Pool \ passed[q][e] : owed[q][e][n] = Adj(undo[q], e, n)
          BY DEF Owes
        <5>2. \A n : Adj(undo'[q], e, n) = Adj(undo[q], e, n)
          BY <3>1
        <5> QED
          BY <2>2, <5>1, <5>2
      <4> QED
        BY <3>1, <4>1, <4>2, <4>3
    <3>3. owed' \in [Threads -> [Evs -> [Pool -> Int]]]
      BY <2>2 DEF Owes
    <3> QED
      BY <1>1, <3>2, <3>3 DEF Owes
  <2>3. ASSUME owed' = [owed EXCEPT ![p][ix] = Applied(@, UndoPart(sops), -1)[N]],
               NEW u, u[0] = undo[p], Chain(u, ix, sops, N), undo'[p] = u[N]
        PROVE  Owes'
    <3> DEFINE o == owed[p][ix]
               r == Applied(o, UndoPart(sops), -1)[N]
    <3>1. owed \in [Threads -> [Evs -> [Pool -> Int]]] /\ o \in [Pool -> Int]
      BY <1>1 DEF Owes
    <3>2. Tracks(u[0], ix, o, passed[p][ix])
      BY <1>1, <2>3, <3>1 DEF Owes, Tracks
    <3>3. /\ r \in [Pool -> Int] /\ \A n \in Pool \ passed[p][ix] : r[n] = Adj(u[N], ix, n)
          /\ Others(u[0], u[N], ix)
      <4>1. r = Applied(o, UndoPart(sops), -1)[Len(sops)]
        OBVIOUS
      <4>2. Chain(u, ix, sops, Len(sops))
        BY <2>3
      <4> HIDE DEF r, o, ix, sops
      <4>3. Tracks(u[Len(sops)], ix, r, passed[p][ix]) /\ Others(u[0], u[Len(sops)], ix)
        BY <1>1, <3>2, <4>1, <4>2, ChainAdj
      <4> QED
        BY <4>3 DEF Tracks
    <3>4. owed' = [owed EXCEPT ![p] = [owed[p] EXCEPT ![ix] = r]]
      BY <2>3, <3>1
    <3> HIDE DEF r, o
    <3>5. /\ owed' \in [Threads -> [Evs -> [Pool -> Int]]]
          /\ owed'[p][ix] = r
          /\ \A e \in Evs : e # ix => owed'[p][e] = owed[p][e]
          /\ \A q \in Threads : q # p => owed'[q] = owed[q]
      <4>1. [owed[p] EXCEPT ![ix] = r] \in [Evs -> [Pool -> Int]]
        BY <1>1, <3>1, <3>3
      <4> QED
        BY <1>1, <3>1, <3>4, <4>1
    <3>6. ASSUME NEW q \in Threads, NEW e \in Evs
          PROVE  /\ \A n \in Pool \ passed[q][e] : owed'[q][e][n] = Adj(undo'[q], e, n)
                 /\ Gone(e)' => \A m : Adj(undo'[q], e, m) = 0
      <4>0. /\ \A n \in Pool \ passed[q][e] : owed[q][e][n] = Adj(undo[q], e, n)
            /\ Gone(e)' => \A m : Adj(undo[q], e, m) = 0
        <5>1. Gone(e)' => Gone(e)
          BY <1>3
        <5>2. Gone(e) => \A m : Adj(undo[q], e, m) = 0
          BY DEF Owes
        <5>3. \A n \in Pool \ passed[q][e] : owed[q][e][n] = Adj(undo[q], e, n)
          BY DEF Owes
        <5> QED
          BY <5>1, <5>2, <5>3
      <4>1. CASE q # p
        <5>1. undo'[q] = undo[q] /\ owed'[q] = owed[q]
          BY <2>1, <3>5, <4>1
        <5> QED
          BY <4>0, <5>1
      <4>2. CASE q = p /\ e # ix
        <5>1. \A m : Adj(undo'[p], e, m) = Adj(undo[p], e, m)
          BY <2>3, <3>3, <4>2 DEF Others
        <5>2. owed'[p][e] = owed[p][e]
          BY <3>5, <4>2
        <5> QED
          BY <4>0, <4>2, <5>1, <5>2
      <4>3. CASE q = p /\ e = ix
        <5>1. ~Gone(e)'
          BY <1>1, <4>3 DEF Gone
        <5>2. \A n \in Pool \ passed[p][ix] : owed'[p][ix][n] = Adj(undo'[p], ix, n)
          BY <2>3, <3>3, <3>5
        <5> QED
          BY <4>3, <5>1, <5>2
      <4> QED
        BY <4>1, <4>2, <4>3
    <3> QED
      BY <1>1, <3>5, <3>6 DEF Owes
  <2> QED
    BY <2>1, <2>2, <2>3
<1> QED
  BY <1>2, <1>4, <1>5

LEMMA OwesStep ==
    ASSUME Shapes, Shapes', Owes, [Next]_vars
    PROVE  Owes'
<1> DEFINE Kept == \A e \in Evs : Gone(e)' => Gone(e)
<1>1. ASSUME NEW p \in Threads, pc[p] # "rmid_clear",
             \A q \in Threads : q # p => pc'[q] = pc[q] /\ req'[q] = req[q],
             \A e \in Evs : sema[e].alloc => sema'[e].alloc
      PROVE  Kept
  BY <1>1, GoneKept
<1>2. ASSUME UNCHANGED <<undo, owed, passed>>, Kept PROVE Owes'
  BY <1>2, OwesKept
<1> HIDE DEF Kept
<1>3. ASSUME UNCHANGED vars PROVE Owes'
  BY <1>3 DEF vars, semVars, history, Owes, Gone
<1>4. ASSUME NEW p \in Threads, Semget(p) PROVE Owes'
  <2> DEFINE ix == req[p].ix
  <2>1. /\ UNCHANGED <<undo, owed, passed, req>> /\ pc[p] = "semget" /\ pc' = [pc EXCEPT ![p] = "idle"]
        /\ sema' = [sema EXCEPT ![ix] = [alloc |-> TRUE, seq |-> (sema[ix].seq + 1) % SeqMod,
                                         nsems |-> req[p].num, base |-> semtot]]
    BY <1>4 DEF Semget, Goto
  <2>2. \A e \in Evs : sema[e].alloc => sema'[e].alloc
    BY <2>1 DEF Shapes, Sets, Reqs
  <2>3. \A q \in Threads : q # p => pc'[q] = pc[q] /\ req'[q] = req[q]
    BY <2>1 DEF Shapes
  <2> QED
    BY <1>1, <1>2, <2>1, <2>2, <2>3
<1>15. ASSUME NEW p \in Threads, NEW ix \in Evs, NEW n \in Sizes, SemgetAlloc(p, ix, n) PROVE Owes'
  <2>1. UNCHANGED <<undo, owed, passed, sema>> /\ pc[p] = "idle"
    BY <1>15 DEF SemgetAlloc, semVars, history
  <2>2. \A q \in Threads : q # p => pc'[q] = pc[q] /\ req'[q] = req[q]
    BY <1>15 DEF SemgetAlloc, Goto, Shapes
  <2> QED
    BY <1>1, <1>2, <2>1, <2>2
<1>16. ASSUME NEW p \in Threads, Astray(p) PROVE Owes'
  BY <1>16 DEF Astray, semVars, history, Owes, Gone
<1>5. ASSUME NEW p \in Threads, NEW ix \in Evs, NEW k \in 1 .. inst[ix],
             \/ \E sops \in Vectors : Semop(p, ix, k, sops)
             \/ SetAllRead(p, ix, k) \/ RmidTotal(p, ix, k)
      PROVE  Owes'
  <2>1. UNCHANGED <<undo, owed, passed, sema>> /\ pc[p] = "idle"
    BY <1>5 DEF Semop, SetAllRead, RmidTotal, semVars, history
  <2>2. \A q \in Threads : q # p => pc'[q] = pc[q] /\ req'[q] = req[q]
    BY <1>5 DEF Semop, SetAllRead, RmidTotal, Goto, Shapes
  <2> QED
    BY <1>1, <1>2, <2>1, <2>2
<1>6. ASSUME NEW p \in Threads, NEW ix \in Evs, NEW k \in 1 .. inst[ix], NEW num \in Pool,
             NEW val \in Values, SetVal(p, ix, k, num, val)
      PROVE  Owes'
  <2>1. ClearUndo(ix, num) /\ UNCHANGED <<sema, pc, req>>
    BY <1>6 DEF SetVal
  <2>2. \A e \in Evs : Gone(e)' => Gone(e)
    BY <2>1 DEF Gone
  <2> QED
    BY <2>1, <2>2, OwesCleared
<1>7. ASSUME NEW p \in Threads, pc[p] # "rmid_clear", Fail(p) PROVE Owes'
  <2>1. UNCHANGED <<undo, owed, passed, sema, req>> /\ pc' = [pc EXCEPT ![p] = "idle"]
    BY <1>7 DEF Fail, Goto, semVars, history
  <2>2. \A q \in Threads : q # p => pc'[q] = pc[q] /\ req'[q] = req[q]
    BY <2>1 DEF Shapes
  <2> QED
    BY <1>1, <1>2, <1>7, <2>1, <2>2
<1>8. ASSUME NEW p \in Threads, SemopBody(p) \/ SemopAwake(p) PROVE Owes'
  <2>1. pc[p] # "rmid_clear" /\ ((Valid(req[p].ix, req[p].k) /\ Attempt(p)) \/ Fail(p))
    BY <1>8 DEF SemopBody, SemopAwake
  <2>2. Valid(req[p].ix, req[p].k) => sema[req[p].ix].alloc
    BY DEF Valid
  <2> QED
    BY <1>7, <2>1, <2>2, OwesSemop
<1>9. ASSUME NEW p \in Threads, SleepStep(p) PROVE Owes'
  BY <1>9 DEF SleepStep, history, Owes, Gone
<1>10. ASSUME NEW p \in Threads, NEW array \in Arrays, SetAllWrite(p, array) PROVE Owes'
  <2> DEFINE ix == req[p].ix
             k == req[p].k
  <2>0. pc[p] # "rmid_clear"
    BY <1>10 DEF SetAllWrite
  <2>1. CASE ~(Valid(ix, k) /\ req[p].num = sema[ix].nsems)
    <3>1. UNCHANGED <<undo, owed, passed, sema>>
          /\ \/ req' = req /\ pc' = [pc EXCEPT ![p] = "idle"]
             \/ pc' = pc /\ req' = [req EXCEPT ![p].num = sema[ix].nsems]
      BY <1>10, <2>1 DEF SetAllWrite, Goto, semVars, history
    <3>2. \A q \in Threads : q # p => pc'[q] = pc[q] /\ req'[q] = req[q]
      BY <3>1 DEF Shapes
    <3> QED
      BY <1>1, <1>2, <2>0, <3>1, <3>2
  <2>2. CASE Valid(ix, k) /\ req[p].num = sema[ix].nsems
    <3>1. ClearUndo(ix, -1) /\ UNCHANGED <<sema, req>> /\ pc' = [pc EXCEPT ![p] = "idle"]
      BY <1>10, <2>2 DEF SetAllWrite, Goto
    <3>2. \A q \in Threads : q # p => pc'[q] = pc[q] /\ req'[q] = req[q]
      BY <3>1 DEF Shapes
    <3>3. \A e \in Evs : Gone(e)' => Gone(e)
      BY <1>1, <2>0, <3>1, <3>2 DEF Kept
    <3>4. ix \in Evs /\ -1 \in Pool \union {-1}
      BY DEF Shapes, Reqs
    <3> HIDE DEF ix
    <3> QED
      BY <3>1, <3>3, <3>4, OwesCleared
  <2> QED
    BY <2>1, <2>2
<1>11. ASSUME NEW p \in Threads, RmidShift(p) PROVE Owes'
  <2>1. UNCHANGED <<undo, owed, passed, sema, req>> /\ pc' = [pc EXCEPT ![p] = "rmid_bases"] /\ pc[p] = "rmid_shift"
    BY <1>11 DEF RmidShift, Goto, history
  <2>2. \A q \in Threads : q # p => pc'[q] = pc[q] /\ req'[q] = req[q]
    BY <2>1 DEF Shapes
  <2> QED
    BY <1>1, <1>2, <2>1, <2>2
<1>12. ASSUME NEW p \in Threads, RmidBases(p) PROVE Owes'
  <2> DEFINE s == sema[req[p].ix]
  <2>1. /\ pc[p] = "rmid_bases" /\ pc' = [pc EXCEPT ![p] = "rmid_clear"]
        /\ UNCHANGED <<undo, owed, passed, req>>
        /\ sema' = [e \in Evs |->
                      IF e = req[p].ix THEN [s EXCEPT !.alloc = FALSE]
                      ELSE IF sema[e].alloc /\ sema[e].base > s.base
                           THEN [sema[e] EXCEPT !.base = @ - s.nsems] ELSE sema[e]]
    BY <1>12 DEF RmidBases, Goto, history
  <2>2. pc'[p] = "rmid_clear" /\ \A q \in Threads : q # p => pc'[q] = pc[q]
    BY <2>1 DEF Shapes
  <2>3. \A e \in Evs : e # req[p].ix => sema'[e].alloc = sema[e].alloc
    BY <2>1 DEF Shapes, Sets
  <2>4. ~Gone(req[p].ix)'
    BY <2>1, <2>2 DEF Gone
  <2>5. ASSUME NEW e \in Evs, Gone(e)' PROVE Gone(e)
    <3>1. e # req[p].ix
      BY <2>1, <2>4, <2>5
    <3>2. ~sema[e].alloc
      BY <2>3, <2>5, <3>1 DEF Gone
    <3>3. \A q \in Threads : ~(pc[q] = "rmid_clear" /\ req[q].ix = e)
      BY <2>1, <2>2, <2>5 DEF Gone
    <3> QED
      BY <3>2, <3>3 DEF Gone
  <2> QED
    BY <1>2, <2>1, <2>5 DEF Kept
<1>13. ASSUME NEW p \in Threads, RmidClear(p) PROVE Owes'
  <2> DEFINE ix == req[p].ix
  <2>1. ClearUndo(ix, -1) /\ UNCHANGED <<sema, req>> /\ pc' = [pc EXCEPT ![p] = "idle"]
    BY <1>13 DEF RmidClear, Goto
  <2>2. ix \in Evs /\ -1 \in Pool \union {-1}
    BY DEF Shapes, Reqs
  <2>3. \A q \in Threads : q # p => pc'[q] = pc[q]
    BY <2>1 DEF Shapes
  <2>4. \A e \in Evs : Gone(e)' => Gone(e) \/ e = ix
    BY <2>1, <2>3 DEF Gone
  <2> HIDE DEF ix
  <2> QED
    BY <2>1, <2>2, <2>4, OwesCleared
<1>14. ASSUME NEW p \in Threads, Exit(p) PROVE Owes'
  <2>1. UNCHANGED <<undo, owed, passed, sema, req>> /\ pc' = [pc EXCEPT ![p] = "dead"] /\ pc[p] = "idle"
    BY <1>14 DEF Exit, Goto, history
  <2>2. \A q \in Threads : q # p => pc'[q] = pc[q] /\ req'[q] = req[q]
    BY <2>1 DEF Shapes
  <2> QED
    BY <1>1, <1>2, <2>1, <2>2
<1> QED
  BY <1>3, <1>4, <1>5, <1>6, <1>8, <1>9, <1>10, <1>11, <1>12, <1>13, <1>14, <1>15, <1>16
     DEF Next

\* The undo structures hold the inverse of what each process did with SEM_UNDO and
\* has not been overruled, and nothing for a set that is gone (sysv_sem.c:450-548,
\* 1153-1203), whatever was rolled back in between, for any vectors and any SEMUME.
\* Left out are the semaphores SETVAL passed over: semundo_clear of one semaphore looks
\* no further than the first entry of the set.
THEOREM UndoLedgerHolds == Spec => []UndoLedger
<1> DEFINE Inv == Shapes /\ Making /\ Owes
<1>1. Init => Inv
  <2>1. Init => Owes
    <3> SUFFICES ASSUME Init PROVE Owes
      OBVIOUS
    <3>1. owed = [p \in Threads |-> [e \in Evs |-> [i \in Pool |-> 0]]]
          /\ passed = [p \in Threads |-> [e \in Evs |-> {}]]
          /\ undo = [p \in Threads |-> <<>>]
      BY DEF Init
    <3>2. \A e, m : Adj(<<>>, e, m) = 0
      BY DEF Adj, Entry
    <3> QED
      BY <3>1, <3>2 DEF Owes
  <2> QED
    BY <2>1, ShapesInit, MakingInit
<1>2. Inv /\ [Next]_vars => Inv'
  BY ShapesStep, MakingStep, OwesStep
<1>3. Inv => UndoLedger
  BY OwesLedger
<1> QED
  BY <1>1, <1>2, <1>3, PTL DEF Spec

-----------------------------------------------------------------------------
(* The mutexes of the sets                                                  *)

\* A process that is inside a call, under the mutex of the set
Inside(p) ==
    \/ pc[p] \in {"semop", "rmid_shift", "rmid_bases", "rmid_clear"}
    \/ pc[p] = "asleep" /\ spc[p] = "out"

\* Where a process is and what it owns
Place(p) ==
    /\ Inside(p) => mtx[req[p].ix] = p
    /\ pc[p] = "asleep" => on[p] = req[p].ix
    /\ spc[p] # "out" => pc[p] = "asleep"

Owned == EvTypeOK /\ \A p \in Threads : Place(p)

LEMMA OwnedKept ==
    ASSUME Owned, EvTypeOK', NEW p \in Threads, Place(p)',
           \A q \in Threads : q # p =>
             /\ pc'[q] = pc[q] /\ req'[q] = req[q] /\ on'[q] = on[q]
             /\ spc'[q] = "out" <=> spc[q] = "out"
             /\ mtx[req[q].ix] = q => mtx'[req[q].ix] = q
    PROVE  Owned'
<1>1. ASSUME NEW q \in Threads, q # p PROVE Place(q)'
  BY <1>1 DEF Owned, Place, Inside
<1> QED
  BY <1>1 DEF Owned

\* A post wakes blocked threads only.
LEMMA WakeupIs ==
    ASSUME EvTypeOK, NEW e \in Evs, EvWakeup(e)
    PROVE  /\ spc' \in [Threads -> Asleep \union {"out"}] /\ posted' \subseteq Evs
           /\ \A q \in Threads : spc'[q] = "out" <=> spc[q] = "out"
<1>1. \A q \in Threads : spc[q] \in Asleep \union {"out"}
  BY DEF EvTypeOK
<1>2. \A q \in Threads : spc'[q] = IF q \in Blocked(e) THEN "woken" ELSE spc[q]
  BY DEF EvWakeup
<1>3. \A q \in Blocked(e) : spc[q] = "blocked"
  BY DEF Blocked
<1>4. spc' \in [Threads -> Asleep \union {"out"}]
  BY <1>1 DEF EvWakeup, Asleep
<1> QED
  BY <1>2, <1>3, <1>4 DEF EvWakeup, EvTypeOK

\* A call that returns: the mutex is released.
LEMMA OwnedReturn ==
    ASSUME Shapes, Owned, NEW p \in Threads, Inside(p), MtxUnlock(p, req[p].ix),
           pc' = [pc EXCEPT ![p] = "idle"], UNCHANGED <<on, fDone, rc, req>>,
           UNCHANGED <<posted, spc>> \/ EvWakeup(req[p].ix)
    PROVE  Owned'
<1> DEFINE ix == req[p].ix
<1>1. ix \in Evs /\ pc \in [Threads -> Labels]
  BY DEF Shapes, Reqs
<1>2. EvTypeOK /\ mtx \in [Evs -> Threads \union {NoThread}] /\ spc[p] = "out"
  BY DEF Owned, EvTypeOK, Place, Inside
<1>3. mtx' = [mtx EXCEPT ![ix] = NoThread] /\ mtx[ix] = p
  BY DEF MtxUnlock
<1>4. /\ spc' \in [Threads -> Asleep \union {"out"}] /\ posted' \subseteq Evs
      /\ \A q \in Threads : spc'[q] = "out" <=> spc[q] = "out"
  <2>1. CASE UNCHANGED <<posted, spc>>
    BY <1>2, <2>1 DEF EvTypeOK
  <2>2. CASE EvWakeup(ix)
    <3> HIDE DEF ix
    <3> QED
      BY <1>1, <1>2, <2>2, WakeupIs
  <2> QED
    BY <2>1, <2>2
<1>5. EvTypeOK'
  BY <1>2, <1>3, <1>4 DEF EvTypeOK
<1>6. Place(p)'
  BY <1>1, <1>2, <1>4 DEF Place, Inside
<1>7. \A q \in Threads : q # p =>
        /\ pc'[q] = pc[q] /\ req'[q] = req[q] /\ on'[q] = on[q]
        /\ spc'[q] = "out" <=> spc[q] = "out"
        /\ mtx[req[q].ix] = q => mtx'[req[q].ix] = q
  <2> SUFFICES ASSUME NEW q \in Threads, q # p, mtx[req[q].ix] = q PROVE mtx'[req[q].ix] = q
    BY <1>1, <1>4
  <2>1. req[q].ix \in Evs /\ req[q].ix # ix
    BY <1>3 DEF Shapes, Reqs
  <2> QED
    BY <1>2, <1>3, <2>1
<1> QED
  BY <1>5, <1>6, <1>7, OwnedKept

\* A call that begins by taking the mutex
LEMMA OwnedBegin ==
    ASSUME Shapes, Owned, NEW p \in Threads, NEW ix \in Evs, pc[p] = "idle", MtxLock(p, ix),
           NEW label \in {"semop", "rmid_shift"}, pc' = [pc EXCEPT ![p] = label],
           NEW r, r.ix = ix, req' = [req EXCEPT ![p] = r],
           UNCHANGED <<posted, spc, on, fDone, rc>>
    PROVE  Owned'
<1>1. pc \in [Threads -> Labels] /\ req \in [Threads -> Reqs]
  BY DEF Shapes
<1>2. EvTypeOK /\ mtx \in [Evs -> Threads \union {NoThread}] /\ spc[p] = "out"
  BY DEF Owned, EvTypeOK, Place
<1>3. mtx' = [mtx EXCEPT ![ix] = p] /\ mtx[ix] = NoThread
  BY DEF MtxLock
<1>4. EvTypeOK'
  BY <1>2, <1>3 DEF EvTypeOK
<1>5. pc'[p] = label /\ req'[p] = r /\ mtx'[ix] = p
  BY <1>1, <1>2, <1>3
<1>6. Place(p)'
  BY <1>2, <1>5 DEF Place, Inside
<1>7. \A q \in Threads : q # p =>
        /\ pc'[q] = pc[q] /\ req'[q] = req[q] /\ on'[q] = on[q]
        /\ spc'[q] = "out" <=> spc[q] = "out"
        /\ mtx[req[q].ix] = q => mtx'[req[q].ix] = q
  <2> SUFFICES ASSUME NEW q \in Threads, q # p, mtx[req[q].ix] = q PROVE mtx'[req[q].ix] = q
    BY <1>1
  <2>1. req[q].ix \in Evs /\ req[q].ix # ix
    BY <1>1, <1>3, EventAssumption DEF Reqs
  <2> QED
    BY <1>2, <1>3, <2>1
<1> QED
  BY <1>4, <1>6, <1>7, OwnedKept

\* A step that leaves the mutexes alone
LEMMA OwnedStill ==
    ASSUME Shapes, Owned, NEW p \in Threads, UNCHANGED <<mtx, on>>, EvTypeOK',
           \A q \in Threads : q # p => pc'[q] = pc[q] /\ req'[q] = req[q],
           \A q \in Threads : spc'[q] = "out" <=> spc[q] = "out",
           pc'[p] = "asleep" <=> pc[p] = "asleep",
           req'[p].ix = req[p].ix \/ pc'[p] \in {"idle", "semget", "setall", "dead"},
           Inside(p)' => Inside(p)
    PROVE  Owned'
<1>1. Place(p)
  BY DEF Owned
<1>2. Inside(p)' => pc'[p] \notin {"idle", "semget", "setall", "dead"}
  BY DEF Inside
<1>3. Place(p)'
  BY <1>1, <1>2 DEF Place
<1> QED
  BY <1>3, OwnedKept

\* A pass of semop, from inside the call
LEMMA OwnedAttempt ==
    ASSUME Shapes, Owned, NEW p \in Threads, Inside(p), Attempt(p)
    PROVE  Owned'
<1> DEFINE ix == req[p].ix
           sops == req[p].sops
           stop == Stop(Vals(ix), sops)
           num == sema[ix].base + sops[stop].num
           cnt == IF sops[stop].op = 0 THEN "zcnt" ELSE "ncnt"
<1>1. SemopDone(p, ix, sops) \/ SemopStuck(p, ix, sops)
  BY DEF Attempt
<1>2. CASE SemopDone(p, ix, sops)
  <2>1. /\ MtxUnlock(p, ix) /\ pc' = [pc EXCEPT ![p] = "idle"] /\ UNCHANGED <<on, fDone, rc, req>>
        /\ UNCHANGED <<posted, spc>> \/ EvWakeup(ix)
    BY <1>2 DEF SemopDone, Goto
  <2> QED
    BY <2>1, OwnedReturn
<1>3. CASE /\ SemopStuck(p, ix, sops)
           /\ sops[stop].op > 0 \/ "IPC_NOWAIT" \in sops[stop].flg
  <2>1. /\ MtxUnlock(p, ix) /\ pc' = [pc EXCEPT ![p] = "idle"]
        /\ UNCHANGED <<on, fDone, rc, req, posted, spc>>
    BY <1>3 DEF SemopStuck, Goto
  <2> QED
    BY <2>1, OwnedReturn
<1>4. CASE /\ SemopStuck(p, ix, sops)
           /\ ~(sops[stop].op > 0 \/ "IPC_NOWAIT" \in sops[stop].flg)
  <2>1. /\ EvSleep(p, ix) /\ pc' = [pc EXCEPT ![p] = "asleep"]
        /\ req' = [req EXCEPT ![p].num = num, ![p].cnt = cnt]
    BY <1>4 DEF SemopStuck, Goto
  <2> HIDE DEF num, cnt
  <2>2. ix \in Evs /\ pc \in [Threads -> Labels] /\ req \in [Threads -> Reqs]
    BY DEF Shapes, Reqs
  <2>3. /\ EvTypeOK /\ mtx \in [Evs -> Threads \union {NoThread}] /\ on \in [Threads -> Evs]
        /\ spc \in [Threads -> Asleep \union {"out"}]
    BY DEF Owned, EvTypeOK
  <2>4. /\ mtx[ix] = p /\ mtx' = [mtx EXCEPT ![ix] = NoThread]
        /\ spc' = [spc EXCEPT ![p] = "unlocked"] /\ on' = [on EXCEPT ![p] = ix]
    BY <2>1 DEF EvSleep, MtxUnlock
  <2>5. EvTypeOK'
    BY <2>1, <2>2, <2>3, <2>4 DEF EvTypeOK, EvSleep, Asleep
  <2>6. req'[p].ix = ix /\ \A q \in Threads : q # p => req'[q] = req[q]
    <3> DEFINE r == [[req[p] EXCEPT !.num = num] EXCEPT !.cnt = cnt]
    <3>1. req[p] \in Reqs
      BY <2>2
    <3>2. r.ix = req[p].ix
      BY <3>1 DEF Reqs
    <3>3. req' = [req EXCEPT ![p] = r]
      BY <2>1, <2>2
    <3> HIDE DEF r
    <3> QED
      BY <2>2, <3>2, <3>3
  <2>7. Place(p)'
    <3>1. pc'[p] = "asleep" /\ spc'[p] = "unlocked" /\ on'[p] = ix
      BY <2>1, <2>2, <2>3, <2>4
    <3> QED
      BY <2>6, <3>1 DEF Place, Inside
  <2>8. \A q \in Threads : q # p =>
          /\ pc'[q] = pc[q] /\ req'[q] = req[q] /\ on'[q] = on[q]
          /\ spc'[q] = "out" <=> spc[q] = "out"
          /\ mtx[req[q].ix] = q => mtx'[req[q].ix] = q
    <3>1. ASSUME NEW q \in Threads, q # p, mtx[req[q].ix] = q PROVE mtx'[req[q].ix] = q
      <4>1. req[q].ix \in Evs /\ req[q].ix # ix
        BY <2>2, <2>4, <3>1 DEF Reqs
      <4> QED
        BY <2>3, <2>4, <3>1, <4>1
    <3>2. ASSUME NEW q \in Threads, q # p
          PROVE  pc'[q] = pc[q] /\ on'[q] = on[q] /\ spc'[q] = spc[q]
      BY <2>1, <2>2, <2>3, <2>4, <3>2
    <3> QED
      BY <2>6, <3>1, <3>2
  <2> QED
    BY <2>5, <2>7, <2>8, OwnedKept
<1> QED
  BY <1>1, <1>2, <1>3, <1>4

\* The steps of the sleep
LEMMA OwnedSleep ==
    ASSUME Shapes, Owned, NEW p \in Threads, SleepStep(p)
    PROVE  Owned'
<1>1. pc[p] = "asleep" /\ UNCHANGED <<pc, req>> /\ on[p] = req[p].ix
  BY DEF SleepStep, Owned, Place
<1>2. /\ mtx \in [Evs -> Threads \union {NoThread}] /\ on \in [Threads -> Evs]
      /\ spc \in [Threads -> Asleep \union {"out"}]
  BY DEF Owned, EvTypeOK
<1>3. CASE EvCheck(p) \/ EvWait(p) \/ EvInterrupt(p) \/ EvSignal(p)
  <2>1. /\ UNCHANGED <<mtx, on>> /\ spc[p] # "out"
        /\ \E s \in Asleep : spc' = [spc EXCEPT ![p] = s]
    BY <1>2, <1>3 DEF EvCheck, EvWait, EvInterrupt, EvSignal, Asleep
  <2>2. EvTypeOK'
    BY <1>2, <1>3, <2>1 DEF EvCheck, EvWait, EvInterrupt, EvSignal, EvTypeOK, Owned
  <2>3. \A q \in Threads : spc'[q] = "out" <=> spc[q] = "out"
    BY <1>2, <2>1 DEF Asleep
  <2>4. Inside(p)' => Inside(p)
    BY <1>1, <2>3 DEF Inside
  <2> QED
    BY <1>1, <2>1, <2>2, <2>3, <2>4, OwnedStill
<1>4. CASE EvReturn(p)
  <2> DEFINE ix == on[p]
  <2>1. /\ ix \in Evs /\ mtx[ix] = NoThread /\ mtx' = [mtx EXCEPT ![ix] = p]
        /\ spc' = [spc EXCEPT ![p] = "out"] /\ posted' = posted \ {ix}
        /\ UNCHANGED <<on, fDone, rc>>
    BY <1>2, <1>4 DEF EvReturn, MtxLock
  <2>2. EvTypeOK'
    BY <1>2, <2>1 DEF EvTypeOK, Owned
  <2>3. Place(p)'
    BY <1>1, <1>2, <2>1 DEF Place
  <2>4. \A q \in Threads : q # p =>
          /\ pc'[q] = pc[q] /\ req'[q] = req[q] /\ on'[q] = on[q]
          /\ spc'[q] = "out" <=> spc[q] = "out"
          /\ mtx[req[q].ix] = q => mtx'[req[q].ix] = q
    <3>1. ASSUME NEW q \in Threads, q # p, mtx[req[q].ix] = q PROVE mtx'[req[q].ix] = q
      <4>1. req[q].ix \in Evs /\ req[q].ix # ix
        BY <2>1, <3>1, EventAssumption DEF Shapes, Reqs
      <4> QED
        BY <1>2, <2>1, <3>1, <4>1
    <3> QED
      BY <1>1, <1>2, <2>1, <3>1
  <2> QED
    BY <2>2, <2>3, <2>4, OwnedKept
<1> QED
  BY <1>3, <1>4 DEF SleepStep

LEMMA OwnedStep ==
    ASSUME Shapes, Owned, [Next]_vars
    PROVE  Owned'
<1>0. EvTypeOK /\ pc \in [Threads -> Labels] /\ req \in [Threads -> Reqs]
  BY DEF Owned, Shapes
<1>1. ASSUME UNCHANGED <<evVars, pc, req>> PROVE Owned'
  BY <1>1 DEF evVars, Owned, EvTypeOK, Place, Inside
<1>2. ASSUME UNCHANGED vars PROVE Owned'
  BY <1>1, <1>2 DEF vars
<1>4. ASSUME NEW p \in Threads, NEW ix \in Evs, NEW k \in 1 .. inst[ix], NEW sops \in Vectors,
             Semop(p, ix, k, sops)
      PROVE  Owned'
  <2> DEFINE r == [ix |-> ix, k |-> k, sops |-> sops, num |-> 0, cnt |-> "ncnt"]
             label == "semop"
  <2>1. /\ pc[p] = "idle" /\ MtxLock(p, ix) /\ label \in {"semop", "rmid_shift"}
        /\ pc' = [pc EXCEPT ![p] = label] /\ r.ix = ix /\ req' = [req EXCEPT ![p] = r]
        /\ UNCHANGED <<posted, spc, on, fDone, rc>>
    BY <1>4 DEF Semop, Goto
  <2> HIDE DEF r, label
  <2> QED
    BY <2>1, OwnedBegin
<1>5. ASSUME NEW p \in Threads, NEW ix \in Evs, UNCHANGED <<mtx, on, fDone, rc, req>>, EvWakeup(ix),
             pc' = pc \/ (pc[p] = "setall" /\ pc' = [pc EXCEPT ![p] = "idle"])
      PROVE  Owned'
  <2>1. /\ spc' \in [Threads -> Asleep \union {"out"}] /\ posted' \subseteq Evs
        /\ \A q \in Threads : spc'[q] = "out" <=> spc[q] = "out"
    BY <1>0, <1>5, WakeupIs
  <2>2. EvTypeOK'
    BY <1>0, <1>5, <2>1 DEF EvTypeOK
  <2>3. /\ \A q \in Threads : q # p => pc'[q] = pc[q] /\ req'[q] = req[q]
        /\ pc'[p] = "asleep" <=> pc[p] = "asleep"
    BY <1>0, <1>5
  <2>4. Inside(p)' => Inside(p)
    BY <1>0, <1>5, <2>1 DEF Inside
  <2> QED
    BY <1>5, <2>1, <2>2, <2>3, <2>4, OwnedStill
<1>6. ASSUME NEW p \in Threads, NEW ix \in Evs, NEW k \in 1 .. inst[ix], NEW num \in Pool,
             NEW val \in Values, SetVal(p, ix, k, num, val)
      PROVE  Owned'
  <2>1. UNCHANGED <<mtx, on, fDone, rc, req>> /\ EvWakeup(ix) /\ pc' = pc
    BY <1>6 DEF SetVal
  <2> QED
    BY <1>5, <2>1
<1>7. \* a process that is in no set moves
      ASSUME NEW p \in Threads, UNCHANGED evVars, pc[p] \in {"idle", "semget", "setall"},
             pc'[p] \in {"idle", "semget", "setall", "dead"},
             \A q \in Threads : q # p => pc'[q] = pc[q] /\ req'[q] = req[q]
      PROVE  Owned'
  <2>1. EvTypeOK' /\ UNCHANGED <<mtx, on, spc>>
    BY <1>0, <1>7 DEF evVars, EvTypeOK
  <2>2. ~Inside(p)'
    BY <1>7 DEF Inside
  <2> QED
    BY <1>7, <2>1, <2>2, OwnedStill
<1>8. ASSUME NEW p \in Threads, NEW ix \in Evs, NEW k \in 1 .. inst[ix], SetAllRead(p, ix, k)
      PROVE  Owned'
  <2>1. /\ UNCHANGED evVars /\ pc[p] = "idle" /\ pc' = [pc EXCEPT ![p] = "setall"]
        /\ req' = [req EXCEPT ![p] = [NoReq EXCEPT !.ix = ix, !.k = k, !.num = sema[ix].nsems]]
    BY <1>8 DEF SetAllRead, Goto
  <2>2. pc'[p] = "setall" /\ \A q \in Threads : q # p => pc'[q] = pc[q] /\ req'[q] = req[q]
    BY <1>0, <2>1
  <2> QED
    BY <1>7, <2>1, <2>2
<1>9. ASSUME NEW p \in Threads, NEW ix \in Evs, NEW k \in 1 .. inst[ix], RmidTotal(p, ix, k)
      PROVE  Owned'
  <2> DEFINE r == [NoReq EXCEPT !.ix = ix, !.k = k]
             label == "rmid_shift"
  <2>1. /\ pc[p] = "idle" /\ MtxLock(p, ix) /\ label \in {"semop", "rmid_shift"}
        /\ pc' = [pc EXCEPT ![p] = label] /\ req' = [req EXCEPT ![p] = r]
        /\ UNCHANGED <<posted, spc, on, fDone, rc>>
    BY <1>9 DEF RmidTotal, Goto
  <2>2. r.ix = ix
    BY NoReqIs DEF Reqs
  <2> HIDE DEF r, label
  <2> QED
    BY <2>1, <2>2, OwnedBegin
<1>10. ASSUME NEW p \in Threads, Inside(p), Fail(p) PROVE Owned'
  <2>1. MtxUnlock(p, req[p].ix) /\ pc' = [pc EXCEPT ![p] = "idle"]
        /\ UNCHANGED <<on, fDone, rc, req, posted, spc>>
    BY <1>10 DEF Fail, Goto
  <2> QED
    BY <1>10, <2>1, OwnedReturn
<1>11. ASSUME NEW p \in Threads, SemopBody(p) \/ SemopAwake(p) PROVE Owned'
  <2>1. Inside(p) /\ (Attempt(p) \/ Fail(p))
    BY <1>11 DEF SemopBody, SemopAwake, Inside
  <2> QED
    BY <1>10, <2>1, OwnedAttempt
<1>12. ASSUME NEW p \in Threads, NEW array \in Arrays, SetAllWrite(p, array) PROVE Owned'
  <2> DEFINE ix == req[p].ix
  <2>0. pc[p] = "setall" /\ ix \in Evs
    BY <1>0, <1>12 DEF SetAllWrite, Reqs
  <2>1. \/ UNCHANGED evVars /\ pc' = [pc EXCEPT ![p] = "idle"] /\ req' = req
        \/ UNCHANGED evVars /\ pc' = pc /\ req' = [req EXCEPT ![p].num = sema[ix].nsems]
        \/ /\ UNCHANGED <<mtx, on, fDone, rc, req>> /\ EvWakeup(ix)
           /\ pc' = [pc EXCEPT ![p] = "idle"]
    BY <1>12 DEF SetAllWrite, Goto
  <2>2. CASE \/ UNCHANGED evVars /\ pc' = [pc EXCEPT ![p] = "idle"] /\ req' = req
             \/ UNCHANGED evVars /\ pc' = pc /\ req' = [req EXCEPT ![p].num = sema[ix].nsems]
    <3>1. /\ UNCHANGED evVars /\ pc'[p] \in {"idle", "setall", "dead"}
          /\ \A q \in Threads : q # p => pc'[q] = pc[q] /\ req'[q] = req[q]
      BY <1>0, <2>0, <2>2
    <3> QED
      BY <1>7, <2>0, <3>1
  <2>3. CASE /\ UNCHANGED <<mtx, on, fDone, rc, req>> /\ EvWakeup(ix)
             /\ pc' = [pc EXCEPT ![p] = "idle"]
    <3> HIDE DEF ix
    <3> QED
      BY <1>5, <2>0, <2>3
  <2> QED
    BY <2>1, <2>2, <2>3
<1>13. ASSUME NEW p \in Threads, RmidShift(p) \/ RmidBases(p) PROVE Owned'
  <2>1. /\ UNCHANGED <<evVars, req>> /\ pc[p] \in {"rmid_shift", "rmid_bases"}
        /\ pc' = [pc EXCEPT ![p] = IF pc[p] = "rmid_shift" THEN "rmid_bases" ELSE "rmid_clear"]
    BY <1>13 DEF RmidShift, RmidBases, Goto
  <2>2. EvTypeOK' /\ UNCHANGED <<mtx, on, spc>>
    BY <1>0, <2>1 DEF evVars, EvTypeOK
  <2>3. /\ \A q \in Threads : q # p => pc'[q] = pc[q] /\ req'[q] = req[q]
        /\ pc'[p] \in {"rmid_bases", "rmid_clear"}
    BY <1>0, <2>1
  <2>4. Inside(p)
    BY <2>1 DEF Inside
  <2> QED
    BY <2>1, <2>2, <2>3, <2>4, OwnedStill
<1>14. ASSUME NEW p \in Threads, RmidClear(p) PROVE Owned'
  <2>1. /\ Inside(p) /\ MtxUnlock(p, req[p].ix) /\ pc' = [pc EXCEPT ![p] = "idle"]
        /\ UNCHANGED <<on, fDone, rc, req>> /\ EvWakeup(req[p].ix)
    BY <1>14 DEF RmidClear, Goto, Inside
  <2> QED
    BY <2>1, OwnedReturn
<1>15. ASSUME NEW p \in Threads, Exit(p) PROVE Owned'
  <2>1. UNCHANGED <<evVars, req>> /\ pc[p] = "idle" /\ pc' = [pc EXCEPT ![p] = "dead"]
    BY <1>15 DEF Exit, Goto
  <2>2. pc'[p] = "dead" /\ \A q \in Threads : q # p => pc'[q] = pc[q] /\ req'[q] = req[q]
    BY <1>0, <2>1
  <2> QED
    BY <1>7, <2>1, <2>2
<1>16. ASSUME NEW p \in Threads, NEW ix \in Evs, NEW n \in Sizes, SemgetAlloc(p, ix, n) PROVE Owned'
  <2>1. UNCHANGED evVars /\ pc[p] = "idle" /\ pc' = [pc EXCEPT ![p] = "semget"]
        /\ \E r : req' = [req EXCEPT ![p] = r]
    BY <1>16 DEF SemgetAlloc, Goto
  <2>2. pc'[p] = "semget" /\ \A q \in Threads : q # p => pc'[q] = pc[q] /\ req'[q] = req[q]
    BY <1>0, <2>1
  <2> QED
    BY <1>7, <2>1, <2>2
<1>17. ASSUME NEW p \in Threads, Semget(p) PROVE Owned'
  <2>1. UNCHANGED <<evVars, req>> /\ pc[p] = "semget" /\ pc' = [pc EXCEPT ![p] = "idle"]
    BY <1>17 DEF Semget, Goto
  <2>2. pc'[p] = "idle" /\ \A q \in Threads : q # p => pc'[q] = pc[q] /\ req'[q] = req[q]
    BY <1>0, <2>1
  <2> QED
    BY <1>7, <2>1, <2>2
<1>18. ASSUME NEW p \in Threads, Astray(p) PROVE Owned'
  BY <1>1, <1>18 DEF Astray
<1> QED
  BY <1>2, <1>4, <1>6, <1>8, <1>9, <1>11, <1>12, <1>13, <1>14, <1>15, <1>16, <1>17, <1>18, OwnedSleep
     DEF Next

-----------------------------------------------------------------------------
(* What semop does to the values                                            *)

\* One turn changes one value, where the semaphore is one of D.
Turn(x, y, n, sop, sign) ==
    /\ x[n] \in Int /\ y[n] \in Int
    /\ n = sop.num => y[n] = x[n] + sign * sop.op
    /\ n # sop.num => y[n] = x[n]

LEMMA SumsStep ==
    ASSUME NEW sops \in Seq(Sops), NEW sign \in Int, NEW D, NEW v, NEW f,
           Sums(f, D, v, sops, sign), NEW i \in 1 .. Len(sops), NEW n \in D
    PROVE  Turn(f[i - 1], f[i], n, sops[i], sign)
<1>1. i \in 0 .. Len(sops) /\ i - 1 \in 0 .. Len(sops) /\ sops[i] \in Sops
  OBVIOUS
<1>2. f[i] \in [D -> Int] /\ f[i - 1] \in [D -> Int]
  BY <1>1 DEF Sums
<1>3. f[i] = [f[i - 1] EXCEPT ![sops[i].num] = @ + sign * sops[i].op]
  BY DEF Sums
<1> QED
  BY <1>2, <1>3 DEF Turn

\* The loop does the same to the values and to the ledger.
LEMMA SumsAgree ==
    ASSUME NEW sops \in Seq(Sops), NEW D, NEW E, NEW v, NEW w, NEW f, NEW g,
           Sums(f, D, v, sops, 1), Sums(g, E, w, sops, 1), D \subseteq E,
           \A n \in D : v[n] = w[n]
    PROVE  \A n \in D : f[Len(sops)][n] = g[Len(sops)][n]
<1> DEFINE N == Len(sops)
           Good(i) == \A n \in D : f[i][n] = g[i][n]
           S == {i \in Nat : i <= N => Good(i)}
<1>1. N \in Nat /\ 1 \in Int
  OBVIOUS
<1>2. 0 \in S
  BY DEF Sums
<1>3. ASSUME NEW i \in Nat, i \in S PROVE i + 1 \in S
  <2> SUFFICES ASSUME i + 1 <= N PROVE Good(i + 1)
    <3> HIDE DEF Good, N
    <3> QED
      BY DEF S
  <2>1. i + 1 \in 1 .. N /\ (i + 1) - 1 = i /\ i <= N
    BY <1>1
  <2>2. Good(i)
    BY <1>3, <2>1
  <2> SUFFICES ASSUME NEW n \in D PROVE f[i + 1][n] = g[i + 1][n]
    OBVIOUS
  <2> DEFINE j == i + 1
             d == sops[j].op
  <2>3. j \in 1 .. N /\ j - 1 = i /\ n \in E
    BY <2>1
  <2> HIDE DEF j
  <2>4. /\ n = sops[j].num => f[j][n] = f[j - 1][n] + 1 * d
        /\ n # sops[j].num => f[j][n] = f[j - 1][n]
    BY <1>1, <2>3, SumsStep DEF Turn
  <2>5. /\ n = sops[j].num => g[j][n] = g[j - 1][n] + 1 * d
        /\ n # sops[j].num => g[j][n] = g[j - 1][n]
    BY <1>1, <2>3, SumsStep DEF Turn
  <2>6. f[j - 1][n] = g[j - 1][n]
    BY <2>2, <2>3
  <2>7. f[j][n] = g[j][n]
    BY <2>4, <2>5, <2>6
  <2> QED
    BY <2>7 DEF j
<1>4. Nat \subseteq S
  <2> HIDE DEF S
  <2> QED
    BY <1>2, <1>3, Induction
<1>5. N \in S
  BY <1>1, <1>4
<1> QED
  BY <1>1, <1>5

\* What is taken back is what was done.
LEMMA RollbackIs ==
    ASSUME NEW sops \in Seq(Sops), NEW D, NEW v \in [D -> Int], NEW s \in 1 .. Len(sops) + 1
    PROVE  Rollback(v, sops, s) = v
<1> DEFINE N == s - 1
           f == Applied(v, sops, 1)
           g == Applied(f[N], sops, -1)
           Good(i) == \A n \in D : f[i][n] + g[i][n] = v[n] + f[N][n]
           S == {i \in Nat : i <= N => Good(i)}
<1>1. Len(sops) \in Nat /\ N \in Nat /\ N \in 0 .. Len(sops) /\ 1 \in Int /\ -1 \in Int
  OBVIOUS
<1>2. Sums(f, D, v, sops, 1)
  <2>1. f = Applied(v, sops, 1)
    OBVIOUS
  <2> HIDE DEF f
  <2> QED
    BY <1>1, <2>1, AppliedIs
<1>3. f \in [0 .. Len(sops) -> [D -> Int]] /\ f[0] = v
  BY <1>2 DEF Sums
<1>4. f[N] \in [D -> Int]
  <2> HIDE DEF N, f
  <2> QED
    BY <1>1, <1>3
<1> DEFINE sign == -1
<1>5. Sums(g, D, f[N], sops, sign)
  <2> DEFINE w == f[N]
  <2>1. g = Applied(w, sops, sign) /\ w \in [D -> Int] /\ sign \in Int
    BY <1>4
  <2> HIDE DEF g, w, sign
  <2>2. Sums(g, D, w, sops, sign)
    BY <2>1, AppliedIs
  <2> QED
    BY <2>2 DEF w
<1>6. Rollback(v, sops, s) = g[N]
  BY DEF Rollback
<1> HIDE DEF f, g
<1>7. g \in [0 .. Len(sops) -> [D -> Int]] /\ g[0] = f[N]
  BY <1>5 DEF Sums
<1>8. 0 \in S
  BY <1>3, <1>7
<1>9. ASSUME NEW i \in Nat, i \in S PROVE i + 1 \in S
  <2> SUFFICES ASSUME i + 1 <= N PROVE Good(i + 1)
    <3> HIDE DEF Good, N
    <3> QED
      BY DEF S
  <2>1. i + 1 \in 1 .. Len(sops) /\ (i + 1) - 1 = i /\ i <= N
    BY <1>1
  <2>2. Good(i)
    BY <1>9, <2>1
  <2> SUFFICES ASSUME NEW n \in D PROVE f[i + 1][n] + g[i + 1][n] = v[n] + f[N][n]
    OBVIOUS
  <2> DEFINE j == i + 1
             d == sops[j].op
  <2>3. j \in 1 .. Len(sops) /\ j - 1 = i
    BY <2>1
  <2> HIDE DEF j
  <2>4. d \in Int
    <3>1. sops[j] \in Sops
      BY <2>3
    <3> QED
      BY <3>1 DEF Sops
  <2>5. /\ f[j - 1][n] \in Int /\ f[j][n] \in Int
        /\ n = sops[j].num => f[j][n] = f[j - 1][n] + 1 * d
        /\ n # sops[j].num => f[j][n] = f[j - 1][n]
    BY <1>1, <1>2, <2>3, SumsStep DEF Turn
  <2>6. /\ g[j - 1][n] \in Int /\ g[j][n] \in Int
        /\ n = sops[j].num => g[j][n] = g[j - 1][n] + sign * d
        /\ n # sops[j].num => g[j][n] = g[j - 1][n]
    <3>1. sign \in Int
      OBVIOUS
    <3> DEFINE w == f[N]
    <3>2. Sums(g, D, w, sops, sign)
      BY <1>5
    <3> HIDE DEF sign, w
    <3>3. Turn(g[j - 1], g[j], n, sops[j], sign)
      BY <2>3, <3>1, <3>2, SumsStep
    <3> QED
      BY <3>3 DEF Turn
  <2>7. f[j - 1][n] + g[j - 1][n] = v[n] + f[N][n]
    BY <2>2, <2>3
  <2> DEFINE a == f[j - 1][n]
             b == g[j - 1][n]
             a2 == f[j][n]
             b2 == g[j][n]
  <2>8. a2 + b2 = a + b
    <3>1. CASE n = sops[j].num
      <4>1. a2 = a + d /\ b2 = b - d
        BY <2>4, <2>5, <2>6, <3>1
      <4>2. a \in Int /\ b \in Int
        BY <2>5, <2>6
      <4> HIDE DEF a, b, a2, b2, d
      <4> QED
        BY <2>4, <4>1, <4>2
    <3>2. CASE n # sops[j].num
      BY <2>5, <2>6, <3>2
    <3> QED
      BY <3>1, <3>2
  <2> QED
    BY <2>7, <2>8 DEF j
<1>10. Nat \subseteq S
  <2> HIDE DEF S
  <2> QED
    BY <1>8, <1>9, Induction
<1>11. N \in S
  BY <1>1, <1>10
<1>12. Good(N)
  BY <1>1, <1>11
<1>13. g[N] \in [D -> Int]
  <2> HIDE DEF N
  <2> QED
    BY <1>1, <1>7
<1>14. \A n \in D : g[N][n] = v[n]
  <2> SUFFICES ASSUME NEW n \in D PROVE g[N][n] = v[n]
    OBVIOUS
  <2> DEFINE a == f[N][n]
             b == g[N][n]
             c == v[n]
  <2>1. a + b = c + a
    BY <1>12
  <2>2. a \in Int /\ b \in Int /\ c \in Int
    BY <1>4, <1>13
  <2> HIDE DEF a, b, c
  <2>3. b = c
    BY <2>1, <2>2
  <2> QED
    BY <2>3 DEF b, c
<1> HIDE DEF N
<1> QED
  BY <1>6, <1>13, <1>14

\* A vector that semop does to the end leaves the values in range.
LEMMA FinalRange ==
    ASSUME NEW sops \in Seq(Sops), NEW D, NEW v \in [D -> 0 .. SEMVMX],
           Stop(v, sops) > Len(sops)
    PROVE  /\ Sums(Applied(v, sops, 1), D, v, sops, 1)
           /\ Applied(v, sops, 1)[Len(sops)] \in [D -> 0 .. SEMVMX]
<1> DEFINE N == Len(sops)
           f == Applied(v, sops, 1)
           stuck == {i \in 1 .. N : ~CanDo(f[i - 1][sops[i].num], sops[i].op)}
           Good(i) == f[i] \in [D -> 0 .. SEMVMX]
           S == {i \in Nat : i <= N => Good(i)}
<1>1. N \in Nat /\ 1 \in Int /\ SEMVMX \in Nat
  BY LimitAssumption
<1>2. Sums(f, D, v, sops, 1)
  <2>1. f = Applied(v, sops, 1) /\ v \in [D -> Int]
    BY <1>1
  <2> HIDE DEF f
  <2> QED
    BY <1>1, <2>1, AppliedIs
<1>3. stuck = {}
  <2>1. Stop(v, sops) = IF stuck = {} THEN N + 1 ELSE CHOOSE i \in stuck : \A j \in stuck : i <= j
    BY DEF Stop
  <2>2. stuck \subseteq 1 .. N /\ stuck \subseteq Nat
    BY <1>1
  <2> HIDE DEF stuck
  <2> SUFFICES ASSUME stuck # {} PROVE FALSE
    OBVIOUS
  <2>3. \E i \in stuck : \A j \in stuck : i <= j
    BY <2>2, Smallest
  <2>4. Stop(v, sops) \in stuck
    BY <2>1, <2>3
  <2>5. Stop(v, sops) \in 1 .. N
    BY <2>2, <2>4
  <2> QED
    BY <1>1, <2>5
<1>4. f \in [0 .. N -> [D -> Int]] /\ f[0] = v
  BY <1>2 DEF Sums
<1>5. \A i \in 1 .. N : CanDo(f[i - 1][sops[i].num], sops[i].op)
  BY <1>3
<1> HIDE DEF f, stuck
<1>6. 0 \in S
  BY <1>4
<1>7. ASSUME NEW i \in Nat, i \in S PROVE i + 1 \in S
  <2> SUFFICES ASSUME i + 1 <= N PROVE Good(i + 1)
    <3> HIDE DEF Good, N
    <3> QED
      BY DEF S
  <2> DEFINE j == i + 1
             d == sops[j].op
  <2>1. j \in 1 .. N /\ j - 1 = i /\ i <= N /\ j \in 0 .. N
    BY <1>1
  <2>2. f[j - 1] \in [D -> 0 .. SEMVMX]
    BY <1>7, <2>1
  <2>3. f[j] \in [D -> Int]
    <3> HIDE DEF j, N
    <3> QED
      BY <1>4, <2>1
  <2> HIDE DEF j
  <2>4. sops[j] \in Sops
    BY <2>1
  <2>5. d \in Int
    BY <2>4 DEF Sops
  <2>6. ASSUME NEW n \in D PROVE f[j][n] \in 0 .. SEMVMX
    <3>1. /\ n = sops[j].num => f[j][n] = f[j - 1][n] + 1 * d
          /\ n # sops[j].num => f[j][n] = f[j - 1][n]
      BY <1>1, <1>2, <2>1, SumsStep DEF Turn
    <3>2. f[j - 1][n] \in 0 .. SEMVMX
      BY <2>2
    <3>3. CASE n = sops[j].num
      <4> DEFINE a == f[j - 1][n]
      <4>1. CanDo(a, d) /\ f[j][n] = a + d /\ a \in 0 .. SEMVMX
        BY <1>5, <2>1, <2>5, <3>1, <3>2, <3>3
      <4> HIDE DEF a, d
      <4> QED
        BY <1>1, <2>5, <4>1 DEF CanDo
    <3>4. CASE n # sops[j].num
      BY <3>1, <3>2, <3>4
    <3> QED
      BY <3>3, <3>4
  <2>7. f[j] \in [D -> 0 .. SEMVMX]
    BY <2>3, <2>6
  <2> QED
    BY <2>7 DEF j
<1>8. Nat \subseteq S
  <2> HIDE DEF S
  <2> QED
    BY <1>6, <1>7, Induction
<1>9. N \in S
  BY <1>1, <1>8
<1>10. Good(N)
  BY <1>1, <1>9
<1> QED
  BY <1>2, <1>10 DEF f

-----------------------------------------------------------------------------
(* The pool                                                                 *)

Cells == [val : 0 .. SEMVMX, ncnt : 0 .. CountMod - 1, zcnt : 0 .. CountMod - 1]
Removing(p) == pc[p] \in {"rmid_shift", "rmid_bases"}
Top(e) == sema[e].base + sema[e].nsems
Apart(e, f) == Top(e) <= sema[f].base \/ Top(f) <= sema[e].base

\* No set is moved by the removal of another.
Alone == "IPC_RMID" \notin Commands \/ \A e, f \in Evs : e = f

PoolTypes ==
    /\ sem \in [Pool -> Cells] /\ semtot \in 0 .. SEMMNS /\ ledger \in [Evs -> [Pool -> Int]]
    /\ \A e \in Evs : sema[e].nsems \in 0 .. SEMMNS /\ sema[e].base \in 0 .. SEMMNS

\* The sets have places of their own below semtot, unless they are being removed.
Places ==
    /\ \A p \in Threads : Removing(p) => "IPC_RMID" \in Commands
    /\ \A e \in Evs : sema[e].alloc =>
         /\ Top(e) <= SEMMNS
         /\ Top(e) <= semtot \/ \E p \in Threads : Removing(p) /\ req[p].ix = e
    /\ \A e, f \in Evs : e # f /\ sema[e].alloc /\ sema[f].alloc => Apart(e, f)

\* The values are those of the ledger.
Agree ==
    \A e \in Evs : Settled(e) =>
        \A n \in 0 .. sema[e].nsems - 1 : sem[sema[e].base + n].val = ledger[e][n]

\* No IPC_RMID goes on.
Calm == \A q \in Threads : (Removing(q)' <=> Removing(q)) /\ (Removing(q) => req'[q] = req[q])

LEMMA PlacesCalm ==
    ASSUME Places, Calm, UNCHANGED <<sema, semtot>>
    PROVE  Places' /\ \A e \in Evs : Settled(e)' => Settled(e)
<1>1. \A e \in Evs : Top(e)' = Top(e)
  BY DEF Top
<1>2. \A e, f \in Evs : Apart(e, f) => Apart(e, f)'
  BY DEF Apart, Top
<1>3. \A e \in Evs : sema[e].alloc =>
        Top(e)' <= SEMMNS /\ (Top(e)' <= semtot' \/ \E p \in Threads : Removing(p)' /\ req'[p].ix = e)
  BY <1>1 DEF Places, Calm
<1>4. \A p \in Threads : Removing(p)' => "IPC_RMID" \in Commands
  BY DEF Places, Calm
<1>5. \A e \in Evs : Settled(e)' => Settled(e)
  BY DEF Settled, Calm, Removing
<1>6. \A e, f \in Evs : e # f /\ sema'[e].alloc /\ sema'[f].alloc => Apart(e, f)'
  BY <1>2 DEF Places
<1> QED
  BY <1>3, <1>4, <1>5, <1>6 DEF Places

\* Where the semaphores of a set are
LEMMA InPool ==
    ASSUME PoolTypes, Places, NEW e \in Evs, sema[e].alloc, NEW n \in 0 .. sema[e].nsems - 1
    PROVE  sema[e].base + n \in Pool /\ (sema[e].base + n) - sema[e].base = n /\ n \in Pool
<1>1. /\ sema[e].nsems \in Int /\ sema[e].base \in Int /\ sema[e].base >= 0 /\ SEMMNS \in Nat
      /\ sema[e].base + sema[e].nsems <= SEMMNS
  BY LimitAssumption DEF PoolTypes, Places, Top
<1> QED
  BY <1>1 DEF Pool

\* A place is of one set only.
LEMMA OneSet ==
    ASSUME PoolTypes, Places, NEW e \in Evs, NEW f \in Evs, e # f, sema[e].alloc, sema[f].alloc,
           NEW n \in 0 .. sema[e].nsems - 1
    PROVE  (sema[e].base + n) - sema[f].base \notin 0 .. sema[f].nsems - 1
<1> DEFINE be == sema[e].base
           ne == sema[e].nsems
           bf == sema[f].base
           nf == sema[f].nsems
<1>1. be \in Int /\ ne \in Int /\ bf \in Int /\ nf \in Int
  BY LimitAssumption DEF PoolTypes
<1>2. be + ne <= bf \/ bf + nf <= be
  BY DEF Places, Apart, Top
<1>3. n \in 0 .. ne - 1
  OBVIOUS
<1> HIDE DEF be, ne, bf, nf
<1>4. (be + n) - bf \notin 0 .. nf - 1
  BY <1>1, <1>2, <1>3
<1> QED
  BY <1>4 DEF be, bf, nf

\* Some values of one set are replaced ...
Replaced(ix, W, vals) ==
    /\ sem' \in [Pool -> Cells] /\ W \subseteq 0 .. sema[ix].nsems - 1
    /\ \A i \in Pool : sem'[i].val = IF i - sema[ix].base \in W
                                     THEN vals[i - sema[ix].base] ELSE sem[i].val

\* ... and entered in its ledger.
Entered(ix, W, vals, l) ==
    /\ l \in [Pool -> Int] /\ ledger' = [ledger EXCEPT ![ix] = l]
    /\ Settled(ix) => \A n \in 0 .. sema[ix].nsems - 1 :
                        l[n] = IF n \in W THEN vals[n] ELSE sem[sema[ix].base + n].val

LEMMA AgreeStored ==
    ASSUME PoolTypes, Places, Agree, Calm, UNCHANGED <<sema, semtot>>,
           NEW ix \in Evs, sema[ix].alloc, NEW W, NEW vals, NEW l,
           Replaced(ix, W, vals), Entered(ix, W, vals, l)
    PROVE  PoolTypes' /\ Places' /\ Agree'
<1> USE DEF Replaced, Entered
<1>1. Places' /\ \A e \in Evs : Settled(e)' => Settled(e)
  BY PlacesCalm
<1>2. ledger \in [Evs -> [Pool -> Int]]
  BY DEF PoolTypes
<1>3. PoolTypes'
  <2>1. ledger' \in [Evs -> [Pool -> Int]]
    BY <1>2
  <2> QED
    BY <2>1 DEF PoolTypes
<1>4. ASSUME NEW e \in Evs, Settled(e), NEW n \in 0 .. sema[e].nsems - 1
      PROVE  sem'[sema[e].base + n].val = ledger'[e][n]
  <2> DEFINE i == sema[e].base + n
  <2>0. sema[e].alloc
    BY <1>4 DEF Settled
  <2>1. i \in Pool /\ i - sema[e].base = n
    BY <1>4, <2>0, InPool
  <2>2. sem'[i].val = IF i - sema[ix].base \in W THEN vals[i - sema[ix].base] ELSE sem[i].val
    BY <2>1
  <2> HIDE DEF i
  <2>3. CASE e = ix
    <3>1. sem'[i].val = IF n \in W THEN vals[n] ELSE sem[i].val
      BY <2>1, <2>2, <2>3
    <3>2. ledger'[e] = l
      BY <1>2, <2>3
    <3>3. l[n] = IF n \in W THEN vals[n] ELSE sem[i].val
      BY <1>4, <2>3 DEF i
    <3>4. sem'[i].val = ledger'[e][n]
      BY <3>1, <3>2, <3>3
    <3> QED
      BY <3>4 DEF i
  <2>4. CASE e # ix
    <3>1. i - sema[ix].base \notin 0 .. sema[ix].nsems - 1
      BY <1>4, <2>0, <2>4, OneSet DEF i
    <3>2. sem'[i].val = sem[i].val
      BY <2>2, <3>1
    <3>3. ledger'[e] = ledger[e]
      BY <1>2, <2>4
    <3>4. sem[i].val = ledger[e][n]
      BY <1>4 DEF Agree, i
    <3> QED
      BY <3>2, <3>3, <3>4 DEF i
  <2> QED
    BY <2>3, <2>4
<1>5. Agree'
  BY <1>1, <1>4 DEF Agree
<1> QED
  BY <1>1, <1>3, <1>5

\* The values stay, though counts may change.
LEMMA AgreeSame ==
    ASSUME PoolTypes, Places, Agree, Calm, UNCHANGED <<sema, semtot, ledger>>,
           sem' \in [Pool -> Cells], \A i \in Pool : sem'[i].val = sem[i].val
    PROVE  PoolTypes' /\ Places' /\ Agree'
<1>1. Places' /\ \A e \in Evs : Settled(e)' => Settled(e)
  BY PlacesCalm
<1>2. PoolTypes'
  BY DEF PoolTypes
<1>3. ASSUME NEW e \in Evs, Settled(e), NEW n \in 0 .. sema[e].nsems - 1
      PROVE  sem'[sema[e].base + n].val = ledger[e][n]
  <2>1. sema[e].base + n \in Pool
    BY <1>3, InPool DEF Settled
  <2> QED
    BY <1>3, <2>1 DEF Agree
<1>4. Agree'
  BY <1>1, <1>3 DEF Agree
<1> QED
  BY <1>1, <1>2, <1>4

\* A count of a semaphore is changed.
Bump(s, i, cnt, d) == [s EXCEPT ![i][cnt] = (@ + d) % CountMod]

LEMMA CountIs ==
    ASSUME NEW s \in [Pool -> Cells], NEW i, NEW cnt \in {"ncnt", "zcnt"}, NEW d \in Int,
           NEW t, t = Bump(s, i, cnt, d)
    PROVE  t \in [Pool -> Cells] /\ \A j \in Pool : t[j].val = s[j].val
<1> USE DEF Bump
<1>1. CASE i \notin Pool
  BY <1>1
<1>2. CASE i \in Pool
  <2> DEFINE c == [s[i] EXCEPT ![cnt] = (@ + d) % CountMod]
  <2>1. s[i] \in Cells /\ CountMod \in Nat \ {0}
    BY <1>2, LimitAssumption
  <2>2. c \in Cells /\ c.val = s[i].val
    <3>1. CASE cnt = "ncnt"
      <4>1. s[i].ncnt \in Int
        BY <2>1 DEF Cells
      <4>2. (s[i].ncnt + d) % CountMod \in 0 .. CountMod - 1
        BY <2>1, <4>1
      <4>3. c = [s[i] EXCEPT !.ncnt = (s[i].ncnt + d) % CountMod]
        BY <3>1
      <4> QED
        BY <2>1, <4>2, <4>3 DEF Cells
    <3>2. CASE cnt = "zcnt"
      <4>1. s[i].zcnt \in Int
        BY <2>1 DEF Cells
      <4>2. (s[i].zcnt + d) % CountMod \in 0 .. CountMod - 1
        BY <2>1, <4>1
      <4>3. c = [s[i] EXCEPT !.zcnt = (s[i].zcnt + d) % CountMod]
        BY <3>2
      <4> QED
        BY <2>1, <4>2, <4>3 DEF Cells
    <3> QED
      BY <3>1, <3>2
  <2>3. t = [s EXCEPT ![i] = c]
    BY <1>2
  <2> HIDE DEF c
  <2> QED
    BY <1>2, <2>2, <2>3
<1> QED
  BY <1>1, <1>2

\* Store replaces the values of a set, ...
LEMMA StoreIs ==
    ASSUME PoolTypes, NEW ix \in Evs, NEW W, NEW vals \in [W -> 0 .. SEMVMX],
           NEW t, t = Store(ix, vals)
    PROVE  /\ t \in [Pool -> Cells]
           /\ \A i \in Pool : t[i].val = IF i - sema[ix].base \in W
                                         THEN vals[i - sema[ix].base] ELSE sem[i].val
<1>1. DOMAIN vals = W
  OBVIOUS
<1>2. \A i \in Pool : t[i] = IF i - sema[ix].base \in W
                             THEN [sem[i] EXCEPT !.val = vals[i - sema[ix].base]] ELSE sem[i]
  BY <1>1 DEF Store
<1>3. \A i \in Pool : i - sema[ix].base \in W => vals[i - sema[ix].base] \in 0 .. SEMVMX
  OBVIOUS
<1>4. ASSUME NEW i \in Pool
      PROVE  t[i] \in Cells /\ t[i].val = IF i - sema[ix].base \in W
                                          THEN vals[i - sema[ix].base] ELSE sem[i].val
  <2>1. sem[i] \in Cells
    BY DEF PoolTypes
  <2> DEFINE k == i - sema[ix].base
  <2>2. k \in W => vals[k] \in 0 .. SEMVMX
    BY <1>3
  <2>3. t[i] = IF k \in W THEN [sem[i] EXCEPT !.val = vals[k]] ELSE sem[i]
    BY <1>2
  <2> HIDE DEF k
  <2>4. \A v \in 0 .. SEMVMX : [sem[i] EXCEPT !.val = v] \in Cells /\ [sem[i] EXCEPT !.val = v].val = v
    BY <2>1 DEF Cells
  <2>5. t[i] \in Cells /\ t[i].val = IF k \in W THEN vals[k] ELSE sem[i].val
    BY <2>1, <2>2, <2>3, <2>4
  <2> QED
    BY <2>5 DEF k
<1>5. t = [i \in Pool |-> t[i]]
  BY DEF Store
<1> QED
  BY <1>4, <1>5

\* ... by what they are, when it was all rolled back.
LEMMA StoreSame ==
    ASSUME PoolTypes, Places, NEW ix \in Evs, sema[ix].alloc
    PROVE  Vals(ix) \in [0 .. sema[ix].nsems - 1 -> 0 .. SEMVMX] /\ Store(ix, Vals(ix)) = sem
<1> DEFINE W == 0 .. sema[ix].nsems - 1
           v == Vals(ix)
<1>1. \A n \in W : sema[ix].base + n \in Pool
  BY InPool
<1>2. \A n \in W : v[n] = sem[sema[ix].base + n].val
  BY DEF Vals
<1>3. \A i \in Pool : sem[i] \in Cells /\ sem[i].val \in 0 .. SEMVMX
  BY DEF PoolTypes, Cells
<1>4. v \in [W -> 0 .. SEMVMX]
  <2>1. v = [n \in W |-> sem[sema[ix].base + n].val]
    BY DEF Vals
  <2> HIDE DEF v, W
  <2> QED
    BY <1>1, <1>3, <2>1
<1>5. ASSUME NEW i \in Pool, i - sema[ix].base \in W PROVE [sem[i] EXCEPT !.val = v[i - sema[ix].base]] = sem[i]
  <2>1. sema[ix].base + (i - sema[ix].base) = i
    <3>1. sema[ix].base \in Int /\ i \in Int
      BY LimitAssumption DEF PoolTypes, Pool
    <3> QED
      BY <3>1
  <2>2. v[i - sema[ix].base] = sem[i].val
    BY <1>2, <1>5, <2>1
  <2>3. sem[i] \in Cells
    BY <1>3
  <2> QED
    BY <2>2, <2>3 DEF Cells
<1>6. DOMAIN v = W
  BY <1>4
<1>7. Store(ix, v) = [i \in Pool |-> IF i - sema[ix].base \in W
                                    THEN [sem[i] EXCEPT !.val = v[i - sema[ix].base]] ELSE sem[i]]
  BY <1>6 DEF Store
<1> HIDE DEF v, W
<1>8. Store(ix, v) = [i \in Pool |-> sem[i]]
  BY <1>5, <1>7
<1>9. sem = [i \in Pool |-> sem[i]]
  BY DEF PoolTypes
<1> QED
  BY <1>4, <1>8, <1>9 DEF v, W

Laid == PoolTypes /\ Places /\ Agree

LEMMA CalmIf ==
    ASSUME NEW p \in Threads, ~Removing(p), ~Removing(p)',
           \A q \in Threads : q # p => pc'[q] = pc[q] /\ req'[q] = req[q]
    PROVE  Calm
<1>1. ASSUME NEW q \in Threads, q # p PROVE Removing(q)' <=> Removing(q)
  BY <1>1 DEF Removing
<1> QED
  BY <1>1 DEF Calm

\* semop does all of a vector or nothing.
LEMMA LaidAttempt ==
    ASSUME Shapes, Laid, NEW p \in Threads, ~Removing(p), Attempt(p), sema[req[p].ix].alloc
    PROVE  Laid'
<1> DEFINE ix == req[p].ix
           sops == req[p].sops
           N == Len(sops)
           W == 0 .. sema[ix].nsems - 1
           v == Vals(ix)
           stop == Stop(v, sops)
<1>1. /\ ix \in Evs /\ sops \in Seq(Sops) /\ pc \in [Threads -> Labels] /\ req \in [Threads -> Reqs]
      /\ UNCHANGED <<sema, semtot>>
  BY DEF Shapes, Reqs, Attempt
<1>2. PoolTypes /\ Places /\ Agree
  BY DEF Laid
<1>3. v \in [W -> 0 .. SEMVMX] /\ Store(ix, v) = sem
  <2> HIDE DEF ix
  <2> QED
    BY <1>1, <1>2, StoreSame DEF ix
<1>4. v \in [W -> Int]
  <2>1. 0 .. SEMVMX \subseteq Int
    BY LimitAssumption
  <2> HIDE DEF v, W
  <2> QED
    BY <1>3, <2>1
<1>5. \A s \in 1 .. N + 1 : Rollback(v, sops, s) = v
  <2> HIDE DEF v, W, sops
  <2> QED
    BY <1>1, <1>4, RollbackIs
<1>6. sem \in [Pool -> Cells]
  BY <1>2 DEF PoolTypes
<1>7. N \in Nat
  BY <1>1
<1>8. CASE SemopDone(p, ix, sops) /\ stop > N
  <2>1. pc' = [pc EXCEPT ![p] = "idle"] /\ req' = req
    BY <1>8 DEF SemopDone, Goto
  <2>2. Calm
    <3>1. \A q \in Threads : q # p => pc'[q] = pc[q] /\ req'[q] = req[q]
      BY <1>1, <2>1
    <3>2. ~Removing(p)'
      BY <1>1, <2>1 DEF Removing
    <3> QED
      BY <3>1, <3>2, CalmIf
  <2> DEFINE final == Applied(v, sops, 1)[N]
             l == Applied(ledger[ix], sops, 1)[N]
  <2>3. \/ sem' = Store(ix, final) /\ ledger' = [ledger EXCEPT ![ix] = l]
        \/ sem' = Store(ix, Rollback(v, sops, N + 1)) /\ ledger' = ledger
    BY <1>8 DEF SemopDone
  <2>4. CASE sem' = Store(ix, Rollback(v, sops, N + 1)) /\ ledger' = ledger
    <3>1. Rollback(v, sops, N + 1) = v
      BY <1>5, <1>7
    <3>2. sem' = sem
      BY <1>3, <2>4, <3>1
    <3> QED
      BY <1>1, <1>2, <1>6, <2>2, <2>4, <3>2, AgreeSame DEF Laid
  <2>5. CASE sem' = Store(ix, final) /\ ledger' = [ledger EXCEPT ![ix] = l]
    <3>1. ledger[ix] \in [Pool -> Int]
      BY <1>1, <1>2 DEF PoolTypes
    <3> DEFINE f == Applied(v, sops, 1)
               g == Applied(ledger[ix], sops, 1)
    <3>2. Sums(f, W, v, sops, 1) /\ final \in [W -> 0 .. SEMVMX]
      <4> HIDE DEF W, v, sops
      <4>1. stop > Len(sops)
        BY <1>8
      <4> QED
        BY <1>1, <1>3, <4>1, FinalRange
    <3>3. Sums(g, Pool, ledger[ix], sops, 1)
      <4> DEFINE w == ledger[ix]
                 sign == 1
      <4>1. w \in [Pool -> Int] /\ g = Applied(w, sops, sign) /\ sign \in Int
        BY <3>1
      <4> HIDE DEF w, g, sops, sign
      <4>2. Sums(g, Pool, w, sops, sign)
        BY <1>1, <4>1, AppliedIs
      <4> QED
        BY <4>2 DEF w, sign
    <3>4. l \in [Pool -> Int]
      <4>1. N \in 0 .. N
        BY <1>7
      <4> HIDE DEF g
      <4>2. g[N] \in [Pool -> Int]
        BY <3>3, <4>1 DEF Sums
      <4> QED
        BY <4>2 DEF g
    <3>5. W \subseteq Pool /\ \A n \in W : sema[ix].base + n \in Pool
      BY <1>1, <1>2, InPool
    <3>6. ASSUME Settled(ix) PROVE \A n \in W : l[n] = final[n]
      <4>1. \A n \in W : v[n] = ledger[ix][n]
        BY <1>1, <1>2, <3>6 DEF Agree, Vals
      <4> DEFINE w == ledger[ix]
      <4>2. Sums(g, Pool, w, sops, 1) /\ \A n \in W : v[n] = w[n]
        BY <3>3, <4>1
      <4> HIDE DEF f, g, w, v, W, sops
      <4>3. \A n \in W : f[Len(sops)][n] = g[Len(sops)][n]
        BY <1>1, <3>2, <3>5, <4>2, SumsAgree
      <4> QED
        BY <4>3 DEF f, g
    <3> HIDE DEF final, l
    <3>7. sem' \in [Pool -> Cells] /\ \A i \in Pool : sem'[i].val = IF i - sema[ix].base \in W
                                         THEN final[i - sema[ix].base] ELSE sem[i].val
      <4> HIDE DEF W, ix
      <4> QED
        BY <1>1, <1>2, <2>5, <3>2, StoreIs
    <3> DEFINE b == sema[ix].base
    <3>8. \A n \in W : Settled(ix) => l[n] = IF n \in W THEN final[n] ELSE sem[b + n].val
      BY <3>6
    <3> HIDE DEF ix
    <3>9. W \subseteq 0 .. sema[ix].nsems - 1 /\ sema[ix].alloc
      BY DEF ix
    <3>10. Replaced(ix, W, final)
      BY <3>7, <3>9 DEF Replaced
    <3>11. Entered(ix, W, final, l)
      BY <2>5, <3>4, <3>8 DEF Entered
    <3> HIDE DEF W
    <3> QED
      BY <1>1, <1>2, <2>2, <3>9, <3>10, <3>11, AgreeStored DEF Laid
  <2> QED
    BY <2>3, <2>4, <2>5
<1>9. CASE SemopStuck(p, ix, sops) /\ ~(stop > N)
  <2> DEFINE num == sema[ix].base + sops[stop].num
             cnt == IF sops[stop].op = 0 THEN "zcnt" ELSE "ncnt"
             back == Store(ix, Rollback(v, sops, stop))
  <2>1. stop \in 1 .. N
    <3> HIDE DEF v, sops
    <3> QED
      BY <1>1, <1>9, StopIs
  <2>2. back = sem
    <3>1. stop \in 1 .. N + 1
      BY <1>7, <2>1
    <3> HIDE DEF stop, v
    <3> QED
      BY <1>3, <1>5, <3>1
  <2>3. /\ ledger' = ledger
        /\ \/ pc' = [pc EXCEPT ![p] = "idle"] /\ req' = req /\ sem' = back
           \/ /\ pc' = [pc EXCEPT ![p] = "asleep"]
              /\ req' = [req EXCEPT ![p].num = num, ![p].cnt = cnt]
              /\ sem' = [back EXCEPT ![num][cnt] = (@ + 1) % CountMod]
    BY <1>9 DEF SemopStuck, Goto
  <2>4. cnt \in {"ncnt", "zcnt"}
    OBVIOUS
  <2> HIDE DEF num, cnt, back
  <2>5. Calm
    <3>1. \A q \in Threads : q # p => pc'[q] = pc[q] /\ req'[q] = req[q]
      BY <1>1, <2>3
    <3>2. ~Removing(p)'
      BY <1>1, <2>3 DEF Removing
    <3> QED
      BY <3>1, <3>2, CalmIf
  <2>6. sem' \in [Pool -> Cells] /\ \A i \in Pool : sem'[i].val = sem[i].val
    <3>1. CASE sem' = back
      BY <1>6, <2>2, <3>1
    <3>2. CASE sem' = [back EXCEPT ![num][cnt] = (@ + 1) % CountMod]
      <4> DEFINE d == 1
      <4>1. d \in Int /\ sem' = Bump(sem, num, cnt, d)
        BY <2>2, <3>2 DEF Bump
      <4> HIDE DEF d
      <4> QED
        BY <1>6, <2>4, <4>1, CountIs
    <3> QED
      BY <2>3, <3>1, <3>2
  <2> QED
    BY <1>1, <1>2, <2>3, <2>5, <2>6, AgreeSame DEF Laid
<1> QED
  BY <1>8, <1>9 DEF Attempt

LEMMA LaidSleep ==
    ASSUME Shapes, Laid, NEW p \in Threads, SleepStep(p)
    PROVE  Laid'
<1> DEFINE num == req[p].num
           cnt == req[p].cnt
<1>1. UNCHANGED <<sema, semtot, pc, req, ledger>> /\ (sem' = sem \/ SleepDone(p))
  BY DEF SleepStep, history
<1>2. PoolTypes /\ Places /\ Agree /\ sem \in [Pool -> Cells] /\ cnt \in {"ncnt", "zcnt"}
  BY DEF Laid, PoolTypes, Shapes, Reqs
<1>3. Calm
  BY <1>1 DEF Calm, Removing
<1>4. sem' \in [Pool -> Cells] /\ \A i \in Pool : sem'[i].val = sem[i].val
  <2>1. sem' = sem \/ sem' = [sem EXCEPT ![num][cnt] = (@ - 1) % CountMod]
    BY <1>1 DEF SleepDone
  <2>2. CASE sem' = sem
    BY <1>2, <2>2
  <2>3. CASE sem' = [sem EXCEPT ![num][cnt] = (@ - 1) % CountMod]
    <3> DEFINE d == -1
               t == [sem EXCEPT ![num][cnt] = (@ - 1) % CountMod]
    <3>1. CASE num \notin Pool
      BY <1>2, <2>3, <3>1
    <3>2. CASE num \in Pool
      <4>1. sem[num][cnt] \in Int
        <5>1. sem[num] \in Cells
          BY <1>2, <3>2
        <5>2. CASE cnt = "ncnt"
          BY <5>1, <5>2 DEF Cells
        <5>3. CASE cnt = "zcnt"
          BY <5>1, <5>3 DEF Cells
        <5> QED
          BY <1>2, <5>2, <5>3
      <4>2. (sem[num][cnt] - 1) % CountMod = (sem[num][cnt] + d) % CountMod /\ d \in Int
        <5>1. sem[num][cnt] - 1 = sem[num][cnt] + d
          BY <4>1
        <5> QED
          BY <5>1
      <4> HIDE DEF d
      <4>3. d \in Int /\ sem' = Bump(sem, num, cnt, d)
        BY <2>3, <4>2 DEF Bump
      <4> HIDE DEF num, cnt
      <4> QED
        BY <1>2, <4>3, CountIs
    <3> QED
      BY <3>1, <3>2
  <2> QED
    BY <2>1, <2>2, <2>3
<1> QED
  BY <1>1, <1>2, <1>3, <1>4, AgreeSame DEF Laid

LEMMA LaidSetVal ==
    ASSUME Shapes, Laid, NEW p \in Threads, NEW ix \in Evs, NEW k, NEW num \in Pool,
           NEW val \in Values, SetVal(p, ix, k, num, val)
    PROVE  Laid'
<1> DEFINE W == {num}
           vals == [n \in W |-> val]
           l == [ledger[ix] EXCEPT ![num] = val]
           b == sema[ix].base
<1>1. PoolTypes /\ Places /\ Agree
  BY DEF Laid
<1>2. /\ UNCHANGED <<sema, semtot, pc, req>> /\ sema[ix].alloc /\ num < sema[ix].nsems /\ val <= SEMVMX
      /\ sem' = [sem EXCEPT ![b + num].val = val] /\ ledger' = [ledger EXCEPT ![ix][num] = val]
  BY DEF SetVal, Valid
<1>3. val \in 0 .. SEMVMX /\ num \in Nat /\ b \in Int /\ sema[ix].nsems \in Int
  <2>1. val \in 0 .. SEMVMX
    BY <1>2, InputAssumption, LimitAssumption
  <2>2. num \in Nat
    BY LimitAssumption DEF Pool
  <2>3. b \in Int /\ sema[ix].nsems \in Int
    BY <1>1, LimitAssumption DEF PoolTypes
  <2> QED
    BY <2>1, <2>2, <2>3
<1>4. num \in 0 .. sema[ix].nsems - 1 /\ b + num \in Pool
  <2>1. num \in 0 .. sema[ix].nsems - 1
    BY <1>2, <1>3
  <2> QED
    BY <1>1, <1>2, <2>1, InPool
<1>5. sem \in [Pool -> Cells] /\ ledger \in [Evs -> [Pool -> Int]] /\ ledger[ix] \in [Pool -> Int]
  BY <1>1 DEF PoolTypes
<1>6. sem' \in [Pool -> Cells] /\ \A i \in Pool : sem'[i].val = IF i = b + num THEN val ELSE sem[i].val
  <2>1. [sem[b + num] EXCEPT !.val = val] \in Cells /\ [sem[b + num] EXCEPT !.val = val].val = val
    BY <1>3, <1>4, <1>5 DEF Cells
  <2> HIDE DEF b
  <2> QED
    BY <1>2, <1>4, <1>5, <2>1
<1>7. \A i \in Pool : i = b + num <=> i - b \in W
  BY <1>3 DEF Pool
<1>8. \A i \in Pool : sem'[i].val = IF i - b \in W THEN vals[i - b] ELSE sem[i].val
  <2> SUFFICES ASSUME NEW i \in Pool PROVE sem'[i].val = IF i - b \in W THEN vals[i - b] ELSE sem[i].val
    OBVIOUS
  <2>1. sem'[i].val = IF i - b \in W THEN val ELSE sem[i].val
    BY <1>6, <1>7
  <2>2. i - b \in W => vals[i - b] = val
    OBVIOUS
  <2> QED
    BY <2>1, <2>2
<1>9. l \in [Pool -> Int] /\ ledger' = [ledger EXCEPT ![ix] = l] /\ \A n \in Pool : l[n] = IF n = num THEN val ELSE ledger[ix][n]
  BY <1>2, <1>3, <1>5
<1>10. \A n \in 0 .. sema[ix].nsems - 1 : Settled(ix) => l[n] = IF n \in W THEN vals[n] ELSE sem[b + n].val
  <2> SUFFICES ASSUME NEW n \in 0 .. sema[ix].nsems - 1, Settled(ix)
               PROVE  l[n] = IF n \in W THEN vals[n] ELSE sem[b + n].val
    OBVIOUS
  <2>1. n \in Pool
    BY <1>1, <1>2, InPool
  <2>2. sem[b + n].val = ledger[ix][n]
    BY <1>1 DEF Agree
  <2>3. n \in W => vals[n] = val
    OBVIOUS
  <2> HIDE DEF l, vals, b
  <2> QED
    BY <1>9, <2>1, <2>2, <2>3
<1>11. Calm
  BY <1>2 DEF Calm, Removing
<1>12. W \subseteq 0 .. sema[ix].nsems - 1
  BY <1>4
<1> HIDE DEF W, vals, l
<1>13. Replaced(ix, W, vals)
  BY <1>6, <1>8, <1>12 DEF Replaced
<1>14. Entered(ix, W, vals, l)
  BY <1>9, <1>10 DEF Entered
<1> QED
  BY <1>1, <1>2, <1>11, <1>13, <1>14, AgreeStored DEF Laid

LEMMA LaidSetAll ==
    ASSUME Shapes, Laid, NEW p \in Threads, NEW array \in Arrays, SetAllWrite(p, array)
    PROVE  Laid'
<1> DEFINE ix == req[p].ix
           bad == {i \in DOMAIN array : i < sema[ix].nsems /\ array[i] > SEMVMX}
           W == {i \in 0 .. (sema[ix].nsems - 1) : \A j \in bad : i < j}
           vals == [i \in W |-> array[i]]
           l == [i \in Pool |-> IF i \in W THEN array[i] ELSE ledger[ix][i]]
<1>1. PoolTypes /\ Places /\ Agree
  BY DEF Laid
<1>2. ix \in Evs /\ pc[p] = "setall" /\ pc \in [Threads -> Labels] /\ req \in [Threads -> Reqs]
  BY DEF Shapes, Reqs, SetAllWrite
<1>3. Calm
  <2>1. \/ pc' = [pc EXCEPT ![p] = "idle"] /\ req' = req
        \/ pc' = pc /\ req' = [req EXCEPT ![p].num = sema[ix].nsems]
    BY DEF SetAllWrite, Goto
  <2>2. \A q \in Threads : q # p => pc'[q] = pc[q] /\ req'[q] = req[q]
    BY <1>2, <2>1
  <2>3. ~Removing(p) /\ ~Removing(p)'
    BY <1>2, <2>1 DEF Removing
  <2> QED
    BY <2>2, <2>3, CalmIf
<1>4. UNCHANGED <<sema, semtot>>
  BY DEF SetAllWrite, semVars
<1>5. CASE UNCHANGED <<sem, ledger>>
  <2>1. sem' \in [Pool -> Cells] /\ \A i \in Pool : sem'[i].val = sem[i].val
    BY <1>1, <1>5 DEF PoolTypes
  <2> QED
    BY <1>1, <1>3, <1>4, <1>5, <2>1, AgreeSame DEF Laid
<1>6. CASE ~UNCHANGED <<sem, ledger>>
  <2>1. sema[ix].alloc /\ sem' = Store(ix, vals) /\ ledger' = [ledger EXCEPT ![ix] = l]
    BY <1>6 DEF SetAllWrite, semVars, history, Valid
  <2>2. \A n \in 0 .. sema[ix].nsems - 1 : n \in Pool
    BY <1>1, <1>2, <2>1, InPool
  <2>3. \A i \in Pool : array[i] \in Nat
    BY InputAssumption DEF Arrays, Pool
  <2>4. ledger[ix] \in [Pool -> Int] /\ sema[ix].nsems \in Int /\ SEMVMX \in Nat
    BY <1>1, <1>2, LimitAssumption DEF PoolTypes
  <2>5. vals \in [W -> 0 .. SEMVMX]
    <3> SUFFICES ASSUME NEW i \in W PROVE array[i] \in 0 .. SEMVMX
      OBVIOUS
    <3>1. i \in 0 .. sema[ix].nsems - 1 /\ i \in Pool /\ \A j \in bad : i < j
      BY <2>2
    <3>2. i \notin bad
      <4>1. i \in Nat
        BY <3>1
      <4> QED
        BY <3>1, <4>1
    <3>3. DOMAIN array = Pool
      BY DEF Arrays, Pool
    <3>4. i < sema[ix].nsems
      BY <2>4, <3>1
    <3>5. ~(array[i] > SEMVMX)
      BY <3>1, <3>2, <3>3, <3>4
    <3> QED
      BY <2>3, <2>4, <3>1, <3>5
  <2>6. l \in [Pool -> Int]
    <3> HIDE DEF W
    <3>1. \A i \in Pool : array[i] \in Int /\ ledger[ix][i] \in Int
      BY <2>3, <2>4
    <3> QED
      BY <3>1
  <2>7. W \subseteq 0 .. sema[ix].nsems - 1
    OBVIOUS
  <2> HIDE DEF W
  <2>8. ASSUME NEW n \in 0 .. sema[ix].nsems - 1, Settled(ix)
        PROVE  l[n] = IF n \in W THEN vals[n] ELSE sem[sema[ix].base + n].val
    <3>1. l[n] = IF n \in W THEN array[n] ELSE ledger[ix][n]
      BY <2>2
    <3>2. sem[sema[ix].base + n].val = ledger[ix][n]
      BY <1>1, <1>2, <2>8 DEF Agree
    <3>3. n \in W => vals[n] = array[n]
      OBVIOUS
    <3> QED
      BY <3>1, <3>2, <3>3
  <2> HIDE DEF ix, vals, l
  <2>9. /\ sem' \in [Pool -> Cells]
        /\ \A i \in Pool : sem'[i].val = IF i - sema[ix].base \in W
                                         THEN vals[i - sema[ix].base] ELSE sem[i].val
    BY <1>1, <1>2, <2>1, <2>5, StoreIs
  <2>10. Replaced(ix, W, vals)
    BY <2>7, <2>9 DEF Replaced
  <2>11. Entered(ix, W, vals, l)
    BY <2>1, <2>6, <2>8 DEF Entered
  <2> QED
    BY <1>1, <1>2, <1>3, <1>4, <2>1, <2>10, <2>11, AgreeStored DEF Laid
<1> QED
  BY <1>5, <1>6

\* Where IPC_RMID moves nothing of another set, nothing lies above semtot.
LEMMA BelowTotal ==
    ASSUME Alone, Places, NEW e \in Evs, sema[e].alloc, NEW f \in Evs, e # f
    PROVE  Top(e) <= semtot
<1>1. "IPC_RMID" \notin Commands
  BY DEF Alone
<1> QED
  BY <1>1 DEF Places

\* A new set lies above all others and is zeroed.
LEMMA LaidSemget ==
    ASSUME Alone, Shapes, Making, Laid, NEW p \in Threads, Semget(p)
    PROVE  Laid'
<1>12. PICK ix \in Evs, n \in Nat : ix = req[p].ix /\ n = req[p].num
  BY DEF Shapes, Reqs, Making, Semget
<1> DEFINE s == [alloc |-> TRUE, seq |-> (sema[ix].seq + 1) % SeqMod, nsems |-> n, base |-> semtot]
           zero == [val |-> 0, ncnt |-> 0, zcnt |-> 0]
<1>1. PoolTypes /\ Places /\ Agree /\ sema \in [Evs -> Sets]
  BY DEF Laid, Shapes
<1>0. ix \in Evs /\ pc[p] = "semget" /\ pc' = [pc EXCEPT ![p] = "idle"] /\ req' = req
      /\ pc \in [Threads -> Labels]
  BY <1>12 DEF Semget, Goto, Shapes, Reqs
<1>2. /\ ~sema[ix].alloc /\ n \in Nat /\ n <= SEMMNS - semtot /\ sema' = [sema EXCEPT ![ix] = s]
      /\ semtot' = semtot + n
      /\ sem' = [i \in Pool |-> IF i \in semtot..(semtot + n - 1) THEN zero ELSE sem[i]]
      /\ ledger' = [ledger EXCEPT ![ix] = [i \in Pool |-> 0]]
  BY <1>0, <1>12 DEF Semget, Making
<1>11. \A q \in Threads : Removing(q)' <=> Removing(q)
  BY <1>0 DEF Removing
<1>3. /\ n \in Nat /\ SEMMNS \in Nat /\ semtot \in 0 .. SEMMNS /\ sem \in [Pool -> Cells]
      /\ ledger \in [Evs -> [Pool -> Int]]
  BY <1>1, <1>2, LimitAssumption DEF PoolTypes
<1>4. s.alloc = TRUE /\ s.nsems = n /\ s.base = semtot
  OBVIOUS
<1> HIDE DEF s
<1>5. sema'[ix] = s /\ \A e \in Evs : e # ix => sema'[e] = sema[e]
  BY <1>0, <1>1, <1>2
<1>6. PoolTypes'
  <2>1. zero \in Cells
    BY LimitAssumption DEF Cells
  <2>2. sem' \in [Pool -> Cells]
    <3> HIDE DEF zero
    <3> QED
      BY <1>2, <1>3, <2>1
  <2>3. semtot' \in 0 .. SEMMNS
    BY <1>2, <1>3
  <2>4. ledger' \in [Evs -> [Pool -> Int]]
    <3>1. [i \in Pool |-> 0] \in [Pool -> Int]
      OBVIOUS
    <3> QED
      BY <1>2, <1>3, <3>1
  <2>5. \A e \in Evs : sema'[e].nsems \in 0 .. SEMMNS /\ sema'[e].base \in 0 .. SEMMNS
    <3>1. n \in 0 .. SEMMNS
      BY <1>2, <1>3
    <3>2. \A e \in Evs : sema[e].nsems \in 0 .. SEMMNS /\ sema[e].base \in 0 .. SEMMNS
      BY <1>1 DEF PoolTypes
    <3> QED
      BY <1>3, <1>4, <1>5, <3>1, <3>2
  <2> QED
    BY <2>2, <2>3, <2>4, <2>5 DEF PoolTypes
<1>7. ASSUME NEW e \in Evs, e # ix, sema[e].alloc
      PROVE  Top(e)' = Top(e) /\ Top(e) <= semtot /\ Top(e) \in Int
  <2>1. Top(e) <= semtot
    BY <1>1, <1>7, BelowTotal
  <2>2. Top(e) \in Int
    BY <1>1, LimitAssumption DEF PoolTypes, Top
  <2> QED
    BY <1>5, <1>7, <2>1, <2>2 DEF Top
<1>8. Top(ix)' = semtot'
  BY <1>0, <1>2, <1>4, <1>5 DEF Top
<1>9. Places'
  <2>1. \A q \in Threads : Removing(q)' => "IPC_RMID" \in Commands
    BY <1>1, <1>11 DEF Places
  <2>2. ASSUME NEW e \in Evs, sema'[e].alloc
        PROVE  Top(e)' <= SEMMNS /\ Top(e)' <= semtot'
    <3>1. CASE e = ix
      BY <1>2, <1>3, <1>8, <3>1
    <3>2. CASE e # ix
      BY <1>2, <1>3, <1>5, <1>7, <2>2, <3>2
    <3> QED
      BY <3>1, <3>2
  <2>3. ASSUME NEW e \in Evs, NEW f \in Evs, e # f, sema'[e].alloc, sema'[f].alloc
        PROVE  Apart(e, f)'
    <3>1. CASE e = ix
      <4>1. Top(f)' <= semtot /\ sema'[e].base = semtot
        BY <1>4, <1>5, <1>7, <2>3, <3>1
      <4> QED
        BY <4>1 DEF Apart
    <3>2. CASE f = ix
      <4>1. Top(e)' <= semtot /\ sema'[f].base = semtot
        BY <1>4, <1>5, <1>7, <2>3, <3>2
      <4> QED
        BY <4>1 DEF Apart
    <3>3. CASE e # ix /\ f # ix
      <4>1. Apart(e, f)
        BY <1>1, <1>5, <2>3, <3>3 DEF Places
      <4> QED
        BY <1>5, <3>3, <4>1 DEF Apart, Top
    <3> QED
      BY <3>1, <3>2, <3>3
  <2> QED
    BY <2>1, <2>2, <2>3 DEF Places
<1>10. ASSUME NEW e \in Evs, Settled(e)', NEW m \in 0 .. sema'[e].nsems - 1
       PROVE  sem'[sema'[e].base + m].val = ledger'[e][m]
  <2>1. sema'[e].alloc
    BY <1>10 DEF Settled
  <2>2. CASE e = ix
    <3>1. m \in 0 .. n - 1 /\ sema'[e].base = semtot
      BY <1>4, <1>5, <1>10, <2>2
    <3>2. semtot + m \in semtot..(semtot + n - 1) /\ semtot + m \in Pool /\ m \in Pool
      BY <1>2, <1>3, <3>1 DEF Pool
    <3>3. sem'[semtot + m] = zero
      BY <1>2, <3>2
    <3>4. ledger'[e][m] = 0
      BY <1>2, <1>3, <2>2, <3>2
    <3> QED
      BY <3>1, <3>3, <3>4
  <2>3. CASE e # ix
    <3> DEFINE i == sema[e].base + m
    <3>1. sema'[e] = sema[e] /\ sema[e].alloc /\ m \in 0 .. sema[e].nsems - 1 /\ Settled(e)
      BY <1>5, <1>10, <1>11, <2>1, <2>3 DEF Settled, Removing
    <3>2. i \in Pool
      BY <1>1, <3>1, InPool
    <3>3. i < semtot
      <4>1. Top(e) <= semtot
        BY <1>7, <2>3, <3>1
      <4>2. sema[e].base \in Int /\ sema[e].nsems \in Int /\ m \in Int /\ m < sema[e].nsems /\ semtot \in Int
        BY <1>1, <1>3, <3>1, LimitAssumption DEF PoolTypes
      <4> QED
        BY <4>1, <4>2 DEF Top
    <3>4. sem[i].val = ledger[e][m]
      BY <1>1, <3>1 DEF Agree
    <3> HIDE DEF i
    <3>5. i \in Int /\ i \notin semtot..(semtot + n - 1)
      BY <1>3, <3>2, <3>3 DEF Pool
    <3>6. sem'[i] = sem[i]
      BY <1>2, <3>2, <3>5
    <3>7. ledger'[e] = ledger[e]
      BY <1>2, <1>3, <2>3
    <3> QED
      BY <3>1, <3>4, <3>6, <3>7 DEF i
  <2> QED
    BY <2>2, <2>3
<1> QED
  BY <1>6, <1>9, <1>10 DEF Laid, Agree

\* Only one set is there when one is removed.
LEMMA Lonely ==
    ASSUME Alone, Places, NEW p \in Threads, Removing(p), NEW e \in Evs, NEW f \in Evs
    PROVE  e = f
BY DEF Alone, Places

LEMMA LaidRmidTotal ==
    ASSUME Alone, Shapes, Owned, Laid, NEW p \in Threads, NEW ix \in Evs, NEW k, RmidTotal(p, ix, k)
    PROVE  Laid'
<1>1. PoolTypes /\ Places /\ pc \in [Threads -> Labels] /\ req \in [Threads -> Reqs]
  BY DEF Laid, Shapes
<1>2. /\ "IPC_RMID" \in Commands /\ sema[ix].alloc /\ mtx[ix] = NoThread
      /\ semtot' = semtot - sema[ix].nsems /\ pc' = [pc EXCEPT ![p] = "rmid_shift"]
      /\ req' = [req EXCEPT ![p] = [NoReq EXCEPT !.ix = ix, !.k = k]]
      /\ UNCHANGED <<sema, sem, ledger>>
  BY DEF RmidTotal, Valid, MtxLock, Goto, history
<1>3. \A e \in Evs : e = ix
  BY <1>2 DEF Alone
<1>4. Top(ix) <= semtot
  <2>1. ASSUME NEW q \in Threads, Removing(q), req[q].ix = ix PROVE FALSE
    <3>1. Inside(q) /\ Place(q)
      BY <2>1 DEF Inside, Removing, Owned
    <3>2. mtx[ix] = q
      BY <2>1, <3>1 DEF Place
    <3> QED
      BY <1>2, <3>2, EventAssumption
  <2> QED
    BY <1>1, <1>2, <2>1 DEF Places
<1>5. PoolTypes'
  <2>1. /\ sema[ix].nsems \in 0 .. SEMMNS /\ sema[ix].base \in 0 .. SEMMNS /\ semtot \in 0 .. SEMMNS
        /\ SEMMNS \in Nat
    BY <1>1, LimitAssumption DEF PoolTypes
  <2>2. semtot' \in 0 .. SEMMNS
    BY <1>2, <1>4, <2>1 DEF Top
  <2> QED
    BY <1>1, <1>2, <2>2 DEF PoolTypes
<1>6. Removing(p)' /\ req'[p].ix = ix
  <2>1. pc'[p] = "rmid_shift"
    BY <1>1, <1>2
  <2>2. [NoReq EXCEPT !.ix = ix, !.k = k].ix = ix
    BY NoReqIs DEF Reqs
  <2> QED
    BY <1>1, <1>2, <2>1, <2>2 DEF Removing
<1>7. Places'
  <2>1. \A e \in Evs : sema'[e].alloc => Top(e)' <= SEMMNS
    BY <1>1, <1>2 DEF Places, Top
  <2> QED
    BY <1>2, <1>3, <1>6, <2>1 DEF Places
<1>8. Agree'
  BY <1>6 DEF Agree, Settled, Removing
<1> QED
  BY <1>5, <1>7, <1>8 DEF Laid

LEMMA LaidRmidShift ==
    ASSUME Alone, Shapes, Laid, NEW p \in Threads, RmidShift(p)
    PROVE  Laid'
<1> DEFINE s == sema[req[p].ix]
<1>1. PoolTypes /\ Places /\ pc \in [Threads -> Labels] /\ sem \in [Pool -> Cells]
  BY DEF Laid, Shapes, PoolTypes
<1>2. /\ pc[p] = "rmid_shift" /\ pc' = [pc EXCEPT ![p] = "rmid_bases"]
      /\ UNCHANGED <<sema, semtot, req, ledger>>
      /\ sem' = [i \in Pool |-> IF i \in s.base..(semtot - 1) /\ i + s.nsems \in Pool
                                THEN sem[i + s.nsems] ELSE sem[i]]
  BY DEF RmidShift, Goto, history
<1> HIDE DEF s
<1>3. sem' \in [Pool -> Cells]
  BY <1>1, <1>2
<1>4. PoolTypes'
  BY <1>1, <1>2, <1>3 DEF PoolTypes
<1>5. pc'[p] = "rmid_bases" /\ \A q \in Threads : Removing(q)' <=> Removing(q)
  BY <1>1, <1>2 DEF Removing
<1>6. Calm
  BY <1>2, <1>5 DEF Calm
<1>7. Places'
  BY <1>1, <1>2, <1>6, PlacesCalm
<1>8. Agree'
  BY <1>5 DEF Agree, Settled
<1> QED
  BY <1>4, <1>7, <1>8 DEF Laid

LEMMA LaidRmidBases ==
    ASSUME Alone, Shapes, Laid, NEW p \in Threads, RmidBases(p)
    PROVE  Laid'
<1> DEFINE ix == req[p].ix
           s == [sema[ix] EXCEPT !.alloc = FALSE]
<1>1. /\ PoolTypes /\ Places /\ pc \in [Threads -> Labels] /\ sema \in [Evs -> Sets]
      /\ ix \in Evs
  BY DEF Laid, Shapes, Reqs
<1>2. /\ pc[p] = "rmid_bases" /\ pc' = [pc EXCEPT ![p] = "rmid_clear"]
      /\ UNCHANGED <<sem, semtot, req, ledger>> /\ sema'[ix] = s
  BY <1>1 DEF RmidBases, Goto, history
<1>3. \A e \in Evs : e = ix
  BY <1>1, <1>2, Lonely DEF Removing
<1>4. sema[ix] \in Sets /\ s.alloc = FALSE /\ s.nsems = sema[ix].nsems /\ s.base = sema[ix].base
  <2>1. sema[ix] \in Sets
    BY <1>1
  <2> QED
    BY <2>1 DEF Sets
<1> HIDE DEF ix, s
<1>5. PoolTypes'
  <2>1. sema[ix].nsems \in 0 .. SEMMNS /\ sema[ix].base \in 0 .. SEMMNS
    BY <1>1 DEF PoolTypes
  <2>2. \A e \in Evs : sema'[e].nsems \in 0 .. SEMMNS /\ sema'[e].base \in 0 .. SEMMNS
    BY <1>2, <1>3, <1>4, <2>1
  <2> QED
    BY <1>1, <1>2, <2>2 DEF PoolTypes
<1>6. \A e \in Evs : ~sema'[e].alloc
  BY <1>2, <1>3, <1>4
<1>7. \A q \in Threads : Removing(q)' => Removing(q)
  BY <1>1, <1>2 DEF Removing
<1>8. Places'
  BY <1>1, <1>6, <1>7 DEF Places
<1>9. Agree'
  BY <1>6 DEF Agree, Settled
<1> QED
  BY <1>5, <1>8, <1>9 DEF Laid

\* A process in no IPC_RMID moves, and the pool stays.
LEMMA LaidStill ==
    ASSUME Laid, NEW p \in Threads, ~Removing(p), ~Removing(p)',
           \A q \in Threads : q # p => pc'[q] = pc[q] /\ req'[q] = req[q],
           UNCHANGED <<sema, sem, semtot, ledger>>
    PROVE  Laid'
<1>1. Calm
  BY CalmIf
<1>2. sem' \in [Pool -> Cells] /\ \A i \in Pool : sem'[i].val = sem[i].val
  BY DEF Laid, PoolTypes
<1> QED
  BY <1>1, <1>2, AgreeSame DEF Laid

LEMMA LaidStep ==
    ASSUME Alone, Shapes, Making, Owned, Laid, [Next]_vars
    PROVE  Laid'
<1>0. pc \in [Threads -> Labels] /\ req \in [Threads -> Reqs]
  BY DEF Shapes
<1>2. \* a process goes from one call or sleep to another label
      ASSUME NEW p \in Threads, NEW r, pc[p] \notin {"rmid_shift", "rmid_bases"},
             UNCHANGED <<sema, sem, semtot, ledger>>,
             req' = req \/ req' = [req EXCEPT ![p] = r],
             \E label \in {"idle", "semop", "semget", "setall", "dead"} : pc' = [pc EXCEPT ![p] = label]
      PROVE  Laid'
  <2>1. ~Removing(p) /\ ~Removing(p)'
    BY <1>0, <1>2 DEF Removing
  <2>2. \A q \in Threads : q # p => pc'[q] = pc[q] /\ req'[q] = req[q]
    BY <1>0, <1>2
  <2> QED
    BY <1>2, <2>1, <2>2, LaidStill
<1>3. ASSUME NEW p \in Threads, NEW ix \in Evs, NEW k \in 1 .. inst[ix], NEW sops \in Vectors,
             Semop(p, ix, k, sops)
      PROVE  Laid'
  <2>1. /\ pc[p] = "idle" /\ UNCHANGED <<sema, sem, semtot, ledger>>
        /\ pc' = [pc EXCEPT ![p] = "semop"]
        /\ \E r : req' = [req EXCEPT ![p] = r]
    BY <1>3 DEF Semop, Goto, semVars, history
  <2> QED
    BY <1>2, <2>1
<1>4. ASSUME NEW p \in Threads, NEW ix \in Evs, NEW k \in 1 .. inst[ix], SetAllRead(p, ix, k)
      PROVE  Laid'
  <2>1. /\ pc[p] = "idle" /\ UNCHANGED <<sema, sem, semtot, ledger>>
        /\ pc' = [pc EXCEPT ![p] = "setall"]
        /\ \E r : req' = [req EXCEPT ![p] = r]
    BY <1>4 DEF SetAllRead, Goto, semVars, history
  <2> QED
    BY <1>2, <2>1
<1>5. ASSUME NEW p \in Threads, SemopBody(p) \/ SemopAwake(p) PROVE Laid'
  <2>1. pc[p] \in {"semop", "asleep"}
    BY <1>5 DEF SemopBody, SemopAwake
  <2>2. CASE Attempt(p) /\ sema[req[p].ix].alloc
    BY <2>1, <2>2, LaidAttempt DEF Removing
  <2>3. CASE Fail(p)
    <3>1. /\ UNCHANGED <<sema, sem, semtot, ledger>> /\ req' = req
          /\ pc' = [pc EXCEPT ![p] = "idle"]
      BY <2>3 DEF Fail, Goto, semVars, history
    <3> QED
      BY <1>2, <2>1, <3>1
  <2> QED
    BY <1>5, <2>2, <2>3 DEF SemopBody, SemopAwake, Valid
<1>6. ASSUME NEW p \in Threads, RmidClear(p) PROVE Laid'
  <2>1. /\ pc[p] = "rmid_clear" /\ UNCHANGED <<sema, sem, semtot, ledger>> /\ req' = req
        /\ pc' = [pc EXCEPT ![p] = "idle"]
    BY <1>6 DEF RmidClear, Goto
  <2> QED
    BY <1>2, <2>1
<1>7. ASSUME NEW p \in Threads, Exit(p) PROVE Laid'
  <2>1. /\ pc[p] = "idle" /\ UNCHANGED <<sema, sem, semtot, ledger>> /\ req' = req
        /\ pc' = [pc EXCEPT ![p] = "dead"]
    BY <1>7 DEF Exit, Goto, history
  <2> QED
    BY <1>2, <2>1
<1>8. ASSUME NEW p \in Threads, Semget(p) PROVE Laid'
  BY <1>8, LaidSemget
<1>9. ASSUME NEW p \in Threads, NEW ix \in Evs, NEW k \in 1 .. inst[ix],
             RmidTotal(p, ix, k) \/ \E num \in Pool, val \in Values : SetVal(p, ix, k, num, val)
      PROVE  Laid'
  BY <1>9, LaidRmidTotal, LaidSetVal
<1>10. ASSUME NEW p \in Threads,
              \/ SleepStep(p) \/ RmidShift(p) \/ RmidBases(p)
              \/ \E array \in Arrays : SetAllWrite(p, array)
       PROVE  Laid'
  BY <1>10, LaidSleep, LaidRmidShift, LaidRmidBases, LaidSetAll
<1>11. ASSUME NEW p \in Threads, NEW ix \in Evs, NEW n \in Sizes, SemgetAlloc(p, ix, n) PROVE Laid'
  <2>1. /\ pc[p] = "idle" /\ UNCHANGED <<sema, sem, semtot, ledger>>
        /\ pc' = [pc EXCEPT ![p] = "semget"]
        /\ \E r : req' = [req EXCEPT ![p] = r]
    BY <1>11 DEF SemgetAlloc, Goto, semVars, history
  <2> QED
    BY <1>2, <2>1
<1>12. ASSUME UNCHANGED <<sema, sem, semtot, pc, req, ledger>> PROVE Laid'
  <2>1. Calm
    BY <1>12 DEF Calm, Removing
  <2>2. sem' \in [Pool -> Cells] /\ \A i \in Pool : sem'[i].val = sem[i].val
    BY <1>12 DEF Laid, PoolTypes
  <2> QED
    BY <1>12, <2>1, <2>2, AgreeSame DEF Laid
<1>13. ASSUME NEW p \in Threads, Astray(p) PROVE Laid'
  BY <1>12, <1>13 DEF Astray, semVars, history
<1>1. ASSUME UNCHANGED vars PROVE Laid'
  BY <1>1, <1>12 DEF vars, semVars, history
<1> QED
  BY <1>1, <1>3, <1>4, <1>5, <1>6, <1>7, <1>8, <1>9, <1>10, <1>11, <1>13 DEF Next

LEMMA LaidInit == Init => Owned /\ Laid
<1> SUFFICES ASSUME Init PROVE Owned /\ Laid
  OBVIOUS
<1>1. (CHOOSE e \in Evs : TRUE) \in Evs
  BY EventAssumption
<1>2. EvTypeOK
  BY <1>1 DEF Init, EvInit, EvTypeOK
<1>3. \A p \in Threads : pc[p] = "idle" /\ spc[p] = "out"
  BY DEF Init, EvInit
<1>4. Owned
  BY <1>2, <1>3 DEF Owned, Place, Inside
<1>5. \A e \in Evs : sema[e] = [alloc |-> FALSE, seq |-> 0, nsems |-> 0, base |-> 0]
  BY DEF Init
<1>6. PoolTypes
  <2>1. [val |-> 0, ncnt |-> 0, zcnt |-> 0] \in Cells
    BY LimitAssumption DEF Cells
  <2>2. sem \in [Pool -> Cells]
    BY <2>1 DEF Init
  <2>3. 0 \in 0 .. SEMMNS /\ semtot = 0
    BY LimitAssumption DEF Init
  <2>4. ledger \in [Evs -> [Pool -> Int]]
    <3>1. [i \in Pool |-> 0] \in [Pool -> Int]
      OBVIOUS
    <3> QED
      BY <3>1 DEF Init
  <2> QED
    BY <1>5, <2>2, <2>3, <2>4 DEF PoolTypes
<1>7. Places /\ Agree
  BY <1>3, <1>5 DEF Places, Agree, Removing, Settled
<1> QED
  BY <1>4, <1>6, <1>7 DEF Laid

-----------------------------------------------------------------------------
(* semu_list, and the whole ledger                                          *)

\* No more structures are in use than there are.
Tally == semu \in Seq(Threads) /\ Len(semu) <= SEMMNU /\ calls \in 0 .. MaxCalls

LEMMA UnlinkIs ==
    ASSUME NEW S, NEW list \in Seq(S), NEW i \in 1 .. Len(list)
    PROVE  Unlink(list, i) \in Seq(S) /\ Len(Unlink(list, i)) = Len(list) - 1
<1> DEFINE L == Len(list)
           u == [j \in 1 .. (L - 1) |-> list[IF j < i THEN j ELSE j + 1]]
<1>1. L \in Nat /\ i \in Int /\ 1 <= i /\ i <= L
  OBVIOUS
<1>2. ASSUME NEW j \in 1 .. L - 1 PROVE (IF j < i THEN j ELSE j + 1) \in 1 .. L
  BY <1>1
<1>3. u \in [1 .. L - 1 -> S]
  BY <1>2
<1>4. L - 1 \in Nat
  BY <1>1
<1>5. u \in Seq(S) /\ Len(u) = L - 1
  <2> HIDE DEF u, L
  <2> QED
    BY <1>3, <1>4
<1> QED
  BY <1>5 DEF Unlink

LEMMA SemuAllocIs ==
    ASSUME Tally, NEW p \in Threads
    PROVE  SemuAlloc(p).list \in Seq(Threads) /\ Len(SemuAlloc(p).list) <= SEMMNU
<1> DEFINE empty == {i \in 1..Len(semu) : undo[semu[i]] = <<>>}
           first == CHOOSE i \in empty : \A j \in empty : i <= j
           less == Unlink(semu, first)
<1>1. semu \in Seq(Threads) /\ Len(semu) \in Nat /\ Len(semu) <= SEMMNU /\ SEMMNU \in Nat
  BY LimitAssumption DEF Tally
<1>2. <<p>> \in Seq(Threads) /\ Len(<<p>>) = 1
  OBVIOUS
<1>3. \/ SemuAlloc(p).list = semu
      \/ Len(semu) < SEMMNU /\ SemuAlloc(p).list = <<p>> \o semu
      \/ empty # {} /\ SemuAlloc(p).list = <<p>> \o less
  BY DEF SemuAlloc
<1>4. CASE Len(semu) < SEMMNU /\ SemuAlloc(p).list = <<p>> \o semu
  BY <1>1, <1>2, <1>4, ConcatProperties
<1>5. CASE empty # {} /\ SemuAlloc(p).list = <<p>> \o less
  <2>1. empty \subseteq Nat
    BY <1>1
  <2>2. first \in 1 .. Len(semu)
    BY <1>5, <2>1, Smallest
  <2> HIDE DEF empty, first
  <2>3. less \in Seq(Threads) /\ Len(less) = Len(semu) - 1
    BY <1>1, <2>2, UnlinkIs
  <2> HIDE DEF less
  <2> QED
    BY <1>1, <1>2, <1>5, <2>3, ConcatProperties
<1> QED
  BY <1>1, <1>3, <1>4, <1>5

LEMMA TallyStep ==
    ASSUME Tally, [Next]_vars
    PROVE  Tally'
<1>1. semu \in Seq(Threads) /\ Len(semu) <= SEMMNU /\ calls \in 0 .. MaxCalls /\ SEMMNU \in Nat /\ MaxCalls \in Nat
  BY LimitAssumption DEF Tally
<1>2. (calls' = calls \/ Call) /\ \/ semu' = semu
                                  \/ \E p \in Threads : SemopBody(p) \/ SemopAwake(p)
                                  \/ \E p \in Threads : Exit(p)
  <2>1. CASE UNCHANGED vars
    BY <2>1 DEF vars, semVars
  <2>2. ASSUME NEW p \in Threads,
               \/ \E ix \in Evs, n \in Sizes : SemgetAlloc(p, ix, n)
               \/ Semget(p) \/ SleepStep(p) \/ RmidShift(p) \/ RmidBases(p) \/ RmidClear(p)
        PROVE  calls' = calls /\ semu' = semu
    BY <2>2 DEF SemgetAlloc, Semget, SleepStep, RmidShift, RmidBases, RmidClear, semVars
  <2>3. ASSUME NEW p \in Threads, NEW ix \in Evs, NEW k \in 1 .. inst[ix],
               \/ \E sops \in Vectors : Semop(p, ix, k, sops)
               \/ \E num \in Pool, val \in Values : SetVal(p, ix, k, num, val)
               \/ SetAllRead(p, ix, k) \/ RmidTotal(p, ix, k)
        PROVE  Call /\ semu' = semu
    BY <2>3 DEF Semop, SetVal, SetAllRead, RmidTotal, semVars
  <2>4. ASSUME NEW p \in Threads, NEW array \in Arrays, SetAllWrite(p, array)
        PROVE  calls' = calls /\ semu' = semu
    BY <2>4 DEF SetAllWrite, semVars
  <2>5. ASSUME NEW p \in Threads, SemopBody(p) \/ SemopAwake(p) \/ Exit(p)
        PROVE  calls' = calls
    BY <2>5 DEF SemopBody, SemopAwake, Exit
  <2>6. ASSUME NEW p \in Threads, Astray(p) PROVE (calls' = calls \/ Call) /\ semu' = semu
    BY <2>6 DEF Astray, semVars
  <2> QED
    BY <2>1, <2>2, <2>3, <2>4, <2>5, <2>6 DEF Next
<1>3. calls' \in 0 .. MaxCalls
  BY <1>1, <1>2 DEF Call
<1>4. ASSUME NEW p \in Threads, SemopBody(p) \/ SemopAwake(p)
      PROVE  semu' \in Seq(Threads) /\ Len(semu') <= SEMMNU
  <2>1. Attempt(p) \/ Fail(p)
    BY <1>4 DEF SemopBody, SemopAwake
  <2>2. semu' = semu \/ semu' = SemuAlloc(p).list
    BY <2>1 DEF Attempt, Fail, SemopDone, SemopStuck, semVars
  <2> QED
    BY <1>1, <2>2, SemuAllocIs
<1>5. ASSUME NEW p \in Threads, Exit(p)
      PROVE  semu' \in Seq(Threads) /\ Len(semu') <= SEMMNU
  <2> DEFINE mine == {i \in 1..Len(semu) : semu[i] = p}
             i == CHOOSE j \in mine : TRUE
  <2>1. semu' = semu \/ (mine # {} /\ semu' = Unlink(semu, i))
    BY <1>5 DEF Exit
  <2>2. mine # {} => i \in 1 .. Len(semu)
    OBVIOUS
  <2> HIDE DEF mine, i
  <2> QED
    BY <1>1, <2>1, <2>2, UnlinkIs
<1> QED
  BY <1>1, <1>2, <1>3, <1>4, <1>5 DEF Tally

\* "This ensures that from the perspective of other tasks, a set of requests is
\* atomic (never partially satisfied)" (sysv_sem.c:1046-1047), for any number of
\* processes, sets, vectors and calls and any limits: the values of the pool are
\* those that the calls that succeeded made, and the state stays within its types.
\* The pool that IPC_RMID closes up is guarded by no mutex of the other sets, and
\* the property is false where one can be removed beside another.
THEOREM LedgerHolds ==
    ASSUME Alone
    PROVE  Spec => []Ledger
<1> DEFINE Inv == Shapes /\ Making /\ Owned /\ Laid /\ Tally
<1>1. Init => Inv
  <2>1. Init => Tally
    <3>1. <<>> \in Seq(Threads) /\ Len(<<>>) = 0
      OBVIOUS
    <3> QED
      BY <3>1, LimitAssumption DEF Init, Tally
  <2> QED
    BY <2>1, ShapesInit, MakingInit, LaidInit
<1>2. Inv /\ [Next]_vars => Inv'
  BY ShapesStep, MakingStep, OwnedStep, LaidStep, TallyStep
<1>3. Inv => Ledger
  <2> SUFFICES ASSUME Inv PROVE Ledger
    OBVIOUS
  <2>1. PoolTypes /\ Places /\ Agree /\ EvTypeOK /\ sema \in [Evs -> Sets] /\ undo \in [Threads -> Undos]
    BY DEF Laid, Owned, Shapes
  <2>2. \A e \in Evs : sema[e] \in
          [alloc : BOOLEAN, seq : 0..(SeqMod - 1), nsems : 0..SEMMNS, base : 0..SEMMNS]
    BY <2>1 DEF Sets, PoolTypes
  <2>3. \A p \in Threads : Len(undo[p]) <= SEMUME
    BY <2>1 DEF Undos, Sound
  <2>4. TypeOK
    BY <2>1, <2>2, <2>3 DEF TypeOK, PoolTypes, Cells, Tally
  <2>5. \A e \in Evs : Settled(e) => \A n \in 0..(sema[e].nsems - 1) : Vals(e)[n] = ledger[e][n]
    BY <2>1 DEF Agree, Vals
  <2> QED
    BY <2>4, <2>5 DEF Ledger
<1> QED
  BY <1>1, <1>2, <1>3, PTL DEF Spec

-----------------------------------------------------------------------------
(* The wake-ups of semop                                                    *)

Counters == {"ncnt", "zcnt"}

\* The processes that wait for a semaphore can still be counted.
CountsFit == \A i \in Pool : \A c \in Counters : sem[i][c] < CountMod - 1

\* A semaphore that somebody waits for is still known to be one.
Kept == \A i \in Pool : \A c \in Counters : sem[i][c] > 0 => sem'[i][c] > 0

\* Induction up to a number
LEMMA UpTo ==
    ASSUME NEW N \in Nat, NEW G, 0 \in G, \A i \in 1 .. N : i - 1 \in G => i \in G
    PROVE  \A i \in 0 .. N : i \in G
<1> DEFINE S == {i \in Nat : i <= N => i \in G}
<1>1. 0 \in S
  OBVIOUS
<1>2. ASSUME NEW i \in Nat, i \in S PROVE i + 1 \in S
  <2>1. i + 1 <= N => i + 1 \in 1 .. N /\ (i + 1) - 1 = i /\ i \in G
    BY <1>2
  <2> QED
    BY <2>1
<1>3. Nat \subseteq S
  <2> HIDE DEF S
  <2> QED
    BY <1>1, <1>2, Induction
<1> QED
  BY <1>3

\* The values of one semaphore along a vector
Along(x, N, n, sops) ==
    /\ \A i \in 0 .. N : x[i] \in Int
    /\ \A i \in 1 .. N : /\ sops[i].op \in Int
                         /\ x[i] = IF sops[i].num = n THEN x[i - 1] + sops[i].op ELSE x[i - 1]

\* ... as semop comes to them
Traces(x, v, n, sops) ==
    /\ Along(x, Len(sops), n, sops) /\ x[0] = v[n]
    /\ \A i \in 0 .. Len(sops) : x[i] = Applied(v, sops, 1)[i][n]

LEMMA AlongIs ==
    ASSUME NEW sops \in Seq(Sops), NEW D, NEW v \in [D -> Int], NEW n \in D
    PROVE  \E x : Traces(x, v, n, sops)
<1> DEFINE f == Applied(v, sops, 1)
           N == Len(sops)
           sign == 1
<1>1. Sums(f, D, v, sops, sign) /\ sign \in Int /\ N \in Nat
  <2>1. f = Applied(v, sops, sign) /\ sign \in Int
    OBVIOUS
  <2> HIDE DEF f, sign
  <2>2. Sums(f, D, v, sops, sign)
    BY <2>1, AppliedIs
  <2> QED
    BY <2>1, <2>2
<1> DEFINE x == [i \in 0 .. N |-> f[i][n]]
<1>2. \A i \in 0 .. N : x[i] = f[i][n]
  OBVIOUS
<1> HIDE DEF f, x
<1>3. ASSUME NEW i \in 0 .. N PROVE x[i] \in Int
  <2>1. f[i] \in [D -> Int]
    BY <1>1, <1>3 DEF Sums
  <2> QED
    BY <1>2, <1>3, <2>1
<1>4. x[0] = v[n]
  BY <1>1, <1>2 DEF Sums
<1>5. ASSUME NEW i \in 1 .. N
      PROVE  /\ sops[i].op \in Int
             /\ x[i] = IF sops[i].num = n THEN x[i - 1] + sops[i].op ELSE x[i - 1]
  <2>1. i \in 0 .. N /\ i - 1 \in 0 .. N
    BY <1>1
  <2>2. sops[i] \in Sops
    BY ElementOfSeq
  <2>3. sops[i].op \in Int
    BY <2>2 DEF Sops
  <2>4. Turn(f[i - 1], f[i], n, sops[i], sign)
    <3> HIDE DEF sign
    <3> QED
      BY <1>1, SumsStep
  <2>5. sign * sops[i].op = sops[i].op
    BY <2>3
  <2> HIDE DEF sign
  <2>6. f[i][n] = IF sops[i].num = n THEN f[i - 1][n] + sops[i].op ELSE f[i - 1][n]
    BY <2>4, <2>5 DEF Turn
  <2> QED
    BY <1>2, <2>1, <2>3, <2>6
<1>6. Along(x, N, n, sops)
  BY <1>3, <1>5 DEF Along
<1>7. Traces(x, v, n, sops)
  BY <1>2, <1>4, <1>6 DEF Traces, f
<1> QED
  BY <1>7

\* The operations add the same to any value.
LEMMA AlongShift ==
    ASSUME NEW N \in Nat, NEW n, NEW sops, NEW x, NEW y, Along(x, N, n, sops), Along(y, N, n, sops)
    PROVE  \A i \in 0 .. N : y[i] - y[0] = x[i] - x[0]
<1> DEFINE G == {i \in 0 .. N : y[i] - y[0] = x[i] - x[0]}
<1>1. 0 \in 0 .. N
  OBVIOUS
<1>2. 0 \in G
  BY <1>1 DEF Along
<1>3. ASSUME NEW i \in 1 .. N, i - 1 \in G PROVE i \in G
  <2>1. i \in 0 .. N /\ i - 1 \in 0 .. N
    OBVIOUS
  <2>2. x[0] \in Int /\ y[0] \in Int /\ x[i - 1] \in Int /\ y[i - 1] \in Int /\ sops[i].op \in Int
    BY <1>1, <2>1 DEF Along
  <2>3. /\ x[i] = IF sops[i].num = n THEN x[i - 1] + sops[i].op ELSE x[i - 1]
        /\ y[i] = IF sops[i].num = n THEN y[i - 1] + sops[i].op ELSE y[i - 1]
    BY DEF Along
  <2>4. y[i - 1] - y[0] = x[i - 1] - x[0]
    BY <1>3
  <2>5. y[i] - y[0] = x[i] - x[0]
    BY <2>2, <2>3, <2>4
  <2> QED
    BY <2>1, <2>5
<1> HIDE DEF G
<1>4. \A i \in 0 .. N : i \in G
  BY <1>2, <1>3, UpTo
<1> QED
  BY <1>4 DEF G

\* Without a take of it a value does not fall, ...
LEMMA AlongUp ==
    ASSUME NEW N \in Nat, NEW n, NEW sops, NEW x, Along(x, N, n, sops), NEW m \in 0 .. N,
           \A i \in 1 .. m : sops[i].num = n => sops[i].op >= 0
    PROVE  x[m] >= x[0]
<1> DEFINE G == {i \in 0 .. m : x[i] >= x[0]}
<1>1. 0 \in 0 .. N /\ 0 \in 0 .. m /\ m \in Nat
  OBVIOUS
<1>2. 0 \in G
  BY <1>1 DEF Along
<1>3. ASSUME NEW i \in 1 .. m, i - 1 \in G PROVE i \in G
  <2>1. i \in 1 .. N /\ i \in 0 .. m /\ i - 1 \in 0 .. N
    OBVIOUS
  <2>2. x[0] \in Int /\ x[i - 1] \in Int /\ sops[i].op \in Int
    BY <1>1, <2>1 DEF Along
  <2>3. x[i] = IF sops[i].num = n THEN x[i - 1] + sops[i].op ELSE x[i - 1]
    BY <2>1 DEF Along
  <2>4. x[i - 1] >= x[0] /\ (sops[i].num = n => sops[i].op >= 0)
    BY <1>3
  <2>5. x[i] >= x[0]
    BY <2>2, <2>3, <2>4
  <2> QED
    BY <2>1, <2>5
<1> HIDE DEF G
<1>4. \A i \in 0 .. m : i \in G
  BY <1>1, <1>2, <1>3, UpTo
<1>5. m \in G
  BY <1>1, <1>4
<1> QED
  BY <1>5 DEF G

\* ... without a give it does not rise, ...
LEMMA AlongDown ==
    ASSUME NEW N \in Nat, NEW n, NEW sops, NEW x, Along(x, N, n, sops), x[N] > x[0]
    PROVE  \E i \in 1 .. N : sops[i].num = n /\ sops[i].op > 0
<1> SUFFICES ASSUME \A i \in 1 .. N : ~(sops[i].num = n /\ sops[i].op > 0) PROVE FALSE
  OBVIOUS
<1> DEFINE G == {i \in 0 .. N : x[i] <= x[0]}
<1>1. 0 \in 0 .. N /\ N \in 0 .. N
  OBVIOUS
<1>2. 0 \in G
  BY <1>1 DEF Along
<1>3. ASSUME NEW i \in 1 .. N, i - 1 \in G PROVE i \in G
  <2>1. i \in 0 .. N /\ i - 1 \in 0 .. N
    OBVIOUS
  <2>2. x[0] \in Int /\ x[i - 1] \in Int /\ sops[i].op \in Int
    BY <1>1, <2>1 DEF Along
  <2>3. x[i] = IF sops[i].num = n THEN x[i - 1] + sops[i].op ELSE x[i - 1]
    BY DEF Along
  <2>4. x[i - 1] <= x[0] /\ ~(sops[i].num = n /\ sops[i].op > 0)
    BY <1>3
  <2>5. x[i] <= x[0]
    BY <2>2, <2>3, <2>4
  <2> QED
    BY <2>1, <2>5
<1> HIDE DEF G
<1>4. \A i \in 0 .. N : i \in G
  BY <1>2, <1>3, UpTo
<1>5. x[N] <= x[0]
  BY <1>1, <1>4 DEF G
<1>6. x[0] \in Int /\ x[N] \in Int
  BY <1>1 DEF Along
<1> QED
  BY <1>5, <1>6

\* ... and it comes to zero by a take that leaves zero.
LEMMA AlongZero ==
    ASSUME NEW N \in Nat, NEW n, NEW sops, NEW x, Along(x, N, n, sops), x[0] > 0, x[N] = 0,
           \A i \in 1 .. N : sops[i].num = n => CanDo(x[i - 1], sops[i].op)
    PROVE  \E i \in 1 .. N : sops[i].num = n /\ sops[i].op < 0 /\ x[i] = 0
<1> SUFFICES ASSUME \A i \in 1 .. N : ~(sops[i].num = n /\ sops[i].op < 0 /\ x[i] = 0) PROVE FALSE
  OBVIOUS
<1> DEFINE G == {i \in 0 .. N : x[i] > 0}
<1>1. 0 \in 0 .. N /\ N \in 0 .. N
  OBVIOUS
<1>2. 0 \in G
  BY <1>1
<1>3. ASSUME NEW i \in 1 .. N, i - 1 \in G PROVE i \in G
  <2>1. i \in 0 .. N /\ i - 1 \in 0 .. N
    OBVIOUS
  <2> DEFINE d == sops[i].op
  <2>2. x[i - 1] \in Int /\ x[i] \in Int /\ d \in Int /\ x[i - 1] > 0
    BY <1>3, <2>1 DEF Along
  <2>3. x[i] = IF sops[i].num = n THEN x[i - 1] + d ELSE x[i - 1]
    BY DEF Along
  <2>4. /\ sops[i].num = n => CanDo(x[i - 1], d)
        /\ ~(sops[i].num = n /\ d < 0 /\ x[i] = 0)
    BY <1>3
  <2> HIDE DEF d
  <2>5. x[i] > 0
    BY <2>2, <2>3, <2>4, LimitAssumption DEF CanDo
  <2> QED
    BY <2>1, <2>5
<1> HIDE DEF G
<1>4. \A i \in 0 .. N : i \in G
  BY <1>2, <1>3, UpTo
<1> QED
  BY <1>1, <1>4 DEF G

\* What the operation is that stops a vector
LEMMA StopMeans ==
    ASSUME NEW vals, NEW sops \in Seq(Sops)
    PROVE  LET can(i) == CanDo(Applied(vals, sops, 1)[i - 1][sops[i].num], sops[i].op) IN
           /\ Stop(vals, sops) \in Nat
           /\ Stop(vals, sops) > Len(sops) => \A i \in 1 .. Len(sops) : can(i)
           /\ ~(Stop(vals, sops) > Len(sops)) =>
                Stop(vals, sops) \in 1 .. Len(sops) /\ ~can(Stop(vals, sops))
<1> DEFINE can(i) == CanDo(Applied(vals, sops, 1)[i - 1][sops[i].num], sops[i].op)
           N == Len(sops)
           stuck == {i \in 1 .. N : ~can(i)}
<1>1. Stop(vals, sops) = IF stuck = {} THEN N + 1 ELSE CHOOSE i \in stuck : \A j \in stuck : i <= j
  BY DEF Stop
<1>2. N \in Nat /\ stuck \subseteq 1 .. N /\ stuck \subseteq Nat
  OBVIOUS
<1>3. \A i \in 1 .. N : i \in stuck <=> ~can(i)
  OBVIOUS
<1> HIDE DEF stuck, can, N
<1>4. stuck = {} => Stop(vals, sops) \in Nat /\ Stop(vals, sops) > N /\ \A i \in 1 .. N : can(i)
  BY <1>1, <1>2, <1>3
<1>5. ASSUME stuck # {}
      PROVE  /\ Stop(vals, sops) \in 1 .. N /\ ~can(Stop(vals, sops))
             /\ Stop(vals, sops) \in Nat /\ ~(Stop(vals, sops) > N)
  <2>1. \E i \in stuck : \A j \in stuck : i <= j
    BY <1>2, <1>5, Smallest
  <2>2. Stop(vals, sops) \in stuck
    BY <1>1, <1>5, <2>1
  <2>3. Stop(vals, sops) \in 1 .. N /\ ~can(Stop(vals, sops))
    BY <1>2, <1>3, <2>2
  <2> QED
    BY <1>2, <2>3
<1>6. /\ Stop(vals, sops) \in Nat
      /\ Stop(vals, sops) > N => \A i \in 1 .. N : can(i)
      /\ ~(Stop(vals, sops) > N) => Stop(vals, sops) \in 1 .. N /\ ~can(Stop(vals, sops))
  BY <1>4, <1>5
<1> QED
  BY <1>6 DEF can, N

\* The counts stay when values are stored ...
LEMMA StoreKeeps ==
    ASSUME PoolTypes, NEW ix, NEW vals, sem' = Store(ix, vals)
    PROVE  Kept /\ \A i \in Pool : sem'[i].ncnt = sem[i].ncnt /\ sem'[i].zcnt = sem[i].zcnt
<1>1. ASSUME NEW i \in Pool PROVE sem'[i].ncnt = sem[i].ncnt /\ sem'[i].zcnt = sem[i].zcnt
  <2> DEFINE k == i - sema[ix].base
  <2>1. sem'[i] = IF k \in DOMAIN vals THEN [sem[i] EXCEPT !.val = vals[k]] ELSE sem[i]
    BY DEF Store
  <2>2. sem[i] \in Cells
    BY DEF PoolTypes
  <2> HIDE DEF k
  <2> QED
    BY <2>1, <2>2 DEF Cells
<1> QED
  BY <1>1 DEF Kept, Counters

\* ... and grow by one when a process goes to sleep.
LEMMA CountGrows ==
    ASSUME PoolTypes, CountsFit, NEW i \in Pool, NEW cnt \in Counters,
           sem' = [sem EXCEPT ![i][cnt] = (@ + 1) % CountMod]
    PROVE  Kept /\ sem'[i][cnt] > 0
<1>1. sem \in [Pool -> Cells] /\ sem[i] \in Cells /\ CountMod \in Nat
  BY LimitAssumption DEF PoolTypes
<1>2. sem[i][cnt] \in Nat /\ sem[i][cnt] + 1 < CountMod
  <2>1. sem[i][cnt] \in Nat
    BY <1>1, LimitAssumption DEF Counters, Cells
  <2>2. sem[i][cnt] < CountMod - 1
    BY DEF CountsFit
  <2> QED
    BY <1>1, <2>1, <2>2
<1>3. (sem[i][cnt] + 1) % CountMod = sem[i][cnt] + 1
  <2>1. sem[i][cnt] + 1 \in Nat
    BY <1>2
  <2> QED
    BY <1>1, <1>2, <2>1, Remainder
<1> DEFINE c == [sem[i] EXCEPT ![cnt] = sem[i][cnt] + 1]
<1>4. sem' = [sem EXCEPT ![i] = c]
  <2>1. sem' = [sem EXCEPT ![i] = [sem[i] EXCEPT ![cnt] = (sem[i][cnt] + 1) % CountMod]]
    OBVIOUS
  <2> QED
    BY <1>3, <2>1
<1>5. sem'[i] = c
  BY <1>1, <1>4
<1>6. c[cnt] = sem[i][cnt] + 1 /\ \A d \in Counters : d # cnt => c[d] = sem[i][d]
  BY <1>1 DEF Cells, Counters
<1> HIDE DEF c
<1>7. sem'[i][cnt] > 0
  <2> DEFINE m == sem[i][cnt]
  <2>1. m \in Nat /\ sem'[i][cnt] = m + 1
    BY <1>2, <1>5, <1>6
  <2> HIDE DEF m
  <2>2. m + 1 > 0
    BY <2>1
  <2> QED
    BY <2>1, <2>2
<1>8. ASSUME NEW j \in Pool, NEW d \in Counters, sem[j][d] > 0 PROVE sem'[j][d] > 0
  <2>1. CASE j # i
    BY <1>1, <1>4, <1>8, <2>1
  <2>2. CASE j = i /\ d # cnt
    BY <1>5, <1>6, <1>8, <2>2
  <2>3. CASE j = i /\ d = cnt
    BY <1>7, <2>3
  <2> QED
    BY <2>1, <2>2, <2>3
<1> QED
  BY <1>7, <1>8 DEF Kept

\* The values of a set stay, ...
Still(e) ==
    \A n \in 0 .. sema[e].nsems - 1 : sem'[sema[e].base + n].val = sem[sema[e].base + n].val

\* ... or a vector is done on it and wakes those it may be for.
Stirred(e) ==
    \E sops \in Seq(Sops) :
        /\ Stop(Vals(e), sops) > Len(sops)
        /\ \A n \in 0 .. sema[e].nsems - 1 :
             sem'[sema[e].base + n].val = Applied(Vals(e), sops, 1)[Len(sops)][n]
        /\ DoWakeup(e, sops) => e \in posted'

\* A store into one set leaves the others.
LEMMA StillOthers ==
    ASSUME PoolTypes, Places, NEW ix \in Evs, sema[ix].alloc, NEW W, NEW vals, Replaced(ix, W, vals),
           NEW e \in Evs, sema[e].alloc, e # ix
    PROVE  Still(e)
<1> SUFFICES ASSUME NEW n \in 0 .. sema[e].nsems - 1
             PROVE  sem'[sema[e].base + n].val = sem[sema[e].base + n].val
  BY DEF Still
<1>1. sema[e].base + n \in Pool
  BY InPool
<1>2. (sema[e].base + n) - sema[ix].base \notin 0 .. sema[ix].nsems - 1
  BY OneSet
<1>3. W \subseteq 0 .. sema[ix].nsems - 1
  BY DEF Replaced
<1>4. (sema[e].base + n) - sema[ix].base \notin W
  BY <1>2, <1>3
<1> QED
  BY <1>1, <1>4 DEF Replaced

\* The numbers of a vector are semaphores of the set.
InSet(sops, nsems) == \A i \in 1 .. Len(sops) : sops[i].num < nsems

\* A process waits for a semaphore of its set, and is counted there.
Waits(p) ==
    LET s == sema[req[p].ix] IN
    /\ InSet(req[p].sops, s.nsems)
    /\ \E n \in 0 .. s.nsems - 1 : req[p].num = s.base + n
    /\ sem[req[p].num][req[p].cnt] > 0

\* A vector that is done, or taken back for want of undo entries
LEMMA StirredDone ==
    ASSUME Shapes, Laid, NEW p \in Threads, NEW ix \in Evs, sema[ix].alloc, NEW sops \in Seq(Sops),
           Stop(Vals(ix), sops) > Len(sops), SemopDone(p, ix, sops)
    PROVE  Kept /\ \A e \in Evs : sema[e].alloc => Still(e) \/ Stirred(e)
<1> DEFINE N == Len(sops)
           W == 0 .. sema[ix].nsems - 1
           v == Vals(ix)
           final == Applied(v, sops, 1)[N]
           b == sema[ix].base
<1>1. PoolTypes /\ Places
  BY DEF Laid
<1>2. v \in [W -> 0 .. SEMVMX] /\ Store(ix, v) = sem
  BY <1>1, StoreSame
<1>3. v \in [W -> Int]
  <2>1. 0 .. SEMVMX \subseteq Int
    BY LimitAssumption
  <2> HIDE DEF v, W
  <2> QED
    BY <1>2, <2>1
<1>4. sem' = sem \/ (sem' = Store(ix, final) /\ (DoWakeup(ix, sops) => ix \in posted'))
  <2>1. \/ sem' = Store(ix, Rollback(v, sops, N + 1))
        \/ sem' = Store(ix, final) /\ (DoWakeup(ix, sops) => EvWakeup(ix))
    BY DEF SemopDone
  <2>2. N + 1 \in 1 .. N + 1
    <3>1. N \in Nat
      OBVIOUS
    <3> HIDE DEF N
    <3> QED
      BY <3>1
  <2>3. Rollback(v, sops, N + 1) = v
    <3> HIDE DEF v, W
    <3> QED
      BY <1>3, <2>2, RollbackIs
  <2>4. EvWakeup(ix) => ix \in posted'
    BY DEF EvWakeup
  <2> HIDE DEF final, v, N
  <2> QED
    BY <1>2, <2>1, <2>3, <2>4
<1>5. CASE sem' = sem
  BY <1>5 DEF Kept, Still
<1>6. CASE sem' = Store(ix, final) /\ (DoWakeup(ix, sops) => ix \in posted')
  <2>1. Kept
    BY <1>1, <1>6, StoreKeeps
  <2>2. final \in [W -> 0 .. SEMVMX]
    <3>1. Stop(v, sops) > Len(sops)
      OBVIOUS
    <3> HIDE DEF v, W
    <3> QED
      BY <1>2, <3>1, FinalRange
  <2>3. /\ sem' \in [Pool -> Cells]
        /\ \A i \in Pool : sem'[i].val = IF i - b \in W THEN final[i - b] ELSE sem[i].val
    <3> DEFINE t == sem'
    <3>1. t = Store(ix, final)
      BY <1>6
    <3> HIDE DEF W, final, t
    <3>2. /\ t \in [Pool -> Cells]
          /\ \A i \in Pool : t[i].val = IF i - sema[ix].base \in W
                                        THEN final[i - sema[ix].base] ELSE sem[i].val
      BY <1>1, <2>2, <3>1, StoreIs
    <3> QED
      BY <3>2 DEF t
  <2>4. Replaced(ix, W, final)
    BY <2>3 DEF Replaced
  <2>5. ASSUME NEW e \in Evs, sema[e].alloc, e # ix PROVE Still(e)
    <3> HIDE DEF W, final
    <3> QED
      BY <1>1, <2>4, <2>5, StillOthers
  <2>6. ASSUME NEW n \in W PROVE sem'[b + n].val = final[n]
    <3>1. b + n \in Pool /\ (b + n) - b = n
      BY <1>1, <2>6, InPool
    <3> HIDE DEF final, W, b
    <3> QED
      BY <2>3, <2>6, <3>1
  <2>7. Stirred(ix)
    BY <1>6, <2>6 DEF Stirred
  <2> QED
    BY <2>1, <2>5, <2>7
<1> QED
  BY <1>4, <1>5, <1>6

\* A vector that cannot be done is taken back, and the process counted if it sleeps.
LEMMA WaitsStuck ==
    ASSUME Shapes, Laid, CountsFit, NEW p \in Threads,
           sema[req[p].ix].alloc, InSet(req[p].sops, sema[req[p].ix].nsems),
           ~(Stop(Vals(req[p].ix), req[p].sops) > Len(req[p].sops)),
           SemopStuck(p, req[p].ix, req[p].sops), sema' = sema
    PROVE  /\ Kept /\ \A e \in Evs : sema[e].alloc => Still(e)
           /\ pc'[p] = "asleep" => Waits(p)'
<1> DEFINE ix == req[p].ix
           sops == req[p].sops
           v == Vals(ix)
           W == 0 .. sema[ix].nsems - 1
           stop == Stop(v, sops)
           sop == sops[stop]
           num == sema[ix].base + sop.num
           cnt == IF sop.op = 0 THEN "zcnt" ELSE "ncnt"
           back == Store(ix, Rollback(v, sops, stop))
<1>1. PoolTypes /\ Places /\ ix \in Evs /\ sops \in Seq(Sops) /\ req \in [Threads -> Reqs] /\ pc \in [Threads -> Labels]
  BY DEF Laid, Shapes, Reqs
<1>2. stop \in 1 .. Len(sops)
  <2> HIDE DEF v, sops
  <2> QED
    BY <1>1, StopIs DEF v, sops
<1>3. v \in [W -> 0 .. SEMVMX] /\ Store(ix, v) = sem
  <2> HIDE DEF ix
  <2> QED
    BY <1>1, StoreSame DEF ix
<1>4. back = sem
  <2>1. 0 .. SEMVMX \subseteq Int
    BY LimitAssumption
  <2>2. stop \in 1 .. Len(sops) + 1
    BY <1>2
  <2>3. v \in [W -> Int]
    <3> HIDE DEF v, W
    <3> QED
      BY <1>3, <2>1
  <2>4. Rollback(v, sops, stop) = v
    <3> HIDE DEF v, W, sops, stop
    <3> QED
      BY <1>1, <2>2, <2>3, RollbackIs
  <2> QED
    BY <1>3, <2>4
<1>5. sop \in Sops /\ sop.num \in Nat /\ sop.op \in Int /\ sop.num < sema[ix].nsems
  <2>1. sop \in Sops
    BY <1>1, <1>2, ElementOfSeq
  <2> QED
    BY <1>2, <2>1 DEF Sops, InSet
<1>6. sop.num \in W /\ num \in Pool
  <2>1. sema[ix].nsems \in Int
    BY <1>1, LimitAssumption DEF PoolTypes
  <2> DEFINE n == sop.num
  <2>2. n \in 0 .. sema[ix].nsems - 1
    BY <1>5, <2>1
  <2> HIDE DEF n, ix
  <2>3. sema[ix].base + n \in Pool
    BY <1>1, <2>2, InPool DEF ix
  <2> QED
    BY <2>2, <2>3 DEF n
<1>7. \/ sem' = back /\ pc' = [pc EXCEPT ![p] = "idle"]
      \/ /\ sem' = [back EXCEPT ![num][cnt] = (@ + 1) % CountMod]
         /\ req' = [req EXCEPT ![p].num = num, ![p].cnt = cnt]
  BY DEF SemopStuck, Goto
<1>8. CASE sem' = back /\ pc' = [pc EXCEPT ![p] = "idle"]
  <2>1. sem' = sem /\ pc'[p] = "idle"
    BY <1>1, <1>4, <1>8
  <2> QED
    BY <2>1 DEF Kept, Still
<1>9. CASE /\ sem' = [back EXCEPT ![num][cnt] = (@ + 1) % CountMod]
           /\ req' = [req EXCEPT ![p].num = num, ![p].cnt = cnt]
  <2>1. cnt \in Counters
    BY DEF Counters
  <2>2. sem' = [sem EXCEPT ![num][cnt] = (@ + 1) % CountMod]
    BY <1>4, <1>9
  <2>3. Kept /\ sem'[num][cnt] > 0
    <3> HIDE DEF num, cnt
    <3> QED
      BY <1>1, <1>6, <2>1, <2>2, CountGrows
  <2>4. \A i \in Pool : sem'[i].val = sem[i].val
    <3> DEFINE d == 1
    <3>1. sem \in [Pool -> Cells] /\ cnt \in {"ncnt", "zcnt"}
      BY <1>1 DEF PoolTypes
    <3> HIDE DEF num, cnt
    <3>2. d \in Int /\ sem' = Bump(sem, num, cnt, d)
      BY <2>2 DEF Bump
    <3> DEFINE t == sem'
    <3>3. d \in Int /\ t = Bump(sem, num, cnt, d)
      BY <3>2
    <3> HIDE DEF d, t
    <3>4. t \in [Pool -> Cells] /\ \A i \in Pool : t[i].val = sem[i].val
      BY <3>1, <3>3, CountIs
    <3> QED
      BY <3>4 DEF t
  <2>5. ASSUME NEW e \in Evs, sema[e].alloc PROVE Still(e)
    BY <1>1, <2>4, <2>5, InPool DEF Still
  <2>6. req'[p].ix = ix /\ req'[p].sops = sops /\ req'[p].num = num /\ req'[p].cnt = cnt
    <3> HIDE DEF num, cnt
    <3> QED
      BY <1>1, <1>9 DEF Reqs
  <2>7. Waits(p)'
    <3>1. InSet(sops, sema[ix].nsems) /\ sop.num \in W /\ num = sema[ix].base + sop.num
      BY <1>6
    <3>2. \E n \in 0 .. sema[ix].nsems - 1 : num = sema[ix].base + n
      BY <3>1
    <3> HIDE DEF num, cnt, sops, ix
    <3> QED
      BY <2>3, <2>6, <3>1, <3>2 DEF Waits, InSet
  <2> QED
    BY <2>3, <2>5, <2>7
<1> QED
  BY <1>7, <1>8, <1>9

\* A set has been created; one that is removed lies at the top of the pool, so that
\* nothing is moved down.
Rooted ==
    /\ \A e \in Evs : sema[e].alloc => inst[e] > 0
    /\ \A p \in Threads : Removing(p) => sema[req[p].ix].alloc /\ semtot <= sema[req[p].ix].base
    /\ (\A e, f \in Evs : e = f) => \A e \in Evs : sema[e].alloc => semtot <= Top(e)

LEMMA RootedCalm ==
    ASSUME Rooted, Calm, UNCHANGED <<sema, semtot, inst>>
    PROVE  Rooted'
<1>1. \A e \in Evs : Top(e)' = Top(e)
  BY DEF Top
<1>2. ASSUME NEW p \in Threads, Removing(p)' PROVE Removing(p) /\ req'[p] = req[p]
  BY <1>2 DEF Calm
<1> QED
  BY <1>1, <1>2 DEF Rooted

\* Two processes do not remove the same set.
LEMMA OneRemover ==
    ASSUME Owned, Alone, Places, NEW p \in Threads, NEW q \in Threads, Removing(p), Removing(q), Shapes
    PROVE  p = q
<1>1. req[p].ix \in Evs /\ req[q].ix \in Evs
  BY DEF Shapes, Reqs
<1>2. req[p].ix = req[q].ix
  BY <1>1, Lonely
<1>3. mtx[req[p].ix] = p /\ mtx[req[q].ix] = q
  BY DEF Owned, Place, Inside, Removing
<1> QED
  BY <1>2, <1>3

LEMMA RootedSemget ==
    ASSUME Alone, Shapes, Making, Laid, Rooted, NEW p \in Threads, Semget(p)
    PROVE  Rooted'
<1>9. PICK ix \in Evs, n \in Nat : ix = req[p].ix /\ n = req[p].num
  BY DEF Shapes, Reqs, Making, Semget
<1> DEFINE s == [alloc |-> TRUE, seq |-> (sema[ix].seq + 1) % SeqMod, nsems |-> n, base |-> semtot]
<1>0. ix \in Evs /\ pc[p] = "semget" /\ pc' = [pc EXCEPT ![p] = "idle"] /\ pc \in [Threads -> Labels]
  BY <1>9 DEF Semget, Goto, Shapes, Reqs
<1>1. /\ ~sema[ix].alloc /\ n \in Nat /\ sema' = [sema EXCEPT ![ix] = s]
      /\ semtot' = semtot + n /\ inst' = [inst EXCEPT ![ix] = @ + 1]
  BY <1>0, <1>9 DEF Semget, Making
<1>2. s.alloc = TRUE /\ s.nsems = n /\ s.base = semtot
  OBVIOUS
<1> HIDE DEF s
<1>3. Places /\ sema \in [Evs -> Sets] /\ inst \in [Evs -> Nat] /\ n \in Nat /\ semtot \in Int
  BY <1>1 DEF Laid, Shapes
<1>4. ASSUME NEW q \in Threads, Removing(q) PROVE FALSE
  <2>1. req[q].ix \in Evs
    BY DEF Shapes, Reqs
  <2>2. req[q].ix = ix
    BY <1>0, <1>3, <1>4, <2>1, Lonely
  <2> QED
    BY <1>1, <1>4, <2>2 DEF Rooted
<1>5. \A q \in Threads : ~Removing(q)'
  BY <1>0, <1>4 DEF Removing
<1>6. ASSUME NEW e \in Evs, sema'[e].alloc PROVE inst'[e] > 0
  <2>1. CASE e = ix
    <3>1. inst'[e] = inst[ix] + 1 /\ inst[ix] \in Nat
      BY <1>0, <1>1, <1>3, <2>1
    <3> QED
      BY <3>1
  <2>2. CASE e # ix
    BY <1>1, <1>3, <1>6, <2>2 DEF Rooted
  <2> QED
    BY <2>1, <2>2
<1>7. Top(ix)' = semtot'
  BY <1>0, <1>1, <1>2, <1>3 DEF Top
<1>8. ASSUME \A e, f \in Evs : e = f, NEW e \in Evs PROVE semtot' <= Top(e)'
  <2>1. e = ix
    BY <1>0, <1>8
  <2>2. Top(e)' = semtot' /\ semtot' \in Int
    BY <1>1, <1>3, <1>7, <2>1
  <2> QED
    BY <2>2
<1> QED
  BY <1>5, <1>6, <1>8 DEF Rooted

LEMMA RootedRmidTotal ==
    ASSUME Alone, Shapes, Owned, Laid, Rooted, NEW p \in Threads, NEW ix \in Evs, NEW k,
           RmidTotal(p, ix, k)
    PROVE  Rooted'
<1>1. /\ "IPC_RMID" \in Commands /\ sema[ix].alloc /\ mtx[ix] = NoThread
      /\ semtot' = semtot - sema[ix].nsems /\ pc' = [pc EXCEPT ![p] = "rmid_shift"]
      /\ req' = [req EXCEPT ![p] = [NoReq EXCEPT !.ix = ix, !.k = k]]
      /\ UNCHANGED <<sema, inst>>
  BY DEF RmidTotal, Valid, MtxLock, Goto, history
<1>2. pc \in [Threads -> Labels] /\ req \in [Threads -> Reqs]
  BY DEF Shapes
<1>3. \A e, f \in Evs : e = f
  BY <1>1 DEF Alone
<1>4. semtot' <= sema[ix].base /\ semtot' <= Top(ix)
  <2>1. semtot <= Top(ix)
    BY <1>1, <1>3 DEF Rooted
  <2>2. semtot \in Int /\ sema[ix].nsems \in Int /\ sema[ix].base \in Int /\ sema[ix].nsems >= 0
    BY LimitAssumption DEF Laid, PoolTypes
  <2> QED
    BY <1>1, <2>1, <2>2 DEF Top
<1>5. req'[p].ix = ix
  <2>1. [NoReq EXCEPT !.ix = ix, !.k = k].ix = ix
    BY NoReqIs DEF Reqs
  <2> QED
    BY <1>1, <1>2, <2>1
<1>6. ASSUME NEW q \in Threads, Removing(q)' PROVE sema'[req'[q].ix].alloc /\ semtot' <= sema'[req'[q].ix].base
  <2>1. CASE q = p
    BY <1>1, <1>4, <1>5, <2>1
  <2>2. CASE q # p
    <3>1. Removing(q)
      BY <1>1, <1>2, <1>6, <2>2 DEF Removing
    <3>2. req[q].ix = ix
      BY <1>2, <1>3 DEF Reqs
    <3>3. mtx[ix] = q
      BY <3>1, <3>2 DEF Owned, Place, Inside, Removing
    <3> QED
      BY <1>1, <3>3, EventAssumption
  <2> QED
    BY <2>1, <2>2
<1>7. ASSUME NEW e \in Evs PROVE semtot' <= Top(e)'
  <2>1. e = ix /\ Top(e)' = Top(e)
    BY <1>1, <1>3 DEF Top
  <2> QED
    BY <1>4, <2>1
<1>8. \A e \in Evs : sema'[e].alloc => inst'[e] > 0
  BY <1>1 DEF Rooted
<1> QED
  BY <1>6, <1>7, <1>8 DEF Rooted

\* The one set there is goes.
LEMMA NoneLeft ==
    ASSUME Alone, Shapes, Laid, NEW p \in Threads, RmidBases(p)
    PROVE  \A e \in Evs : ~sema'[e].alloc
<1> DEFINE ix == req[p].ix
           s == [sema[ix] EXCEPT !.alloc = FALSE]
<1>1. Places /\ sema \in [Evs -> Sets] /\ ix \in Evs
  BY DEF Laid, Shapes, Reqs
<1>2. pc[p] = "rmid_bases" /\ sema'[ix] = s
  BY <1>1 DEF RmidBases
<1>3. \A e \in Evs : e = ix
  BY <1>1, <1>2, Lonely DEF Removing
<1>4. s.alloc = FALSE
  <2>1. sema[ix] \in Sets
    BY <1>1
  <2> QED
    BY <2>1 DEF Sets
<1> HIDE DEF ix, s
<1> QED
  BY <1>2, <1>3, <1>4

LEMMA RootedStep ==
    ASSUME Alone, Shapes, Making, Owned, Laid, Rooted, [Next]_vars
    PROVE  Rooted'
<1>1. pc \in [Threads -> Labels] /\ req \in [Threads -> Reqs] /\ Places
  BY DEF Shapes, Laid
<1>2. \* a process goes from one call or sleep to another label
      ASSUME NEW p \in Threads, NEW r, pc[p] \notin {"rmid_shift", "rmid_bases"},
             UNCHANGED <<sema, semtot, inst>>,
             req' = req \/ req' = [req EXCEPT ![p] = r],
             \E label \in {"idle", "semop", "semget", "setall", "asleep", "dead"} :
               pc' = [pc EXCEPT ![p] = label]
      PROVE  Rooted'
  <2>1. ~Removing(p) /\ ~Removing(p)'
    BY <1>1, <1>2 DEF Removing
  <2>2. \A q \in Threads : q # p => pc'[q] = pc[q] /\ req'[q] = req[q]
    BY <1>1, <1>2
  <2> QED
    BY <1>2, <2>1, <2>2, CalmIf, RootedCalm
<1>3. ASSUME UNCHANGED <<sema, semtot, inst, pc, req>> PROVE Rooted'
  <2>1. Calm
    BY <1>3 DEF Calm, Removing
  <2> QED
    BY <1>3, <2>1, RootedCalm
<1>4. ASSUME NEW p \in Threads, NEW ix \in Evs, NEW k \in 1 .. inst[ix],
             SetAllRead(p, ix, k) \/ \E sops \in Vectors : Semop(p, ix, k, sops)
      PROVE  Rooted'
  <2>1. /\ pc[p] = "idle" /\ UNCHANGED <<sema, semtot, inst>>
        /\ \E label \in {"semop", "setall"} : pc' = [pc EXCEPT ![p] = label]
        /\ \E r : req' = [req EXCEPT ![p] = r]
    BY <1>4 DEF Semop, SetAllRead, Goto, semVars, history
  <2> QED
    BY <1>2, <2>1
<1>5. ASSUME NEW p \in Threads, SemopBody(p) \/ SemopAwake(p) PROVE Rooted'
  <2>1. pc[p] \in {"semop", "asleep"} /\ (Attempt(p) \/ Fail(p))
    BY <1>5 DEF SemopBody, SemopAwake
  <2>2. /\ UNCHANGED <<sema, semtot, inst>>
        /\ \E label \in {"idle", "asleep"} : pc' = [pc EXCEPT ![p] = label]
    BY <2>1 DEF Attempt, Fail, SemopDone, SemopStuck, Goto, semVars, history
  <2>3. \E r : req' = req \/ req' = [req EXCEPT ![p] = r]
    <3> DEFINE num == sema[req[p].ix].base + req[p].sops[Stop(Vals(req[p].ix), req[p].sops)].num
               cnt == IF req[p].sops[Stop(Vals(req[p].ix), req[p].sops)].op = 0 THEN "zcnt" ELSE "ncnt"
    <3>1. req' = req \/ req' = [req EXCEPT ![p].num = num, ![p].cnt = cnt]
      BY <2>1 DEF Attempt, Fail, SemopDone, SemopStuck
    <3> HIDE DEF num, cnt
    <3>2. [req EXCEPT ![p].num = num, ![p].cnt = cnt]
          = [req EXCEPT ![p] = [[req[p] EXCEPT !.num = num] EXCEPT !.cnt = cnt]]
      BY <1>1
    <3> QED
      BY <3>1, <3>2
  <2> QED
    BY <1>2, <2>1, <2>2, <2>3
<1>6. ASSUME NEW p \in Threads, RmidClear(p) \/ Exit(p) PROVE Rooted'
  <2>1. /\ pc[p] \in {"rmid_clear", "idle"} /\ UNCHANGED <<sema, semtot, inst>> /\ req' = req
        /\ \E label \in {"idle", "dead"} : pc' = [pc EXCEPT ![p] = label]
    BY <1>6 DEF RmidClear, Exit, Goto, history
  <2> QED
    BY <1>2, <2>1
<1>7. ASSUME NEW p \in Threads, SleepStep(p) PROVE Rooted'
  BY <1>3, <1>7 DEF SleepStep, history
<1>8. ASSUME NEW p \in Threads, NEW ix \in Evs, NEW k \in 1 .. inst[ix], NEW num \in Pool,
             NEW val \in Values, SetVal(p, ix, k, num, val)
      PROVE  Rooted'
  BY <1>3, <1>8 DEF SetVal
<1>9. ASSUME NEW p \in Threads, NEW array \in Arrays, SetAllWrite(p, array) PROVE Rooted'
  <2>1. pc[p] = "setall" /\ UNCHANGED <<sema, semtot, inst>>
    BY <1>9 DEF SetAllWrite, semVars, history
  <2>2. \/ pc' = [pc EXCEPT ![p] = "idle"] /\ req' = req
        \/ pc' = pc /\ req' = [req EXCEPT ![p].num = sema[req[p].ix].nsems]
    BY <1>9 DEF SetAllWrite, Goto
  <2>3. \A q \in Threads : q # p => pc'[q] = pc[q] /\ req'[q] = req[q]
    BY <1>1, <2>2
  <2>4. ~Removing(p) /\ ~Removing(p)'
    BY <1>1, <2>1, <2>2 DEF Removing
  <2> QED
    BY <2>1, <2>3, <2>4, CalmIf, RootedCalm
<1>10. ASSUME NEW p \in Threads, RmidShift(p) PROVE Rooted'
  <2>1. /\ pc[p] = "rmid_shift" /\ pc' = [pc EXCEPT ![p] = "rmid_bases"]
        /\ UNCHANGED <<sema, semtot, inst, req>>
    BY <1>10 DEF RmidShift, Goto, history
  <2>2. \A q \in Threads : Removing(q)' <=> Removing(q)
    BY <1>1, <2>1 DEF Removing
  <2> QED
    BY <2>1, <2>2, RootedCalm DEF Calm
<1>11. ASSUME NEW p \in Threads, RmidBases(p) PROVE Rooted'
  <2>1. pc[p] = "rmid_bases" /\ pc' = [pc EXCEPT ![p] = "rmid_clear"]
    BY <1>11 DEF RmidBases, Goto
  <2>2. \A q \in Threads : ~Removing(q)'
    <3> SUFFICES ASSUME NEW q \in Threads, Removing(q)' PROVE FALSE
      OBVIOUS
    <3>1. Removing(p) /\ Removing(q) /\ q # p
      BY <1>1, <2>1 DEF Removing
    <3> QED
      BY <1>1, <3>1, OneRemover
  <2> QED
    BY <1>11, <2>2, NoneLeft DEF Rooted
<1>12. ASSUME UNCHANGED vars PROVE Rooted'
  BY <1>3, <1>12 DEF vars, semVars, history
<1>13. ASSUME NEW p \in Threads, NEW ix \in Evs, NEW n \in Sizes, SemgetAlloc(p, ix, n) PROVE Rooted'
  <2>1. /\ pc[p] = "idle" /\ UNCHANGED <<sema, semtot, inst>>
        /\ pc' = [pc EXCEPT ![p] = "semget"]
        /\ \E r : req' = [req EXCEPT ![p] = r]
    BY <1>13 DEF SemgetAlloc, Goto, semVars, history
  <2> QED
    BY <1>2, <2>1
<1>14. ASSUME NEW p \in Threads, Astray(p) PROVE Rooted'
  BY <1>3, <1>14 DEF Astray, semVars, history
<1> QED
  BY <1>4, <1>5, <1>6, <1>7, <1>8, <1>9, <1>10, <1>11, <1>12, <1>13, <1>14, RootedSemget, RootedRmidTotal
     DEF Next

\* What a step may do to a set that is there before and after it
Moved(e) ==
    /\ sema'[e] = sema[e]
    /\ Still(e) \/ Stirred(e) \/ e \in posted'
    /\ \A n \in 0 .. sema[e].nsems - 1 : \A c \in Counters :
         sem[sema[e].base + n][c] > 0 => sem'[sema[e].base + n][c] > 0

\* A vector waits for zero only before it takes from that semaphore.
ZeroFirst(sops) ==
    \A i \in 1 .. Len(sops) : \A j \in 1 .. i - 1 :
        sops[i].op = 0 /\ sops[j].num = sops[i].num => sops[j].op >= 0
NoZeroAfterTake == \A sops \in Vectors : ZeroFirst(sops)

\* The processes that sleep are counted.
Waiting ==
    \A p \in Threads :
        /\ pc[p] \in {"semop", "asleep"} => ZeroFirst(req[p].sops) /\ req[p].k > 0
        /\ pc[p] = "asleep" /\ Valid(req[p].ix, req[p].k) => Waits(p)

LEMMA MovedIf ==
    ASSUME Laid, NEW e \in Evs, sema[e].alloc, sema'[e] = sema[e], Kept,
           Still(e) \/ Stirred(e) \/ e \in posted'
    PROVE  Moved(e)
<1>1. \A n \in 0 .. sema[e].nsems - 1 : sema[e].base + n \in Pool
  BY InPool DEF Laid
<1> QED
  BY <1>1 DEF Moved, Kept

\* What a call that goes on in semop finds
LEMMA Fits ==
    ASSUME Shapes, Waiting, NEW p \in Threads, SemopBody(p) \/ SemopAwake(p)
    PROVE  \/ Fail(p)
           \/ /\ Attempt(p) /\ sema[req[p].ix].alloc
              /\ InSet(req[p].sops, sema[req[p].ix].nsems)
<1>1. CASE SemopBody(p)
  BY <1>1 DEF SemopBody, Valid, InSet
<1>2. CASE SemopAwake(p) /\ ~Fail(p)
  <2>1. pc[p] = "asleep" /\ Valid(req[p].ix, req[p].k) /\ Attempt(p)
    BY <1>2 DEF SemopAwake
  <2>2. Waits(p)
    BY <2>1 DEF Waiting
  <2> QED
    BY <2>1, <2>2 DEF Valid, Waits
<1> QED
  BY <1>1, <1>2

\* A pass of semop
LEMMA MovedAttempt ==
    ASSUME Shapes, Laid, CountsFit, Waiting, NEW p \in Threads, SemopBody(p) \/ SemopAwake(p)
    PROVE  /\ \A e \in Evs : sema[e].alloc => Moved(e)
           /\ pc'[p] = "asleep" => Waits(p)'
<1> DEFINE ix == req[p].ix
           sops == req[p].sops
<1>1. pc \in [Threads -> Labels] /\ ix \in Evs /\ sops \in Seq(Sops)
  BY DEF Shapes, Reqs
<1>2. CASE Fail(p)
  <2>1. UNCHANGED <<sema, sem>> /\ pc'[p] = "idle"
    BY <1>1, <1>2 DEF Fail, Goto, semVars
  <2>2. Kept /\ \A e \in Evs : Still(e)
    BY <2>1 DEF Kept, Still
  <2> QED
    BY <2>1, <2>2, MovedIf
<1>3. CASE ~Fail(p)
  <2>1. Attempt(p) /\ sema[ix].alloc /\ InSet(sops, sema[ix].nsems) /\ sema' = sema
    BY <1>3, Fits DEF Attempt
  <2>2. CASE Stop(Vals(ix), sops) > Len(sops) /\ SemopDone(p, ix, sops)
    <3>1. Kept /\ \A e \in Evs : sema[e].alloc => Still(e) \/ Stirred(e)
      <4> HIDE DEF ix, sops
      <4> QED
        BY <1>1, <2>1, <2>2, StirredDone
    <3>2. pc'[p] = "idle"
      BY <1>1, <2>2 DEF SemopDone, Goto
    <3> QED
      BY <2>1, <3>1, <3>2, MovedIf
  <2>3. CASE ~(Stop(Vals(ix), sops) > Len(sops)) /\ SemopStuck(p, ix, sops)
    <3>1. /\ Kept /\ \A e \in Evs : sema[e].alloc => Still(e)
          /\ pc'[p] = "asleep" => Waits(p)'
      BY <2>1, <2>3, WaitsStuck
    <3> QED
      BY <2>1, <3>1, MovedIf
  <2> QED
    BY <2>1, <2>2, <2>3 DEF Attempt
<1> QED
  BY <1>2, <1>3

\* SleepDone compares the sequence number of the set with that of an index, which
\* is 0, and so never takes anything off the counts.
LEMMA SleepDoneIdle ==
    ASSUME Shapes, Seqs, Waiting, NEW p \in Threads, SleepStep(p)
    PROVE  sem' = sem
<1> DEFINE ix == req[p].ix
           k == req[p].k
<1>1. ix \in Evs /\ inst[ix] \in Nat /\ k \in Nat /\ k <= inst[ix] /\ sema[ix].seq = inst[ix]
  BY DEF Shapes, Reqs, Seqs
<1>2. k > 0
  BY DEF SleepStep, Waiting
<1>3. sema[ix].seq # 0
  <2> HIDE DEF ix, k
  <2> QED
    BY <1>1, <1>2
<1>4. SleepDone(p) => sem' = sem
  BY <1>3 DEF SleepDone
<1> QED
  BY <1>4 DEF SleepStep

\* SETVAL and SETALL post the event of the set.
LEMMA MovedSetVal ==
    ASSUME Shapes, Laid, NEW p \in Threads, NEW ix \in Evs, NEW k, NEW num \in Pool,
           NEW val \in Values, SetVal(p, ix, k, num, val), NEW e \in Evs, sema[e].alloc
    PROVE  Moved(e)
<1> DEFINE b == sema[ix].base
<1>1. PoolTypes /\ Places /\ sem \in [Pool -> Cells]
  BY DEF Laid, PoolTypes
<1>2. /\ sema' = sema /\ sema[ix].alloc /\ num < sema[ix].nsems /\ ix \in posted'
      /\ sem' = [sem EXCEPT ![b + num].val = val]
  BY DEF SetVal, Valid, EvWakeup
<1>3. num \in 0 .. sema[ix].nsems - 1
  <2>1. num \in Nat /\ sema[ix].nsems \in Int
    BY <1>1, LimitAssumption DEF Pool, PoolTypes
  <2> QED
    BY <1>2, <2>1
<1>4. b + num \in Pool /\ (b + num) - b = num
  BY <1>1, <1>2, <1>3, InPool
<1>5. \A i \in Pool : sem'[i] = IF i = b + num THEN [sem[i] EXCEPT !.val = val] ELSE sem[i]
  <2> HIDE DEF b
  <2> QED
    BY <1>1, <1>2, <1>4
<1>6. Kept
  <2>1. ASSUME NEW i \in Pool PROVE sem'[i].ncnt = sem[i].ncnt /\ sem'[i].zcnt = sem[i].zcnt
    <3>1. sem[i] \in Cells
      BY <1>1
    <3>2. sem'[i] = sem[i] \/ sem'[i] = [sem[i] EXCEPT !.val = val]
      BY <1>5
    <3> QED
      BY <3>1, <3>2 DEF Cells
  <2> QED
    BY <2>1 DEF Kept, Counters
<1>7. CASE e = ix
  BY <1>2, <1>6, <1>7, MovedIf
<1>8. CASE e # ix
  <2>1. ASSUME NEW n \in 0 .. sema[e].nsems - 1
        PROVE  sem'[sema[e].base + n].val = sem[sema[e].base + n].val
    <3>1. sema[e].base + n \in Pool
      BY <1>1, InPool
    <3>2. (sema[e].base + n) - b \notin 0 .. sema[ix].nsems - 1
      BY <1>1, <1>2, <1>8, OneSet
    <3>3. sema[e].base + n # b + num
      BY <1>3, <1>4, <3>2
    <3> QED
      BY <1>5, <3>1, <3>3
  <2> QED
    BY <1>2, <1>6, <2>1, MovedIf DEF Still
<1> QED
  BY <1>7, <1>8

LEMMA MovedSetAll ==
    ASSUME Shapes, Laid, NEW p \in Threads, NEW array \in Arrays, SetAllWrite(p, array),
           NEW e \in Evs, sema[e].alloc
    PROVE  Moved(e)
<1> DEFINE ix == req[p].ix
           bad == {i \in DOMAIN array : i < sema[ix].nsems /\ array[i] > SEMVMX}
           W == {i \in 0 .. (sema[ix].nsems - 1) : \A j \in bad : i < j}
           vals == [i \in W |-> array[i]]
<1>1. PoolTypes /\ Places /\ ix \in Evs /\ sem \in [Pool -> Cells]
  BY DEF Laid, PoolTypes, Shapes, Reqs
<1>2. /\ sema' = sema
      /\ \/ sem' = sem
         \/ sema[ix].alloc /\ sem' = Store(ix, vals) /\ ix \in posted'
  BY DEF SetAllWrite, semVars, Valid, EvWakeup
<1>3. CASE sem' = sem
  <2>1. Kept /\ Still(e)
    BY <1>3 DEF Kept, Still
  <2> QED
    BY <1>2, <2>1, MovedIf
<1>4. CASE sema[ix].alloc /\ sem' = Store(ix, vals) /\ ix \in posted'
  <2>1. Kept
    <3> HIDE DEF ix, vals
    <3> QED
      BY <1>1, <1>4, StoreKeeps
  <2>2. CASE e = ix
    BY <1>2, <1>4, <2>1, <2>2, MovedIf
  <2>3. CASE e # ix
    <3>1. ASSUME NEW n \in 0 .. sema[e].nsems - 1
          PROVE  sem'[sema[e].base + n].val = sem[sema[e].base + n].val
      <4> DEFINE i == sema[e].base + n
      <4>1. i \in Pool
        BY <1>1, InPool
      <4>2. i - sema[ix].base \notin 0 .. sema[ix].nsems - 1
        <5> HIDE DEF ix
        <5> QED
          BY <1>1, <1>4, <2>3, OneSet
      <4>3. W \subseteq 0 .. sema[ix].nsems - 1 /\ DOMAIN vals = W
        OBVIOUS
      <4>4. i - sema[ix].base \notin DOMAIN vals
        BY <4>2, <4>3
      <4> HIDE DEF vals, i, ix
      <4>5. sem'[i] = sem[i]
        BY <1>4, <4>1, <4>4 DEF Store
      <4> QED
        BY <4>5 DEF i
    <3> QED
      BY <1>2, <2>1, <3>1, MovedIf DEF Still
  <2> QED
    BY <2>2, <2>3
<1> QED
  BY <1>2, <1>3, <1>4

\* The semaphores of a new set are above all others.
LEMMA MovedSemget ==
    ASSUME Alone, Shapes, Making, Laid, NEW p \in Threads, Semget(p), NEW e \in Evs, sema[e].alloc
    PROVE  Moved(e)
<1> DEFINE ix == req[p].ix
           n == req[p].num
           s == [alloc |-> TRUE, seq |-> (sema[ix].seq + 1) % SeqMod, nsems |-> n, base |-> semtot]
           zero == [val |-> 0, ncnt |-> 0, zcnt |-> 0]
<1>0. ix \in Evs /\ pc[p] = "semget"
  BY DEF Semget, Shapes, Reqs
<1>1. PoolTypes /\ Places /\ sema \in [Evs -> Sets] /\ semtot \in Int /\ n \in Nat
  BY <1>0 DEF Laid, Shapes, Making
<1>2. /\ ~sema[ix].alloc /\ sema' = [sema EXCEPT ![ix] = s]
      /\ sem' = [i \in Pool |-> IF i \in semtot..(semtot + n - 1) THEN zero ELSE sem[i]]
  BY <1>0 DEF Semget, Making
<1> HIDE DEF s, zero, ix, n
<1>3. e # ix /\ sema'[e] = sema[e]
  BY <1>1, <1>2
<1>4. Top(e) <= semtot
  BY <1>0, <1>1, <1>3, BelowTotal
<1>5. ASSUME NEW m \in 0 .. sema[e].nsems - 1 PROVE sem'[sema[e].base + m] = sem[sema[e].base + m]
  <2> DEFINE i == sema[e].base + m
  <2>1. i \in Pool
    BY <1>1, InPool
  <2>2. i \in Int /\ i < semtot
    <3>1. sema[e].base \in Int /\ sema[e].nsems \in Int
      BY <1>1, LimitAssumption DEF PoolTypes
    <3> QED
      BY <1>1, <1>4, <3>1 DEF Top
  <2> HIDE DEF i
  <2>3. i \notin semtot..(semtot + n - 1)
    BY <1>1, <2>2
  <2>4. sem'[i] = sem[i]
    BY <1>2, <2>1, <2>3
  <2> QED
    BY <2>4 DEF i
<1> QED
  BY <1>3, <1>5 DEF Moved, Still

\* Of a set that is there before and after a step, the values change only with a
\* post or by a call that looked who waits.
LEMMA MovedStep ==
    ASSUME Alone, Shapes, Making, Laid, Seqs, Rooted, Waiting, CountsFit, [Next]_vars,
           NEW e \in Evs, sema[e].alloc, sema'[e].alloc
    PROVE  Moved(e)
<1>1. ASSUME UNCHANGED <<sema, sem>> PROVE Moved(e)
  <2>1. Kept /\ Still(e)
    BY <1>1 DEF Kept, Still
  <2> QED
    BY <1>1, <2>1, MovedIf
<1>2. ASSUME NEW p \in Threads, NEW ix \in Evs, NEW k \in 1 .. inst[ix],
             SetAllRead(p, ix, k) \/ RmidTotal(p, ix, k) \/ \E sops \in Vectors : Semop(p, ix, k, sops)
      PROVE  Moved(e)
  BY <1>1, <1>2 DEF SetAllRead, RmidTotal, Semop, semVars
<1>3. ASSUME NEW p \in Threads, SleepStep(p) PROVE Moved(e)
  BY <1>1, <1>3, SleepDoneIdle DEF SleepStep
<1>4. ASSUME NEW p \in Threads, RmidClear(p) \/ Exit(p) PROVE Moved(e)
  BY <1>1, <1>4 DEF RmidClear, Exit
<1>5. ASSUME NEW p \in Threads, RmidShift(p) PROVE Moved(e)
  <2> DEFINE s == sema[req[p].ix]
  <2>1. /\ Removing(p) /\ sema' = sema
        /\ sem' = [i \in Pool |-> IF i \in s.base..(semtot - 1) /\ i + s.nsems \in Pool
                                  THEN sem[i + s.nsems] ELSE sem[i]]
    BY <1>5 DEF RmidShift, Removing
  <2>2. semtot <= s.base
    BY <2>1 DEF Rooted
  <2>3. semtot \in Int /\ s.base \in Int
    BY LimitAssumption DEF Shapes, Laid, PoolTypes, Reqs
  <2>4. sem = [i \in Pool |-> sem[i]]
    BY DEF Laid, PoolTypes
  <2> HIDE DEF s
  <2>5. \A i \in Pool : ~(i \in s.base..(semtot - 1))
    BY <2>2, <2>3
  <2>6. sem' = sem
    BY <2>1, <2>4, <2>5
  <2> QED
    BY <1>1, <2>1, <2>6
<1>6. ASSUME NEW p \in Threads, RmidBases(p) PROVE Moved(e)
  BY <1>6, NoneLeft
<1>7. ASSUME UNCHANGED vars PROVE Moved(e)
  BY <1>1, <1>7 DEF vars, semVars
<1>8. ASSUME NEW p \in Threads, Astray(p) \/ \E ix \in Evs, n \in Sizes : SemgetAlloc(p, ix, n)
      PROVE  Moved(e)
  BY <1>1, <1>8 DEF Astray, SemgetAlloc, semVars
<1> QED
  BY <1>2, <1>3, <1>4, <1>5, <1>6, <1>7, <1>8, MovedSemget, MovedSetVal, MovedSetAll, MovedAttempt DEF Next

\* A handle that names a set after a step named it before: a set created since
\* has another number.
LEMMA ValidBefore ==
    ASSUME MaxGets < SeqMod, Alone, Shapes, Shapes', Making, Laid, Seqs, Seqs', Rooted, Waiting, CountsFit,
           [Next]_vars, NEW e \in Evs, NEW k \in Nat, k <= inst[e], Valid(e, k)'
    PROVE  Valid(e, k) /\ Moved(e)
<1>1. sema'[e].alloc /\ sema'[e].seq = k % SeqMod
  BY DEF Valid
<1>2. CASE sema[e].alloc
  <2>1. Moved(e)
    BY <1>1, <1>2, MovedStep
  <2> QED
    BY <1>1, <2>1 DEF Moved, Valid
<1>3. CASE ~sema[e].alloc
  <2>1. inst[e] \in Nat /\ inst[e] <= MaxGets /\ MaxGets \in Nat /\ SeqMod \in Nat
    BY LimitAssumption DEF Shapes, Seqs
  <2>2. k < SeqMod
    BY <2>1
  <2>3. k % SeqMod = k
    BY <2>1, <2>2, Remainder
  <2>4. inst'[e] = k
    BY <1>1, <2>3 DEF Seqs
  <2>5. inst'[e] = inst[e] + 1
    <3>1. sema' # sema
      BY <1>1, <1>3
    <3>2. \/ \E p \in Threads : Semget(p)
          \/ \E p \in Threads : RmidBases(p)
      <4>1. ASSUME NEW p \in Threads, NEW ix \in Evs, NEW j \in 1 .. inst[ix],
                   \/ \E sops \in Vectors : Semop(p, ix, j, sops)
                   \/ \E num \in Pool, val \in Values : SetVal(p, ix, j, num, val)
                   \/ SetAllRead(p, ix, j) \/ RmidTotal(p, ix, j)
            PROVE  sema' = sema
        BY <4>1 DEF Semop, SetVal, SetAllRead, RmidTotal, semVars
      <4>2. ASSUME NEW p \in Threads,
                   SemopBody(p) \/ SleepStep(p) \/ SemopAwake(p) \/ RmidShift(p) \/ RmidClear(p) \/ Exit(p)
            PROVE  sema' = sema
        BY <4>2 DEF SemopBody, SleepStep, SemopAwake, RmidShift, RmidClear, Exit, Attempt, Fail, semVars
      <4>3. ASSUME NEW p \in Threads, NEW array \in Arrays, SetAllWrite(p, array) PROVE sema' = sema
        BY <4>3 DEF SetAllWrite, semVars
      <4>4. UNCHANGED vars => sema' = sema
        BY DEF vars, semVars
      <4>5. ASSUME NEW p \in Threads, Astray(p) \/ \E ix \in Evs, n \in Sizes : SemgetAlloc(p, ix, n)
            PROVE  sema' = sema
        BY <4>5 DEF Astray, SemgetAlloc, semVars
      <4> QED
        BY <3>1, <4>1, <4>2, <4>3, <4>4, <4>5 DEF Next
    <3>3. PICK p \in Threads : Semget(p)
      BY <1>1, <3>2, NoneLeft
    <3> DEFINE ix == req[p].ix
    <3>4. /\ \E s : sema' = [sema EXCEPT ![ix] = s]
          /\ inst' = [inst EXCEPT ![ix] = @ + 1]
      BY <3>3 DEF Semget
    <3>5. sema \in [Evs -> Sets] /\ inst \in [Evs -> Nat]
      BY DEF Shapes
    <3>6. e = ix
      BY <1>1, <1>3, <3>4, <3>5
    <3> QED
      BY <3>4, <3>5, <3>6
  <2>6. FALSE
    BY <2>1, <2>4, <2>5
  <2> QED
    BY <2>6
<1> QED
  BY <1>2, <1>3

\* What a step does to a process: nothing, or it leaves semop, begins it or goes on
\* in it.
Course(q) ==
    \/ pc'[q] = pc[q] /\ req'[q] = req[q]
    \/ pc[q] # "asleep" /\ pc'[q] \notin {"semop", "asleep"}
    \/ pc[q] # "asleep" /\ pc'[q] = "semop" /\ req'[q].sops \in Vectors /\ req'[q].k > 0
    \/ /\ pc[q] \in {"semop", "asleep"} /\ req'[q].sops = req[q].sops /\ req'[q].k = req[q].k
       /\ SemopBody(q) \/ SemopAwake(q)

LEMMA CourseStep ==
    ASSUME Shapes, [Next]_vars, NEW q \in Threads
    PROVE  Course(q)
<1>1. pc \in [Threads -> Labels] /\ req \in [Threads -> Reqs]
  BY DEF Shapes
<1>2. \* a call begins, or goes to a label outside semop
      ASSUME NEW p \in Threads, NEW label, NEW r, pc[p] # "asleep",
             pc' = [pc EXCEPT ![p] = label], req' = req \/ req' = [req EXCEPT ![p] = r],
             label \notin {"semop", "asleep"} \/ (label = "semop" /\ req'[p].sops \in Vectors /\ req'[p].k > 0)
      PROVE  Course(q)
  <2>1. CASE q = p
    <3>1. pc'[q] = label
      BY <1>1, <1>2, <2>1
    <3> QED
      BY <1>2, <2>1, <3>1 DEF Course
  <2>2. CASE q # p
    <3>1. pc'[q] = pc[q] /\ req'[q] = req[q]
      BY <1>1, <1>2, <2>2
    <3> QED
      BY <3>1 DEF Course
  <2> QED
    BY <2>1, <2>2
<1>3. ASSUME UNCHANGED <<pc, req>> PROVE Course(q)
  BY <1>3 DEF Course
<1>4. ASSUME NEW p \in Threads, NEW ix \in Evs, NEW k \in 1 .. inst[ix], NEW sops \in Vectors,
             Semop(p, ix, k, sops)
      PROVE  Course(q)
  <2> DEFINE r == [ix |-> ix, k |-> k, sops |-> sops, num |-> 0, cnt |-> "ncnt"]
             label == "semop"
  <2>1. pc[p] # "asleep" /\ pc' = [pc EXCEPT ![p] = label] /\ req' = [req EXCEPT ![p] = r]
    BY <1>4 DEF Semop, Goto
  <2>2. req'[p].sops \in Vectors /\ req'[p].k > 0
    BY <1>1, <2>1 DEF Shapes
  <2> HIDE DEF r
  <2> QED
    BY <1>2, <2>1, <2>2
<1>5. ASSUME NEW p \in Threads, NEW ix \in Evs, NEW k \in 1 .. inst[ix],
             SetAllRead(p, ix, k) \/ RmidTotal(p, ix, k)
      PROVE  Course(q)
  <2>1. PICK label \in {"setall", "rmid_shift"} : pc' = [pc EXCEPT ![p] = label]
    BY <1>5 DEF SetAllRead, RmidTotal, Goto
  <2>2. pc[p] # "asleep" /\ \E r : req' = [req EXCEPT ![p] = r]
    BY <1>5 DEF SetAllRead, RmidTotal
  <2> QED
    BY <1>2, <2>1, <2>2
<1>6. ASSUME NEW p \in Threads, RmidShift(p) \/ RmidBases(p) \/ RmidClear(p) \/ Exit(p)
      PROVE  Course(q)
  <2>1. PICK label \in {"rmid_bases", "rmid_clear", "idle", "dead"} : pc' = [pc EXCEPT ![p] = label]
    BY <1>6 DEF RmidShift, RmidBases, RmidClear, Exit, Goto
  <2>2. pc[p] # "asleep" /\ req' = req
    BY <1>6 DEF RmidShift, RmidBases, RmidClear, Exit
  <2> QED
    BY <1>2, <2>1, <2>2
<1>7. ASSUME NEW p \in Threads, NEW array \in Arrays, SetAllWrite(p, array) PROVE Course(q)
  <2>1. /\ pc[p] = "setall"
        /\ \/ pc' = [pc EXCEPT ![p] = "idle"] /\ req' = req
           \/ pc' = pc /\ req' = [req EXCEPT ![p].num = sema[req[p].ix].nsems]
    BY <1>7 DEF SetAllWrite, Goto
  <2>2. CASE q = p
    <3>1. pc'[q] \in {"idle", "setall"}
      BY <1>1, <2>1, <2>2
    <3> QED
      BY <2>1, <2>2, <3>1 DEF Course
  <2>3. CASE q # p
    <3>1. pc'[q] = pc[q] /\ req'[q] = req[q]
      BY <1>1, <2>1, <2>3
    <3> QED
      BY <3>1 DEF Course
  <2> QED
    BY <2>2, <2>3
<1>8. ASSUME NEW p \in Threads, SemopBody(p) \/ SemopAwake(p) PROVE Course(q)
  <2> DEFINE num == sema[req[p].ix].base + req[p].sops[Stop(Vals(req[p].ix), req[p].sops)].num
             cnt == IF req[p].sops[Stop(Vals(req[p].ix), req[p].sops)].op = 0 THEN "zcnt" ELSE "ncnt"
  <2>1. pc[p] \in {"semop", "asleep"} /\ (Attempt(p) \/ Fail(p))
    BY <1>8 DEF SemopBody, SemopAwake
  <2>2. req' = req \/ req' = [req EXCEPT ![p].num = num, ![p].cnt = cnt]
    BY <2>1 DEF Attempt, Fail, SemopDone, SemopStuck
  <2>3. \E label \in {"idle", "asleep"} : pc' = [pc EXCEPT ![p] = label]
    BY <2>1 DEF Attempt, Fail, SemopDone, SemopStuck, Goto
  <2> HIDE DEF num, cnt
  <2>4. CASE q = p
    <3>1. req'[q].sops = req[q].sops /\ req'[q].k = req[q].k
      BY <1>1, <2>2, <2>4 DEF Reqs
    <3> QED
      BY <1>8, <2>1, <2>4, <3>1 DEF Course
  <2>5. CASE q # p
    <3>1. pc'[q] = pc[q] /\ req'[q] = req[q]
      BY <1>1, <2>2, <2>3, <2>5
    <3> QED
      BY <3>1 DEF Course
  <2> QED
    BY <2>4, <2>5
<1>9. ASSUME NEW p \in Threads,
             \/ SleepStep(p) \/ Astray(p)
             \/ \E ix \in Evs : \E k \in 1 .. inst[ix], num \in Pool, val \in Values : SetVal(p, ix, k, num, val)
      PROVE  Course(q)
  <2>1. ASSUME Astray(p) PROVE UNCHANGED <<pc, req>>
    BY <2>1 DEF Astray
  <2>2. ASSUME SleepStep(p) PROVE UNCHANGED <<pc, req>>
    BY <2>2 DEF SleepStep
  <2>3. ASSUME NEW ix \in Evs, NEW k, NEW num, NEW val, SetVal(p, ix, k, num, val)
        PROVE  UNCHANGED <<pc, req>>
    BY <2>3 DEF SetVal
  <2> QED
    BY <1>3, <1>9, <2>1, <2>2, <2>3
<1>10. ASSUME UNCHANGED vars PROVE Course(q)
  BY <1>3, <1>10 DEF vars
<1>11. ASSUME NEW p \in Threads, Semget(p) \/ \E ix \in Evs, n \in Sizes : SemgetAlloc(p, ix, n)
       PROVE  Course(q)
  <2>1. PICK label \in {"semget", "idle"} : pc' = [pc EXCEPT ![p] = label]
    BY <1>11 DEF Semget, SemgetAlloc, Goto
  <2>2. pc[p] # "asleep" /\ \E r : req' = req \/ req' = [req EXCEPT ![p] = r]
    BY <1>11 DEF Semget, SemgetAlloc
  <2> QED
    BY <1>2, <2>1, <2>2
<1> QED
  BY <1>4, <1>5, <1>6, <1>7, <1>8, <1>9, <1>10, <1>11 DEF Next

\* The semaphore a process waits for stays known to be waited for.
LEMMA WaitsKept ==
    ASSUME Shapes, Laid, NEW q \in Threads, Waits(q), req'[q] = req[q], Moved(req[q].ix)
    PROVE  Waits(q)'
<1> DEFINE r == req[q]
           s == sema[r.ix]
<1>1. r.cnt \in Counters
  BY DEF Shapes, Reqs, Counters
<1>2. PICK n \in 0 .. s.nsems - 1 : r.num = s.base + n
  BY DEF Waits
<1>3. sema'[r.ix] = s /\ (sem[s.base + n][r.cnt] > 0 => sem'[s.base + n][r.cnt] > 0)
  BY <1>1, <1>2 DEF Moved
<1>4. InSet(r.sops, s.nsems) /\ sem[r.num][r.cnt] > 0
  BY DEF Waits
<1>5. req'[q] = r
  OBVIOUS
<1> HIDE DEF r
<1> QED
  BY <1>2, <1>3, <1>4, <1>5 DEF Waits, InSet

LEMMA WaitingStep ==
    ASSUME MaxGets < SeqMod, Alone, NoZeroAfterTake, Shapes, Shapes', Making, Laid, Seqs, Seqs', Rooted,
           Waiting, CountsFit, [Next]_vars
    PROVE  Waiting'
<1> SUFFICES ASSUME NEW q \in Threads
             PROVE  /\ pc'[q] \in {"semop", "asleep"} => ZeroFirst(req'[q].sops) /\ req'[q].k > 0
                    /\ pc'[q] = "asleep" /\ Valid(req[q].ix, req[q].k)' => Waits(q)'
  BY DEF Waiting, ZeroFirst
<1>1. Course(q)
  BY CourseStep
<1>2. CASE pc'[q] = pc[q] /\ req'[q] = req[q]
  <2>1. pc'[q] \in {"semop", "asleep"} => ZeroFirst(req'[q].sops) /\ req'[q].k > 0
    BY <1>2 DEF Waiting
  <2>2. ASSUME pc'[q] = "asleep", Valid(req[q].ix, req[q].k)' PROVE Waits(q)'
    <3> DEFINE e == req[q].ix
               k == req[q].k
    <3>1. e \in Evs /\ k \in Nat /\ k <= inst[e]
      BY DEF Shapes, Reqs, Seqs
    <3>2. sema'[e].alloc /\ sema'[e].seq = k % SeqMod
      BY <1>2, <2>2 DEF Valid
    <3> HIDE DEF e, k
    <3>3. Valid(e, k) /\ Moved(e)
      BY <3>1, <3>2, ValidBefore DEF Valid
    <3>4. Waits(q)
      BY <1>2, <2>2, <3>3 DEF Waiting, e, k
    <3> QED
      BY <1>2, <3>3, <3>4, WaitsKept DEF e
  <2> QED
    BY <2>1, <2>2
<1>3. CASE pc'[q] \notin {"semop", "asleep"}
  BY <1>3
<1>4. CASE pc'[q] = "semop" /\ req'[q].sops \in Vectors /\ req'[q].k > 0
  BY <1>4 DEF NoZeroAfterTake
<1>5. CASE /\ pc[q] \in {"semop", "asleep"} /\ req'[q].sops = req[q].sops /\ req'[q].k = req[q].k
           /\ SemopBody(q) \/ SemopAwake(q)
  <2>1. ZeroFirst(req'[q].sops) /\ req'[q].k > 0
    BY <1>5 DEF Waiting
  <2>2. pc'[q] = "asleep" => Waits(q)'
    BY <1>5, MovedAttempt
  <2> QED
    BY <2>1, <2>2
<1> QED
  BY <1>1, <1>2, <1>3, <1>4, <1>5 DEF Course

\* The count that a process waits under
CountOf(sop) == IF sop.op = 0 THEN "zcnt" ELSE "ncnt"

\* An operation of a vector can be done when the ones before it are.
Passes(v, sops, i) == CanDo(Applied(v, sops, 1)[i - 1][sops[i].num], sops[i].op)

\* The value of a semaphore goes where somebody waits for it.
Freed(v, v2, sop) ==
    \/ sop.op < 0 /\ v2[sop.num] > v[sop.num]
    \/ sop.op = 0 /\ v2[sop.num] = 0 /\ v[sop.num] > 0

\* What has to happen to the value of the semaphore before an operation can be done:
\* the operations before it add the same to the old value and to the new.
LEMMA WhatItNeeds ==
    ASSUME NEW sops \in Seq(Sops), ZeroFirst(sops), NEW stop \in 1 .. Len(sops), sops[stop].op <= 0,
           NEW D, NEW v \in [D -> Nat], NEW v2 \in [D -> Nat], sops[stop].num \in D,
           ~Passes(v, sops, stop), Passes(v2, sops, stop)
    PROVE  Freed(v, v2, sops[stop])
<1> DEFINE N == Len(sops)
           n == sops[stop].num
           op == sops[stop].op
           m == stop - 1
<1>1. N \in Nat /\ m \in 0 .. N /\ m = stop - 1
  OBVIOUS
<1>2. op \in Int /\ op <= 0 /\ n \in D
  <2>1. sops[stop] \in Sops
    BY ElementOfSeq
  <2> QED
    BY <2>1 DEF Sops
<1>3. v \in [D -> Int] /\ v2 \in [D -> Int] /\ v[n] \in Nat /\ v2[n] \in Nat
  BY <1>2
<1>4. PICK x : Traces(x, v, n, sops)
  <2> HIDE DEF n
  <2> QED
    BY <1>2, <1>3, AlongIs
<1>5. PICK y : Traces(y, v2, n, sops)
  <2> HIDE DEF n
  <2> QED
    BY <1>2, <1>3, AlongIs
<1>6. Along(x, N, n, sops) /\ x[0] = v[n] /\ Along(y, N, n, sops) /\ y[0] = v2[n]
  BY <1>4, <1>5 DEF Traces
<1>7. ~CanDo(x[m], op) /\ CanDo(y[m], op)
  BY <1>1, <1>4, <1>5 DEF Traces, Passes
<1>8. v[n] >= 0 /\ v2[n] >= 0 /\ v[n] \in Int /\ v2[n] \in Int /\ x[m] \in Int /\ y[m] \in Int
  BY <1>1, <1>3, <1>6 DEF Along
<1>9. ASSUME op = 0, NEW j \in 1 .. m, sops[j].num = n PROVE sops[j].op >= 0
  BY <1>9 DEF ZeroFirst
<1> HIDE DEF N, n, op, m
<1>10. y[m] - v2[n] = x[m] - v[n]
  <2>1. \A i \in 0 .. N : y[i] - y[0] = x[i] - x[0]
    BY <1>1, <1>6, AlongShift
  <2>2. y[m] - y[0] = x[m] - x[0]
    BY <1>1, <2>1
  <2> QED
    BY <1>6, <2>2
<1>11. op = 0 => y[m] >= v2[n]
  BY <1>1, <1>6, <1>9, AlongUp
<1>12. \/ op < 0 /\ v2[n] > v[n]
       \/ op = 0 /\ v2[n] = 0 /\ v[n] > 0
  <2> DEFINE a == x[m]
             a2 == y[m]
             w == v[n]
             w2 == v2[n]
  <2>1. /\ a \in Int /\ a2 \in Int /\ w \in Int /\ w2 \in Int /\ w >= 0 /\ w2 >= 0 /\ a2 - w2 = a - w
        /\ op \in Int /\ op <= 0 /\ (op = 0 => a2 >= w2) /\ ~CanDo(a, op) /\ CanDo(a2, op)
    BY <1>2, <1>7, <1>8, <1>10, <1>11
  <2> HIDE DEF a, a2, w, w2
  <2>2. CASE op < 0
    <3>1. ~(a + op >= 0) /\ a2 + op >= 0
      BY <2>1, <2>2, LimitAssumption DEF CanDo
    <3>2. w2 > w
      BY <2>1, <3>1
    <3> QED
      BY <2>2, <3>2 DEF w, w2
  <2>3. CASE op = 0
    <3>1. a # 0 /\ a2 = 0
      BY <2>1, <2>3, LimitAssumption DEF CanDo
    <3>2. w2 = 0 /\ w > 0
      BY <2>1, <2>3, <3>1
    <3> QED
      BY <2>3, <3>2 DEF w, w2
  <2> QED
    BY <2>1, <2>2, <2>3
<1> QED
  BY <1>12 DEF n, op, Freed

\* What makes it possible for a process that waits to go on wakes it.
LEMMA WakesWaiter ==
    ASSUME Laid, NEW e \in Evs, sema[e].alloc, Moved(e),
           NEW sops \in Seq(Sops), InSet(sops, sema[e].nsems), ZeroFirst(sops),
           NEW stop \in 1 .. Len(sops), sops[stop].op <= 0,
           sem[sema[e].base + sops[stop].num][CountOf(sops[stop])] > 0,
           NEW v2 \in [0 .. sema[e].nsems - 1 -> Nat],
           \A k \in 0 .. sema[e].nsems - 1 : v2[k] = sem'[sema[e].base + k].val,
           ~Passes(Vals(e), sops, stop), Passes(v2, sops, stop)
    PROVE  e \in posted'
<1> DEFINE W == 0 .. sema[e].nsems - 1
           b == sema[e].base
           v == Vals(e)
           n == sops[stop].num
           op == sops[stop].op
<1>1. n \in W
  <2>1. sops[stop] \in Sops
    BY ElementOfSeq
  <2>2. n \in Nat /\ n < sema[e].nsems
    BY <2>1 DEF Sops, InSet
  <2>3. sema[e].nsems \in Int
    BY LimitAssumption DEF Laid, PoolTypes
  <2> HIDE DEF n
  <2> QED
    BY <2>2, <2>3
<1>2. \A k \in W : v[k] = sem[b + k].val /\ v2[k] = sem'[b + k].val
  BY DEF Vals
<1>3. v \in [W -> Nat] /\ v2 \in [W -> Nat]
  <2>1. v \in [W -> 0 .. SEMVMX]
    BY StoreSame DEF Laid
  <2>2. 0 .. SEMVMX \subseteq Nat
    BY LimitAssumption
  <2> HIDE DEF v
  <2> QED
    BY <2>1, <2>2
<1>4. v \in [W -> Int] /\ v[n] \in Int /\ v2[n] \in Int
  <2> HIDE DEF v, n, W
  <2>1. v \in [W -> Int]
    BY <1>3
  <2>2. v[n] \in Nat /\ v2[n] \in Nat
    BY <1>1, <1>3
  <2> QED
    BY <2>1, <2>2
<1>5. \/ op < 0 /\ v2[n] > v[n]
      \/ op = 0 /\ v2[n] = 0 /\ v[n] > 0
  <2>1. Freed(v, v2, sops[stop])
    <3> HIDE DEF W
    <3> QED
      BY <1>1, <1>3, WhatItNeeds
  <2> QED
    BY <2>1 DEF Freed
<1>6. ~Still(e)
  <2>1. v2[n] # v[n]
    <3> HIDE DEF v, n, op
    <3> QED
      BY <1>4, <1>5
  <2> HIDE DEF v, n
  <2> QED
    BY <1>1, <1>2, <2>1 DEF Still
<1>7. ASSUME NEW o \in Seq(Sops), Stop(v, o) > Len(o), \A k \in W : v2[k] = Applied(v, o, 1)[Len(o)][k]
      PROVE  DoWakeup(e, o)
  <2> DEFINE M == Len(o)
             f == Applied(v, o, 1)
  <2>1. PICK z : Traces(z, v, n, o)
    <3> HIDE DEF v, W, n
    <3> QED
      BY <1>1, <1>4, AlongIs
  <2>2. M \in Nat /\ Along(z, M, n, o) /\ z[0] = v[n] /\ \A i \in 0 .. M : z[i] = f[i][n]
    BY <2>1 DEF Traces
  <2>3. z[M] = v2[n]
    <3>1. M \in 0 .. M
      BY <2>2
    <3> HIDE DEF v, n, W
    <3> QED
      BY <1>1, <1>7, <2>2, <3>1
  <2>4. CASE op < 0 /\ v2[n] > v[n]
    <3>1. PICK i \in 1 .. M : o[i].num = n /\ o[i].op > 0
      <4> HIDE DEF M, n, v, op
      <4>1. z[M] > z[0]
        BY <2>2, <2>3, <2>4
      <4> QED
        BY <2>2, <4>1, AlongDown
    <3>2. sem[b + n].ncnt > 0
      <4>1. CountOf(sops[stop]) = "ncnt"
        BY <2>4 DEF CountOf
      <4> QED
        BY <4>1
    <3> QED
      BY <3>1, <3>2 DEF DoWakeup
  <2>5. CASE op = 0 /\ v2[n] = 0 /\ v[n] > 0
    <3>1. ASSUME NEW i \in 1 .. M, o[i].num = n PROVE CanDo(z[i - 1], o[i].op)
      <4>1. CanDo(f[i - 1][o[i].num], o[i].op)
        BY <1>7, StopMeans
      <4>2. i - 1 \in 0 .. M
        BY <2>2
      <4> HIDE DEF f, n
      <4> QED
        BY <2>2, <3>1, <4>1, <4>2
    <3>2. PICK i \in 1 .. M : o[i].num = n /\ o[i].op < 0 /\ z[i] = 0
      <4> HIDE DEF M, n, v, op
      <4>1. z[0] > 0 /\ z[M] = 0
        BY <2>2, <2>3, <2>5
      <4> QED
        BY <2>2, <3>1, <4>1, AlongZero
    <3>3. sem[b + n].zcnt > 0
      <4>1. CountOf(sops[stop]) = "zcnt"
        BY <2>5 DEF CountOf
      <4> QED
        BY <4>1
    <3>4. Applied(Vals(e), o, 1)[i][o[i].num] = 0
      <4>1. i \in 0 .. M
        BY <2>2
      <4> QED
        BY <2>2, <3>2, <4>1
    <3> QED
      BY <3>2, <3>3, <3>4 DEF DoWakeup
  <2> QED
    BY <1>5, <2>4, <2>5
<1>8. Stirred(e) => e \in posted'
  <2> SUFFICES ASSUME Stirred(e) PROVE e \in posted'
    OBVIOUS
  <2>1. PICK o \in Seq(Sops) :
          /\ Stop(Vals(e), o) > Len(o)
          /\ \A k \in 0 .. sema[e].nsems - 1 :
               sem'[sema[e].base + k].val = Applied(Vals(e), o, 1)[Len(o)][k]
          /\ DoWakeup(e, o) => e \in posted'
    BY DEF Stirred
  <2>2. \A k \in W : v2[k] = Applied(v, o, 1)[Len(o)][k]
    BY <1>2, <2>1
  <2>3. DoWakeup(e, o)
    BY <1>7, <2>1, <2>2
  <2> QED
    BY <2>1, <2>3
<1> QED
  BY <1>6, <1>8 DEF Moved

LEMMA WokenStep ==
    ASSUME MaxGets < SeqMod, Alone, Shapes, Shapes', Making, Laid, Laid', Seqs, Seqs', Rooted, Waiting,
           CountsFit, [Next]_vars, NEW p \in Threads, pc[p] = "asleep", spc[p] # "out",
           CountedFor(p), Ready(p)'
    PROVE  req[p].ix \in posted'
<1> DEFINE e == req[p].ix
           k == req[p].k
           sops == req[p].sops
           v == Vals(e)
           stop == Stop(v, sops)
           sop == sops[stop]
           v2 == [n \in 0 .. (sema'[e].nsems - 1) |-> sem'[sema'[e].base + n].val]
<1>1. e \in Evs /\ k \in Nat /\ k <= inst[e] /\ sops \in Seq(Sops)
  BY DEF Shapes, Reqs, Seqs
<1>2. req'[p] = req[p]
  <2>1. Course(p)
    BY CourseStep
  <2>2. ~SemopBody(p) /\ ~SemopAwake(p)
    BY DEF SemopBody, SemopAwake
  <2> QED
    BY <2>1, <2>2 DEF Course
<1>3. sema'[e].alloc /\ sema'[e].seq = k % SeqMod /\ Stop(v2, sops) > Len(sops)
  BY <1>2 DEF Ready, Valid, Vals
<1>4. Valid(e, k) /\ Moved(e)
  <2> HIDE DEF e, k
  <2> QED
    BY <1>1, <1>3, ValidBefore DEF Valid
<1>5. /\ stop <= Len(sops) /\ sop.op <= 0
      /\ req[p].num = sema[e].base + sop.num /\ req[p].cnt = CountOf(sop)
  BY DEF CountedFor, CountOf
<1>6. Waits(p) /\ ZeroFirst(sops) /\ sema[e].alloc /\ sema'[e] = sema[e]
  BY <1>4 DEF Waiting, Valid, Moved
<1>7. InSet(sops, sema[e].nsems) /\ sem[sema[e].base + sop.num][CountOf(sop)] > 0
  <2>1. InSet(sops, sema[e].nsems) /\ sem[req[p].num][req[p].cnt] > 0
    BY <1>6 DEF Waits
  <2> HIDE DEF sop, sops, e
  <2> QED
    BY <1>5, <2>1
<1>8. stop \in 1 .. Len(sops) /\ ~Passes(v, sops, stop)
  <2> HIDE DEF v, sops
  <2>1. /\ Stop(v, sops) > Len(sops) \/ Stop(v, sops) \in 1 .. Len(sops)
        /\ ~(Stop(v, sops) > Len(sops)) => ~Passes(v, sops, stop)
    BY <1>1, StopMeans DEF Passes
  <2>2. Stop(v, sops) \in Nat /\ Len(sops) \in Nat
    BY <1>1, StopMeans
  <2>3. Stop(v, sops) <= Len(sops)
    BY <1>5
  <2>4. ~(Stop(v, sops) > Len(sops))
    BY <2>2, <2>3
  <2> QED
    BY <2>1, <2>4
<1>9. Passes(v2, sops, stop)
  <2> HIDE DEF v2, sops, stop
  <2>1. \A i \in 1 .. Len(sops) : CanDo(Applied(v2, sops, 1)[i - 1][sops[i].num], sops[i].op)
    BY <1>1, <1>3, StopMeans
  <2> QED
    BY <1>8, <2>1 DEF Passes
<1>10. /\ v2 \in [0 .. sema[e].nsems - 1 -> Nat]
       /\ \A n \in 0 .. sema[e].nsems - 1 : v2[n] = sem'[sema[e].base + n].val
  <2> DEFINE W == 0 .. sema[e].nsems - 1
  <2>1. v2 = [n \in W |-> sem'[sema[e].base + n].val]
    BY <1>6
  <2>2. \A n \in W : sema[e].base + n \in Pool
    BY <1>1, <1>6, InPool DEF Laid
  <2>3. ASSUME NEW i \in Pool PROVE sem'[i].val \in Nat
    <3>1. sem'[i] \in Cells
      BY DEF Laid, PoolTypes
    <3> QED
      BY <3>1, LimitAssumption DEF Cells
  <2> HIDE DEF v2, e
  <2> QED
    BY <2>1, <2>2, <2>3
<1> HIDE DEF e, sops, v2, stop
<1> QED
  BY <1>1, <1>4, <1>5, <1>6, <1>7, <1>8, <1>9, <1>10, WakesWaiter DEF e, v

\* "we go to sleep until some other process wakes us up" (sysv_sem.c:1042-1044), for
\* any vectors that do not take from a semaphore and then wait for it to be zero, and
\* any number of processes, sets and limits: the step that makes it possible for a
\* process that waits to go on posts the event of its set (sysv_sem.c:1065-1088,
\* 1213-1221, 753, 789).  It is false for the other vectors, where do_wakeup looks for
\* the value zero and the sleeper needs another, and false once so many processes have
\* slept that the counts, which SleepDone never takes back, come round to zero.
THEOREM WokenWhenReadyHolds ==
    ASSUME MaxGets < SeqMod, Alone, NoZeroAfterTake
    PROVE  Spec /\ []CountsFit => WokenWhenReady
<1> DEFINE Inv == Shapes /\ Making /\ Owned /\ Laid /\ Seqs /\ Rooted /\ Waiting
           Woken == \A p \in Threads :
                      /\ pc[p] = "asleep" /\ spc[p] \in {"unlocked", "checked", "blocked"}
                      /\ p \notin fDone'
                      /\ CountedFor(p) /\ Ready(p)'
                      => req[p].ix \in posted'
<1>1. Init => Inv
  <2> SUFFICES ASSUME Init PROVE Seqs /\ Rooted /\ Waiting
    BY ShapesInit, MakingInit, LaidInit
  <2>1. \A e \in Evs : sema[e].seq = 0 /\ inst[e] = 0 /\ ~sema[e].alloc
    BY DEF Init
  <2>2. \A p \in Threads : req[p].k = 0 /\ req[p].ix \in Evs /\ pc[p] = "idle"
    <3>1. NoReq.k = 0 /\ NoReq.ix \in Evs
      BY NoReqIs DEF NoReq, Reqs
    <3> QED
      BY <3>1 DEF Init
  <2>3. foreign = FALSE
    BY DEF Init
  <2>4. Seqs
    BY <2>1, <2>2, <2>3, LimitAssumption DEF Seqs
  <2> QED
    BY <2>1, <2>2, <2>4 DEF Rooted, Waiting, Removing
<1>2. Inv /\ CountsFit /\ [Next]_vars => Inv'
  BY ShapesStep, MakingStep, OwnedStep, LaidStep, SeqsStep, RootedStep, WaitingStep
<1>3. Inv /\ Inv' /\ CountsFit /\ [Next]_vars => [Woken]_vars
  BY WokenStep
<1>4. WokenWhenReady <=> [][Woken]_vars
  BY DEF WokenWhenReady
<1> QED
  BY <1>1, <1>2, <1>3, <1>4, PTL DEF Spec

-----------------------------------------------------------------------------
(* The event semaphores: pfnComplete                                        *)

\* pfnComplete was called once in a sleep that is over, by the signal callback if it was
\* called while the thread sleeps.
Once(t) ==
    /\ spc[t] \in Asleep => t \in slept
    /\ spc[t] \in Asleep /\ t \in fDone => completions[t] = 1
    /\ spc[t] \in Asleep /\ t \notin fDone => completions[t] = 0
    /\ spc[t] = "out" /\ t \in slept => completions[t] = 1
    /\ t \in fDone => rc[t] = "EINTR"

\* The inductive invariant.  The type of on is not needed.
CompletedInv ==
    /\ spc \in [Threads -> Asleep \union {"out"}]
    /\ rc \in [Threads -> {"ok", "EINTR"}]
    /\ completions \in [Threads -> Nat]
    /\ fDone \subseteq Threads
    /\ \A t \in Threads : Once(t)

LEMMA InitCompleted == ClientInit => CompletedInv
BY DEF ClientInit, EvInit, CompletedInv, Once, Asleep

LEMMA NextCompleted == CompletedInv /\ [ClientNext]_clientVars => CompletedInv'
<1> SUFFICES ASSUME CompletedInv, [ClientNext]_clientVars PROVE CompletedInv'
  OBVIOUS
<1> USE DEF CompletedInv, sleepHistory
<1>1. ASSUME NEW t \in Threads, NEW e \in Evs, Lock(t, e) \/ Unlock(t, e) PROVE CompletedInv'
  BY <1>1 DEF Lock, Unlock, Once
<1>2. ASSUME NEW t \in Threads, NEW e \in Evs, Sleep(t, e) PROVE CompletedInv'
  BY <1>2 DEF Sleep, EvSleep, Once, Asleep
<1>3. ASSUME NEW t \in Threads, NEW e \in Evs, Wakeup(t, e) PROVE CompletedInv'
  BY <1>3 DEF Wakeup, EvWakeup, Blocked, Once, Asleep
<1>4. ASSUME NEW t \in Threads, Step(t) PROVE CompletedInv'
  BY <1>4 DEF Step, EvCheck, EvWait, Once, Asleep
<1>5. ASSUME NEW t \in Threads, Interrupt(t) PROVE CompletedInv'
  BY <1>5 DEF Interrupt, EvInterrupt, Once, Asleep
<1>6. ASSUME NEW t \in Threads, Signal(t) PROVE CompletedInv'
  BY <1>6 DEF Signal, EvSignal, Once, Asleep
<1>7. ASSUME NEW t \in Threads, Return(t) PROVE CompletedInv'
  BY <1>7 DEF Return, EvReturn, Once, Asleep
<1>8. CASE UNCHANGED clientVars
  BY <1>8 DEF clientVars, Once
<1> QED
  BY <1>1, <1>2, <1>3, <1>4, <1>5, <1>6, <1>7, <1>8 DEF ClientNext

\* pfnComplete has run exactly once when a sleep returns, however many threads sleep and
\* wherever signals strike (safesems.c:371-386, 510-516).
THEOREM CompletedOnceHolds == ClientSpec => []CompletedOnce
<1>1. CompletedInv => CompletedOnce
  BY DEF CompletedInv, Once, CompletedOnce
<1>2. ClientSpec => []CompletedInv
  BY InitCompleted, NextCompleted, PTL DEF ClientSpec
<1> QED
  BY <1>1, <1>2, PTL

-----------------------------------------------------------------------------
(* Wake-ups                                                                 *)

\* A thread a wake-up is due to is asleep.  Until another sleeper has reset the event it is
\* not blocked, and finds the event posted as long as it may still block on it.
Reached ==
    \A t \in due :
        /\ spc[t] \in Asleep
        /\ t \notin undercut => spc[t] # "blocked"
        /\ t \notin undercut /\ spc[t] \in {"unlocked", "checked"} => on[t] \in posted

\* The events, mutexes and threads keep their types.
LEMMA TypeStep == ClientTypeOK /\ [ClientNext]_clientVars => ClientTypeOK'
<1> SUFFICES ASSUME ClientTypeOK, [ClientNext]_clientVars PROVE ClientTypeOK'
  OBVIOUS
<1> USE DEF ClientTypeOK, EvTypeOK, Asleep, sleepHistory
<1>1. ASSUME NEW t \in Threads, NEW e \in Evs, Lock(t, e) \/ Unlock(t, e) PROVE ClientTypeOK'
  BY <1>1 DEF Lock, Unlock, MtxLock, MtxUnlock
<1>2. ASSUME NEW t \in Threads, NEW e \in Evs, Sleep(t, e) PROVE ClientTypeOK'
  BY <1>2 DEF Sleep, EvSleep, MtxUnlock
<1>3. ASSUME NEW t \in Threads, NEW e \in Evs, Wakeup(t, e) PROVE ClientTypeOK'
  BY <1>3 DEF Wakeup, EvWakeup, Sleepers
<1>4. ASSUME NEW t \in Threads, Step(t) PROVE ClientTypeOK'
  BY <1>4 DEF Step, EvCheck, EvWait
<1>5. ASSUME NEW t \in Threads, Interrupt(t) PROVE ClientTypeOK'
  BY <1>5 DEF Interrupt, EvInterrupt
<1>6. ASSUME NEW t \in Threads, Signal(t) PROVE ClientTypeOK'
  BY <1>6 DEF Signal, EvSignal
<1>7. ASSUME NEW t \in Threads, Return(t) PROVE ClientTypeOK'
  BY <1>7 DEF Return, EvReturn, MtxLock
<1>8. CASE UNCHANGED clientVars
  BY <1>8 DEF clientVars
<1> QED
  BY <1>1, <1>2, <1>3, <1>4, <1>5, <1>6, <1>7, <1>8 DEF ClientNext

\* The owner of a mutex is not asleep and owns no other.
OwnerAwake ==
    \A e \in Evs : mtx[e] # NoThread =>
        spc[mtx[e]] = "out" /\ \A f \in Evs : mtx[f] = mtx[e] => f = e

\* A mutex is taken by a thread that owns none, and given up to sleep.
LEMMA OwnerStep == ClientTypeOK /\ OwnerAwake /\ [ClientNext]_clientVars => OwnerAwake'
<1> SUFFICES ASSUME ClientTypeOK, OwnerAwake, [ClientNext]_clientVars PROVE OwnerAwake'
  OBVIOUS
<1> USE EventAssumption DEF ClientTypeOK, EvTypeOK, Asleep, OwnerAwake, sleepHistory
<1>1. ASSUME NEW t \in Threads, NEW e \in Evs, Lock(t, e) \/ Unlock(t, e)
      PROVE  OwnerAwake'
  BY <1>1 DEF Lock, Unlock, MtxLock, MtxUnlock
<1>2. ASSUME NEW t \in Threads, NEW e \in Evs, Sleep(t, e) PROVE OwnerAwake'
  BY <1>2 DEF Sleep, EvSleep, MtxUnlock
<1>3. ASSUME NEW t \in Threads, NEW e \in Evs, Wakeup(t, e) PROVE OwnerAwake'
  BY <1>3 DEF Wakeup, EvWakeup, Blocked
<1>4. ASSUME NEW t \in Threads, Step(t) PROVE OwnerAwake'
  BY <1>4 DEF Step, EvCheck, EvWait
<1>5. ASSUME NEW t \in Threads, Interrupt(t) PROVE OwnerAwake'
  BY <1>5 DEF Interrupt, EvInterrupt
<1>6. ASSUME NEW t \in Threads, Signal(t) PROVE OwnerAwake'
  BY <1>6 DEF Signal, EvSignal
<1>7. ASSUME NEW t \in Threads, Return(t) PROVE OwnerAwake'
  BY <1>7 DEF Return, EvReturn, MtxLock
<1>8. CASE UNCHANGED clientVars
  BY <1>8 DEF clientVars
<1> QED
  BY <1>1, <1>2, <1>3, <1>4, <1>5, <1>6, <1>7, <1>8 DEF ClientNext

\* Every step keeps a due wake-up within reach.
LEMMA ReachStep ==
    ASSUME ClientTypeOK, OwnerAwake, Reached, [ClientNext]_clientVars
    PROVE  Reached'
<1> USE DEF ClientTypeOK, EvTypeOK, Asleep, Reached, sleepHistory
<1>1. ASSUME NEW t \in Threads, NEW e \in Evs, Lock(t, e) \/ Unlock(t, e) PROVE Reached'
  BY <1>1 DEF Lock, Unlock
<1>2. ASSUME NEW t \in Threads, NEW e \in Evs, Sleep(t, e) PROVE Reached'
  <2>1. spc[t] = "out"
    BY <1>2, EventAssumption DEF Sleep, EvSleep, MtxUnlock, OwnerAwake
  <2>2. /\ spc' = [spc EXCEPT ![t] = "unlocked"] /\ on' = [on EXCEPT ![t] = e]
        /\ posted' = posted /\ due' = due /\ undercut' = undercut
    BY <1>2 DEF Sleep, EvSleep
  <2> QED
    BY <2>1, <2>2
<1>3. ASSUME NEW t \in Threads, NEW e \in Evs, Wakeup(t, e) PROVE Reached'
  BY <1>3 DEF Wakeup, EvWakeup, Blocked, Sleepers
<1>4. ASSUME NEW t \in Threads, Step(t) PROVE Reached'
  BY <1>4 DEF Step, EvCheck, EvWait
<1>5. ASSUME NEW t \in Threads, Interrupt(t) PROVE Reached'
  BY <1>5 DEF Interrupt, EvInterrupt
<1>6. ASSUME NEW t \in Threads, Signal(t) PROVE Reached'
  BY <1>6 DEF Signal, EvSignal
<1>7. ASSUME NEW t \in Threads, Return(t) PROVE Reached'
  BY <1>7 DEF Return, EvReturn
<1>8. CASE UNCHANGED clientVars
  BY <1>8 DEF clientVars
<1> QED
  BY <1>1, <1>2, <1>3, <1>4, <1>5, <1>6, <1>7, <1>8 DEF ClientNext

\* A thread that was asleep at a wake-up is not blocked until another sleeper has reset
\* the event, for any number of threads, events and sleepers on each (safesems.c:461-489,
\* 561).
THEOREM WakeReachesHolds == ClientSpec => []WakeReaches
<1> DEFINE J == ClientTypeOK /\ OwnerAwake /\ Reached
<1>1. ClientInit => J
  BY EventAssumption
     DEF ClientInit, EvInit, ClientTypeOK, EvTypeOK, Asleep, OwnerAwake, Reached
<1>2. J /\ [ClientNext]_clientVars => J'
  BY TypeStep, OwnerStep, ReachStep
<1>3. J => WakeReaches
  BY DEF WakeReaches, Reached
<1> QED
  BY <1>1, <1>2, <1>3, PTL DEF ClientSpec
=============================================================================
