--------------------------- MODULE SharedPMProofs ---------------------------
(***************************************************************************)
(* Shared process management for any number of processes, blocks, failed    *)
(* calls and searches.  The properties of the run follow from one inductive *)
(* invariant, Good.  What they need beyond themselves:                      *)
(* First, Loading: a child that loads finds its own embryo, since the one   *)
(* its parent holds is the first of the parent's, or the parent has put the *)
(* id of the child into it before it let go (sharedpm.c:2898-2933);         *)
(* Held, that the block of a spawn is the one of its child at every step;   *)
(* Counts, that nobody has a block without a reference, so that neither a   *)
(* release nor an end frees it under a user;                                *)
(* Notes, that a note is of a child that ended and has not been asked for.  *)
(* They hold until a zombie that a spawn holds is given to a new process    *)
(* (robbed; sharedpm.c:3088-3105, MCSharedPMZombie.cfg): up to then every   *)
(* step is one with Spared.                                                 *)
(***************************************************************************)
EXTENDS SharedPM, WellFoundedInduction, FiniteSetTheorems, SequenceTheorems, TLAPS

-----------------------------------------------------------------------------
(* The inductive invariant                                                  *)

Memory == [blk : [Blocks -> Block], embryos : Seq(Blocks), zombies : Seq(Blocks)]

\* The lists hold the blocks of their state, once.
Lists(S) ==
    /\ S \in Memory
    /\ IsInjective(S.embryos) /\ IsInjective(S.zombies)
    /\ \A b \in Blocks : b \in Range(S.embryos) <=> S.blk[b].st = "embryo"
    /\ \A b \in Blocks : b \in Range(S.zombies) <=> S.blk[b].st = "zombie"

\* The processes: what is known of them agrees.
Processes ==
    /\ os \in [Procs -> {"none", "loading", "run", "dead"}]
    /\ parent \in [Procs -> Procs \union {None}]
    /\ self \in [Procs -> Blocks \union {None}]
    /\ held \in [Procs -> Blocks \union {None}]
    /\ step \in [Procs -> {"idle", "embryo", "started", "named"}]
    /\ child \in [Procs -> Procs \union {None}]
    /\ libc \subseteq Procs /\ silent \subseteq libc /\ asked \subseteq Procs /\ told \subseteq asked
    /\ fails \in 0 .. MaxFails /\ queries \in 0 .. MaxQueries
    /\ os[Root] \in {"run", "dead"}
    /\ \A p \in Procs :
         /\ self[p] # None => os[p] = "run" /\ p \in libc
         /\ p \in libc => os[p] = "dead" \/ Uses(p)
         /\ p \in asked => os[p] = "dead"
         /\ p \in told => p \notin silent
         /\ held[p] = None <=> step[p] = "idle"
         /\ child[p] = None <=> step[p] \in {"idle", "embryo"}
         /\ held[p] # None => Uses(p)
         /\ child[p] # None => parent[child[p]] = p /\ os[child[p]] # "none"
         /\ os[p] = "none" => parent[p] = None
         /\ parent[p] # None => os[parent[p]] = "dead" \/ Uses(parent[p])
         /\ parent[p] # p

\* An embryo belongs to a process that lives, and is for a child of it that has no
\* block yet.
EmbryoOf(B) ==
    /\ B.parent # None /\ Uses(B.parent)
    /\ B.notes = <<>>
    /\ B.pid # None => B.pid = B.for
    /\ B.for # None => /\ os[B.for] # "none" /\ parent[B.for] = B.parent
                       /\ B.for \notin libc /\ B.for # Root

AliveOf(b, B) ==
    /\ B.pid # None /\ self[B.pid] = b
    /\ B.term <=> B.pid \notin silent
    /\ B.parent = parent[B.pid]
    /\ B.pid # Root => B.for = B.pid

Blks(S) ==
    /\ \A b \in Blocks :
         LET B == S.blk[b] IN
         /\ B.st = "free" => B = Free
         /\ B.st = "embryo" => EmbryoOf(B)
         /\ B.st = "alive" => AliveOf(b, B)
         /\ B.st = "zombie" => B.refs > 0
    /\ \A b, d \in Blocks :
         S.blk[b].st = "embryo" /\ S.blk[d].st = "embryo"
            /\ S.blk[b].for # None /\ S.blk[b].for = S.blk[d].for => b = d

\* The block of a process, and the one its spawn or fork has.
Own(S) ==
    \A p \in Procs : self[p] # None => S.blk[self[p]].st = "alive" /\ S.blk[self[p]].pid = p

HeldOf(p, B) ==
    /\ B.st # "free" /\ B.parent = p
    /\ step[p] = "embryo" => B.st = "embryo" /\ B.pid = None /\ B.for = None
    /\ child[p] # None => B.for = child[p] /\ B.pid \in {None, child[p]}
    /\ step[p] = "named" /\ B.st = "embryo" /\ ~B.fork => B.pid = child[p]

Held(S) == \A p \in Procs : held[p] # None => HeldOf(p, S.blk[held[p]])

\* The embryo a process holds is the first one of that process.
Foremost(S, p, x) ==
    \A i, j \in DOMAIN S.embryos :
        S.embryos[j] = x /\ S.blk[S.embryos[i]].parent = p => j <= i

First(S) == \A p \in Procs : held[p] # None => Foremost(S, p, held[p])

\* A block has one reference of its process and one of a spawn, at least.
Users(S, b) ==
    (IF S.blk[b].st = "alive" THEN 1 ELSE 0) + (IF \E p \in Procs : held[p] = b THEN 1 ELSE 0)

CountOf(S, b) == Users(S, b) <= S.blk[b].refs

Counts(S) == \A b \in Blocks : CountOf(S, b)

\* A child that loads finds its embryo: its parent holds it, or has put its id there.
Awaited(S, c) ==
    \/ child[parent[c]] = c /\ S.blk[held[parent[c]]].st = "embryo"
    \/ \E b \in Blocks : S.blk[b].st = "embryo" /\ S.blk[b].parent = parent[c] /\ S.blk[b].pid = c
    \/ os[parent[c]] = "dead"

Loading(S) == \A c \in Procs : os[c] = "loading" => parent[c] # None /\ Awaited(S, c)

\* The notes of a process are of its children that ended and had room for one, one each.
Noted(p, notes) ==
    /\ IsInjective(notes)
    /\ \A c \in Range(notes) : c \in libc \ silent /\ os[c] = "dead" /\ parent[c] = p /\ c \notin asked
    /\ \A c \in libc \ silent : os[c] = "dead" /\ parent[c] = p =>
         IF c \in asked THEN c \in told ELSE c \in Range(notes)

Notes(S) == \A p \in Procs : self[p] # None => Noted(p, S.blk[self[p]].notes)

Good(S) ==
    /\ Lists(S) /\ Processes /\ Blks(S) /\ Own(S) /\ Held(S) /\ First(S)
    /\ Counts(S) /\ Loading(S) /\ Notes(S)

-----------------------------------------------------------------------------
(* Lists                                                                    *)

\* Induction over the naturals, for sets.
LEMMA Induction ==
    ASSUME NEW S, 0 \in S, \A n \in Nat : n \in S => n + 1 \in S
    PROVE  Nat \subseteq S
<1> DEFINE R == OpToRel(<, Nat)
           T == Nat \ S
<1> SUFFICES ASSUME T # {} PROVE FALSE
  OBVIOUS
<1>1. PICK n \in T : \A m \in T : ~(<<m, n>> \in R)
  BY NatLessThanWellFounded, WFMin
<1>2. n \in Nat /\ n # 0 /\ n - 1 \in Nat /\ n - 1 < n
  <2>1. n \in Nat /\ n \notin S
    BY <1>1
  <2>2. n # 0
    BY <2>1
  <2> QED
    BY <2>1, <2>2
<1>3. <<n - 1, n>> \in R
  BY <1>2 DEF OpToRel
<1>4. n - 1 \in S
  BY <1>1, <1>2, <1>3
<1>5. (n - 1) + 1 = n
  BY <1>2
<1> QED
  BY <1>1, <1>2, <1>4, <1>5

\* f is defined by its first value and the steps h.
Recurs(f, N, X, v, h) ==
    /\ f \in [0 .. N -> X]
    /\ f[0] = v /\ \A i \in 1 .. N : f[i] = h[i][f[i - 1]]

\* A function on 0 .. N may be defined by its first value and a step.
LEMMA Recursion ==
    ASSUME NEW N \in Nat, NEW X, NEW v \in X, NEW h \in [1 .. N -> [X -> X]]
    PROVE  \E f : Recurs(f, N, X, v, h)
<1> DEFINE P(n) == \E f \in [0 .. n -> X] :
                     f[0] = v /\ \A i \in 1 .. n : f[i] = h[i][f[i - 1]]
           S == {n \in Nat : n <= N => P(n)}
<1>1. 0 \in S
  <2> DEFINE f == [i \in 0 .. 0 |-> v]
  <2>1. f \in [0 .. 0 -> X] /\ f[0] = v /\ 1 .. 0 = {}
    OBVIOUS
  <2> HIDE DEF f
  <2>2. P(0)
    BY <2>1
  <2> QED
    BY <2>2
<1>2. ASSUME NEW n \in Nat, n \in S PROVE n + 1 \in S
  <2> SUFFICES ASSUME n + 1 <= N PROVE P(n + 1)
    OBVIOUS
  <2>0. P(n)
    BY <1>2
  <2>1. PICK f \in [0 .. n -> X] :
          f[0] = v /\ \A i \in 1 .. n : f[i] = h[i][f[i - 1]]
    BY <2>0
  <2> DEFINE g == [i \in 0 .. n + 1 |-> IF i = n + 1 THEN h[n + 1][f[n]] ELSE f[i]]
  <2>2. f[n] \in X /\ n + 1 \in 1 .. N
    BY <2>1
  <2>3. h[n + 1][f[n]] \in X
    BY <2>2
  <2>4. \A i \in 0 .. n + 1 : i # n + 1 => i \in 0 .. n
    OBVIOUS
  <2>5. g \in [0 .. n + 1 -> X]
    BY <2>1, <2>3, <2>4
  <2>6. g[0] = v
    BY <2>1
  <2>7. ASSUME NEW i \in 1 .. n + 1 PROVE g[i] = h[i][g[i - 1]]
    <3>1. CASE i = n + 1
      <4>1. i \in 0 .. n + 1 /\ i - 1 = n /\ n \in 0 .. n + 1 /\ n # n + 1
        BY <3>1
      <4>2. g[i] = h[n + 1][f[n]] /\ g[n] = f[n]
        BY <3>1, <4>1
      <4> QED
        BY <3>1, <4>1, <4>2
    <3>2. CASE i # n + 1
      <4>1. i \in 1 .. n /\ i - 1 \in 0 .. n /\ i - 1 # n + 1 /\ i \in 0 .. n + 1 /\ i - 1 \in 0 .. n + 1
        BY <3>2
      <4>2. g[i] = f[i] /\ g[i - 1] = f[i - 1]
        BY <4>1, <3>2
      <4> QED
        BY <2>1, <4>1, <4>2
    <3> QED
      BY <3>1, <3>2
  <2> HIDE DEF g
  <2> QED
    BY <2>5, <2>6, <2>7
<1>3. Nat \subseteq S
  <2> HIDE DEF S
  <2> QED
    BY <1>1, <1>2, Induction
<1>4. N \in S
  BY <1>3
<1>5. P(N)
  BY <1>4
<1> QED
  BY <1>5 DEF Recurs

\* The order of r is the one of list: m says where each element comes from.
Picks(m, list, r) ==
    /\ m \in [1 .. Len(r) -> 1 .. Len(list)]
    /\ \A i \in 1 .. Len(r) : r[i] = list[m[i]]
    /\ \A i, j \in 1 .. Len(r) : i < j => m[i] < m[j]

\* f picks the elements of list that are in bs one by one.
Filters(f, X, list, bs) ==
    /\ f \in [0 .. Len(list) -> Seq(X)]
    /\ f[0] = <<>>
    /\ \A i \in 1 .. Len(list) :
         f[i] = IF list[i] \in bs THEN Append(f[i - 1], list[i]) ELSE f[i - 1]

\* Among is the last value of such an f.
LEMMA AmongIs ==
    ASSUME NEW X, NEW list \in Seq(X), NEW bs
    PROVE  \E f : Filters(f, X, list, bs) /\ Among(list, bs) = f[Len(list)]
<1> DEFINE N == Len(list)
           Y == Seq(X)
           Next1(y, i) == IF list[i] \in bs THEN Append(y, list[i]) ELSE y
           h == [i \in 1 .. N |-> [y \in Y |-> Next1(y, i)]]
<1>1. N \in Nat /\ <<>> \in Y
  OBVIOUS
<1>2. \A i \in 1 .. N : list[i] \in X
  OBVIOUS
<1>3. \A y \in Y, i \in 1 .. N : Next1(y, i) \in Y
  BY <1>2
<1> HIDE DEF Next1, Y, N
<1>4. h \in [1 .. N -> [Y -> Y]]
  BY <1>3
<1>5. \A y \in Y, i \in 1 .. N : h[i][y] = Next1(y, i)
  OBVIOUS
<1> HIDE DEF h
<1>6. PICK g : Recurs(g, N, Y, <<>>, h)
  BY <1>1, <1>4, Recursion
<1>7. g \in [0 .. N -> Y] /\ g[0] = <<>>
  BY <1>6 DEF Recurs
<1>8. \A i \in 1 .. N : g[i] = Next1(g[i - 1], i)
  <2> SUFFICES ASSUME NEW i \in 1 .. N PROVE g[i] = Next1(g[i - 1], i)
    OBVIOUS
  <2>1. i - 1 \in 0 .. N
    BY <1>1
  <2> QED
    BY <1>5, <1>6, <2>1 DEF Recurs
<1>9. g = [i \in 0 .. N |-> IF i = 0 THEN <<>> ELSE Next1(g[i - 1], i)]
  <2>1. \A i \in 0 .. N : g[i] = IF i = 0 THEN <<>> ELSE Next1(g[i - 1], i)
    BY <1>1, <1>7, <1>8
  <2> QED
    BY <1>7, <2>1
<1> DEFINE f == CHOOSE F : F = [i \in 0 .. N |-> IF i = 0 THEN <<>> ELSE Next1(F[i - 1], i)]
<1>10. f = [i \in 0 .. N |-> IF i = 0 THEN <<>> ELSE Next1(f[i - 1], i)]
  BY <1>9, Zenon
<1>11. Among(list, bs) = f[Len(list)]
  BY Zenon DEF Among, Next1, N
<1> HIDE DEF f
<1>12. f[0] = <<>> /\ \A i \in 1 .. N : f[i] = Next1(f[i - 1], i)
  BY <1>1, <1>10
<1>13. \A i \in 0 .. N : f[i] = g[i]
  <2> DEFINE T == {i \in Nat : i <= N => f[i] = g[i]}
  <2>1. 0 \in T
    BY <1>7, <1>12
  <2>2. ASSUME NEW n \in Nat, n \in T PROVE n + 1 \in T
    <3> SUFFICES ASSUME n + 1 <= N PROVE f[n + 1] = g[n + 1]
      OBVIOUS
    <3>1. n + 1 \in 1 .. N /\ (n + 1) - 1 = n /\ f[n] = g[n]
      BY <1>1, <2>2
    <3> QED
      BY <1>8, <1>12, <3>1
  <2> HIDE DEF T
  <2>3. Nat \subseteq T
    BY <2>1, <2>2, Induction
  <2> QED
    BY <1>1, <2>3 DEF T
<1>14. f = [i \in 0 .. N |-> f[i]]
  BY <1>10
<1>15. f \in [0 .. N -> Y]
  BY <1>7, <1>13, <1>14
<1> QED
  BY <1>11, <1>12, <1>15 DEF Filters, N, Y, Next1

\* r holds those of the first n elements that are in bs.
Picked(m, n, list, bs, r) ==
    /\ m \in [1 .. Len(r) -> 1 .. n]
    /\ \A i \in 1 .. Len(r) : r[i] = list[m[i]] /\ r[i] \in bs
    /\ \A i, j \in 1 .. Len(r) : i < j => m[i] < m[j]
    /\ \A k \in 1 .. n : list[k] \in bs => \E i \in 1 .. Len(r) : m[i] = k

\* One more element.
LEMMA PickOne ==
    ASSUME NEW X, NEW list \in Seq(X), NEW bs, NEW n \in Nat, n + 1 <= Len(list),
           NEW r \in Seq(X), NEW m, Picked(m, n, list, bs, r), NEW s,
           s = IF list[n + 1] \in bs THEN Append(r, list[n + 1]) ELSE r
    PROVE  \E w : Picked(w, n + 1, list, bs, s)
<1>0. Len(r) \in Nat /\ n + 1 \in 1 .. Len(list) /\ list[n + 1] \in X
  OBVIOUS
<1>1. CASE list[n + 1] \notin bs
  <2>1. s = r
    BY <1>1
  <2>2. m \in [1 .. Len(r) -> 1 .. n + 1]
    BY DEF Picked
  <2>3. \A k \in 1 .. n + 1 : list[k] \in bs => k \in 1 .. n
    BY <1>1
  <2>4. Picked(m, n + 1, list, bs, s)
    BY <2>1, <2>2, <2>3 DEF Picked
  <2> QED
    BY <2>4
<1>2. CASE list[n + 1] \in bs
  <2> DEFINE L == Len(r)
             w == [i \in 1 .. L + 1 |-> IF i = L + 1 THEN n + 1 ELSE m[i]]
  <2>1. /\ s = Append(r, list[n + 1]) /\ Len(s) = L + 1 /\ s[L + 1] = list[n + 1]
        /\ \A i \in 1 .. L : s[i] = r[i]
    BY <1>0, <1>2
  <2>2. \A i \in 1 .. L : m[i] \in 1 .. n
    BY DEF Picked
  <2>3. \A i \in 1 .. L + 1 : i # L + 1 => i \in 1 .. L
    BY <1>0
  <2>4. w \in [1 .. L + 1 -> 1 .. n + 1]
    <3>1. \A i \in 1 .. L + 1 : w[i] \in 1 .. n + 1
      BY <1>0, <2>2, <2>3
    <3> QED
      BY <3>1
  <2>5. w[L + 1] = n + 1 /\ \A i \in 1 .. L : w[i] = m[i]
    BY <1>0
  <2> HIDE DEF w
  <2>6. \A i \in 1 .. L + 1 : s[i] = list[w[i]] /\ s[i] \in bs
    BY <1>2, <2>1, <2>3, <2>5 DEF Picked
  <2>7. \A i, j \in 1 .. L + 1 : i < j => w[i] < w[j]
    <3> SUFFICES ASSUME NEW i \in 1 .. L + 1, NEW j \in 1 .. L + 1, i < j PROVE w[i] < w[j]
      OBVIOUS
    <3>1. i \in 1 .. L
      BY <1>0
    <3>2. CASE j = L + 1
      BY <2>2, <2>5, <3>1, <3>2
    <3>3. CASE j # L + 1
      BY <2>3, <2>5, <3>1, <3>3 DEF Picked
    <3> QED
      BY <3>2, <3>3
  <2>8. \A k \in 1 .. n + 1 : list[k] \in bs => \E i \in 1 .. L + 1 : w[i] = k
    <3> SUFFICES ASSUME NEW k \in 1 .. n + 1, list[k] \in bs
                 PROVE  \E i \in 1 .. L + 1 : w[i] = k
      OBVIOUS
    <3>1. CASE k = n + 1
      BY <1>0, <2>5, <3>1
    <3>2. CASE k # n + 1
      <4>1. k \in 1 .. n
        BY <3>2
      <4>2. PICK i \in 1 .. L : m[i] = k
        BY <4>1 DEF Picked
      <4> QED
        BY <1>0, <2>5, <4>2
    <3> QED
      BY <3>1, <3>2
  <2>9. Picked(w, n + 1, list, bs, s)
    BY <2>1, <2>4, <2>6, <2>7, <2>8 DEF Picked
  <2> QED
    BY <2>9
<1> QED
  BY <1>1, <1>2

\* What Among returns: the elements in bs, in the order of the list.
LEMMA AmongProperties ==
    ASSUME NEW X, NEW list \in Seq(X), NEW bs
    PROVE  /\ Among(list, bs) \in Seq(X)
           /\ \A x : x \in Range(Among(list, bs)) <=> x \in Range(list) /\ x \in bs
           /\ \E m : Picks(m, list, Among(list, bs))
<1> DEFINE N == Len(list)
<1>0. N \in Nat
  OBVIOUS
<1>1. PICK f : Filters(f, X, list, bs) /\ Among(list, bs) = f[N]
  BY AmongIs
<1> DEFINE T == {n \in Nat : n <= N => \E m : Picked(m, n, list, bs, f[n])}
<1>2. 0 \in T
  <2>1. f[0] = <<>> /\ Len(<<>>) = 0 /\ 1 .. 0 = {}
    BY <1>1 DEF Filters
  <2>2. Picked([i \in 1 .. 0 |-> i], 0, list, bs, f[0])
    BY <2>1 DEF Picked
  <2> QED
    BY <2>2
<1>3. ASSUME NEW n \in Nat, n \in T PROVE n + 1 \in T
  <2> SUFFICES ASSUME n + 1 <= N PROVE \E m : Picked(m, n + 1, list, bs, f[n + 1])
    OBVIOUS
  <2>1. n \in 0 .. N /\ n + 1 \in 1 .. N /\ (n + 1) - 1 = n
    BY <1>0
  <2>2. PICK m : Picked(m, n, list, bs, f[n])
    BY <1>0, <1>3
  <2>3. /\ f[n] \in Seq(X)
        /\ f[n + 1] = IF list[n + 1] \in bs THEN Append(f[n], list[n + 1]) ELSE f[n]
    BY <1>1, <2>1 DEF Filters
  <2> QED
    BY <2>2, <2>3, PickOne
<1> HIDE DEF T
<1>4. Nat \subseteq T
  BY <1>2, <1>3, Induction
<1>5. \E m : Picked(m, N, list, bs, f[N])
  BY <1>0, <1>4 DEF T
<1> DEFINE r == Among(list, bs)
<1>6. PICK m : Picked(m, N, list, bs, r)
  BY <1>1, <1>5
<1>7. r \in Seq(X)
  BY <1>0, <1>1 DEF Filters
<1> HIDE DEF r
<1>8. Picks(m, list, r)
  BY <1>6 DEF Picked, Picks
<1>9. DOMAIN r = 1 .. Len(r) /\ DOMAIN list = 1 .. N
  BY <1>7
<1>10. ASSUME NEW x PROVE x \in Range(r) <=> x \in Range(list) /\ x \in bs
  <2>1. ASSUME x \in Range(r) PROVE x \in Range(list) /\ x \in bs
    BY <1>6, <1>9, <2>1 DEF Range, Picked
  <2>2. ASSUME x \in Range(list), x \in bs PROVE x \in Range(r)
    <3>1. PICK k \in 1 .. N : list[k] = x
      BY <1>9, <2>2 DEF Range
    <3>2. PICK i \in 1 .. Len(r) : m[i] = k
      BY <1>6, <2>2, <3>1 DEF Picked
    <3> QED
      BY <1>6, <1>9, <3>1, <3>2 DEF Range, Picked
  <2> QED
    BY <2>1, <2>2
<1> QED
  BY <1>7, <1>8, <1>10 DEF r

\* The order of a list without some of its elements is the one of the list.
LEMMA PicksProperties ==
    ASSUME NEW X, NEW list \in Seq(X), NEW r \in Seq(X), NEW m, Picks(m, list, r)
    PROVE  /\ IsInjective(list) => IsInjective(r)
           /\ \A i \in DOMAIN r : m[i] \in DOMAIN list /\ r[i] = list[m[i]]
           /\ \A i, j \in DOMAIN r : m[i] <= m[j] => i <= j
<1>1. DOMAIN r = 1 .. Len(r) /\ DOMAIN list = 1 .. Len(list) /\ Len(r) \in Nat /\ Len(list) \in Nat
  OBVIOUS
<1>2. \A i \in DOMAIN r : m[i] \in DOMAIN list /\ r[i] = list[m[i]] /\ m[i] \in Nat
  BY <1>1 DEF Picks
<1>3. \A i, j \in DOMAIN r : m[i] <= m[j] => i <= j
  <2> SUFFICES ASSUME NEW i \in DOMAIN r, NEW j \in DOMAIN r, m[i] <= m[j] PROVE i <= j
    OBVIOUS
  <2>1. ~(j < i)
    BY <1>1, <1>2 DEF Picks
  <2> QED
    BY <1>1, <2>1
<1>4. ASSUME IsInjective(list) PROVE IsInjective(r)
  <2> SUFFICES ASSUME NEW i \in DOMAIN r, NEW j \in DOMAIN r, r[i] = r[j] PROVE i = j
    BY DEF IsInjective
  <2>1. m[i] = m[j]
    BY <1>2, <1>4 DEF IsInjective
  <2>2. i <= j /\ j <= i
    BY <1>2, <1>3, <2>1
  <2> QED
    BY <1>1, <2>2
<1> QED
  BY <1>2, <1>3, <1>4

\* What Without returns.
LEMMA WithoutProperties ==
    ASSUME NEW X, NEW list \in Seq(X), NEW bs
    PROVE  /\ Without(list, bs) \in Seq(X)
           /\ \A x : x \in Range(Without(list, bs)) <=> x \in Range(list) /\ x \notin bs
           /\ \E m : Picks(m, list, Without(list, bs))
BY AmongProperties DEF Without

\* The elements of a list are of its type.
LEMMA RangeType ==
    ASSUME NEW X, NEW list \in Seq(X)
    PROVE  /\ Range(list) \subseteq X
           /\ \A x \in Range(list) : \E i \in DOMAIN list : list[i] = x
           /\ \A i \in DOMAIN list : list[i] \in Range(list)
BY DEF Range

\* r is list without the blocks of bs.
Thinned(list, r, bs) ==
    /\ r \in Seq(Blocks)
    /\ \A b \in Blocks : b \in Range(r) <=> b \in Range(list) /\ b \notin bs
    /\ \E m : Picks(m, list, r)

LEMMA MemoryIs ==
    ASSUME NEW blk \in [Blocks -> Block], NEW e \in Seq(Blocks), NEW z \in Seq(Blocks), NEW S,
           S = [blk |-> blk, embryos |-> e, zombies |-> z]
    PROVE  S \in Memory /\ S.blk = blk /\ S.embryos = e /\ S.zombies = z
BY DEF Memory

\* spmFreeProcess (sharedpm.c:3121-3208).
LEMMA FreeProcessIs ==
    ASSUME NEW S \in Memory, NEW bs \in SUBSET Blocks, NEW T, T = FreeProcess(S, bs)
    PROVE  /\ T \in Memory
           /\ Thinned(S.embryos, T.embryos, bs) /\ Thinned(S.zombies, T.zombies, bs)
           /\ \A b \in Blocks : T.blk[b] = IF b \in bs THEN Free ELSE S.blk[b]
<1> DEFINE blk == [b \in Blocks |-> IF b \in bs THEN Free ELSE S.blk[b]]
<1>1. S.embryos \in Seq(Blocks) /\ S.zombies \in Seq(Blocks) /\ S.blk \in [Blocks -> Block]
  BY DEF Memory
<1>2. Free \in Block
  BY EmptySeq DEF Free, Block
<1>3. blk \in [Blocks -> Block]
  BY <1>1, <1>2
<1>4. Without(S.embryos, bs) \in Seq(Blocks) /\ Without(S.zombies, bs) \in Seq(Blocks)
  BY <1>1, WithoutProperties
<1>5. T = [blk |-> blk, embryos |-> Without(S.embryos, bs), zombies |-> Without(S.zombies, bs)]
  BY DEF FreeProcess
<1>6. \A b \in Blocks : blk[b] = IF b \in bs THEN Free ELSE S.blk[b]
  OBVIOUS
<1> HIDE DEF blk
<1>7. T \in Memory /\ T.blk = blk /\ T.embryos = Without(S.embryos, bs) /\ T.zombies = Without(S.zombies, bs)
  BY <1>3, <1>4, <1>5, MemoryIs
<1> QED
  BY <1>1, <1>6, <1>7, WithoutProperties DEF Thinned

LEMMA ThinnedIs ==
    ASSUME NEW list \in Seq(Blocks), NEW bs
    PROVE  Thinned(list, Without(list, bs), bs)
BY WithoutProperties DEF Thinned

\* A shorter list has the order of the list.
Ordered(list, r) ==
    \A i, j \in DOMAIN r : \E k, l \in DOMAIN list :
        r[i] = list[k] /\ r[j] = list[l] /\ (k <= l => i <= j)

LEMMA ThinnedProperties ==
    ASSUME NEW list \in Seq(Blocks), NEW r, NEW bs, Thinned(list, r, bs)
    PROVE  /\ IsInjective(list) => IsInjective(r)
           /\ Ordered(list, r)
<1>1. PICK m : Picks(m, list, r)
  BY DEF Thinned
<1>2. r \in Seq(Blocks)
  BY DEF Thinned
<1> QED
  BY <1>1, <1>2, PicksProperties DEF Ordered

\* The lists after blocks are taken off them.
LEMMA ThinnedLists ==
    ASSUME NEW S, Lists(S), NEW T \in Memory, NEW bs, NEW zs,
           Thinned(S.embryos, T.embryos, bs), Thinned(S.zombies, T.zombies, zs),
           \A b \in Blocks : T.blk[b].st = "embryo" <=> S.blk[b].st = "embryo" /\ b \notin bs,
           \A b \in Blocks : T.blk[b].st = "zombie" <=> S.blk[b].st = "zombie" /\ b \notin zs
    PROVE  Lists(T)
<1>1. S.embryos \in Seq(Blocks) /\ S.zombies \in Seq(Blocks)
  BY DEF Lists, Memory
<1>2. IsInjective(T.embryos) /\ IsInjective(T.zombies)
  BY <1>1, ThinnedProperties DEF Lists
<1> QED
  BY <1>2 DEF Lists, Thinned

\* What is left on the list belongs to whom it did.
SameParents(S, T) == \A b \in Range(T.embryos) : T.blk[b].parent = S.blk[b].parent

\* The first embryo of a process stays the first one.
LEMMA ThinnedFirst ==
    ASSUME NEW S \in Memory, NEW T \in Memory, NEW bs,
           Thinned(S.embryos, T.embryos, bs), SameParents(S, T),
           NEW p, NEW x, Foremost(S, p, x)
    PROVE  Foremost(T, p, x)
<1> SUFFICES ASSUME NEW i \in DOMAIN T.embryos, NEW j \in DOMAIN T.embryos,
                    T.embryos[j] = x, T.blk[T.embryos[i]].parent = p
             PROVE  j <= i
  BY DEF Foremost
<1>1. S.embryos \in Seq(Blocks) /\ T.embryos \in Seq(Blocks)
  BY DEF Memory
<1>2. PICK k \in DOMAIN S.embryos, l \in DOMAIN S.embryos :
        T.embryos[j] = S.embryos[k] /\ T.embryos[i] = S.embryos[l] /\ (k <= l => j <= i)
  <2>1. Ordered(S.embryos, T.embryos)
    BY <1>1, ThinnedProperties
  <2> QED
    BY <2>1 DEF Ordered
<1>3. S.blk[S.embryos[l]].parent = p
  <2>1. T.embryos[i] \in Range(T.embryos)
    BY <1>1, RangeType
  <2> QED
    BY <1>2, <2>1 DEF SameParents
<1> QED
  BY <1>2, <1>3 DEF Foremost

-----------------------------------------------------------------------------
(* The invariant holds at first                                             *)

LEMMA InitGood == Init => Good(spm)
<1> SUFFICES ASSUME Init PROVE Good(spm)
  OBVIOUS
<1> DEFINE b0 == CHOOSE x \in Blocks : TRUE
           R == [Free EXCEPT !.st = "alive", !.refs = 1, !.pid = Root, !.term = TRUE]
           blk == [x \in Blocks |-> IF x = b0 THEN R ELSE Free]
<1>1. b0 \in Blocks /\ b0 # None /\ Root \in Procs /\ None \notin Procs /\ Root # None
  BY SPMAssumption
<1>2. Free \in Block /\ R \in Block
  BY <1>1, EmptySeq DEF Free, Block
<1>3. blk \in [Blocks -> Block]
  BY <1>2
<1>4. /\ spm = [blk |-> blk, embryos |-> <<>>, zombies |-> <<>>]
      /\ self = [p \in Procs |-> IF p = Root THEN b0 ELSE None]
  BY DEF Init
<1>5. R.st = "alive" /\ R.refs = 1 /\ R.pid = Root /\ R.term /\ R.notes = <<>> /\ R.parent = None
  BY DEF Free
<1>6. \A b \in Blocks : blk[b] = IF b = b0 THEN R ELSE Free
  OBVIOUS
<1> HIDE DEF b0, R, blk
<1>7. spm \in Memory /\ spm.blk = blk /\ spm.embryos = <<>> /\ spm.zombies = <<>>
  <2>1. <<>> \in Seq(Blocks)
    OBVIOUS
  <2> QED
    BY <1>3, <1>4, <2>1 DEF Memory
<1>8. Range(<<>>) = {} /\ IsInjective(<<>>) /\ DOMAIN <<>> = {}
  BY EmptySeq DEF Range, IsInjective
<1>9. Free.st = "free" /\ Free.refs = 0
  BY DEF Free
<1>10. Lists(spm)
  BY <1>5, <1>6, <1>7, <1>8, <1>9 DEF Lists
<1>11. /\ os = [p \in Procs |-> IF p = Root THEN "run" ELSE "none"]
       /\ parent = [p \in Procs |-> None] /\ step = [p \in Procs |-> "idle"]
       /\ held = [p \in Procs |-> None] /\ child = [p \in Procs |-> None]
       /\ libc = {Root} /\ silent = {} /\ asked = {} /\ told = {} /\ fails = 0 /\ queries = 0
  BY DEF Init
<1>12. Processes
  BY <1>1, <1>4, <1>11, SPMAssumption DEF Processes, Uses
<1>13. Blks(spm)
  BY <1>1, <1>4, <1>5, <1>6, <1>7, <1>9, <1>11 DEF Blks, AliveOf
<1>14. Own(spm) /\ Held(spm) /\ First(spm)
  BY <1>1, <1>4, <1>5, <1>6, <1>7, <1>11 DEF Own, Held, First, Foremost
<1>15. Counts(spm)
  <2> SUFFICES ASSUME NEW b \in Blocks PROVE CountOf(spm, b)
    BY DEF Counts
  <2>1. ~ \E p \in Procs : held[p] = b
    BY <1>11, SPMAssumption
  <2>2. CASE b = b0
    BY <1>5, <1>6, <1>7, <2>1, <2>2 DEF CountOf, Users
  <2>3. CASE b # b0
    BY <1>6, <1>7, <1>9, <2>1, <2>3 DEF CountOf, Users
  <2> QED
    BY <2>2, <2>3
<1>16. Loading(spm) /\ Notes(spm)
  BY <1>1, <1>4, <1>5, <1>6, <1>7, <1>8, <1>11 DEF Loading, Notes, Noted
<1> QED
  BY <1>10, <1>12, <1>13, <1>14, <1>15, <1>16 DEF Good

-----------------------------------------------------------------------------
(* Reaping, and new blocks                                                  *)

\* The blocks have their types.
LEMMA BlockType ==
    ASSUME NEW S \in Memory
    PROVE  /\ S.blk \in [Blocks -> Block] /\ S.embryos \in Seq(Blocks) /\ S.zombies \in Seq(Blocks)
           /\ \A b \in Blocks :
                /\ S.blk[b] \in Block
                /\ S.blk[b].st \in {"free", "embryo", "alive", "zombie"}
                /\ S.blk[b].refs \in Nat
                /\ S.blk[b].pid \in Procs \union {None} /\ S.blk[b].parent \in Procs \union {None}
                /\ S.blk[b].for \in Procs \union {None} /\ S.blk[b].notes \in Seq(Procs)
                /\ S.blk[b].fork \in BOOLEAN /\ S.blk[b].term \in BOOLEAN
BY DEF Memory, Block

LEMMA FreeType ==
    /\ Free \in Block /\ Free.st = "free" /\ Free.refs = 0
    /\ Free.pid = None /\ Free.parent = None /\ Free.notes = <<>> /\ Free.for = None
BY EmptySeq DEF Free, Block

\* Nobody has an embryo without references.
LEMMA NoUser ==
    ASSUME NEW S, Good(S), NEW b \in Blocks, S.blk[b].refs = 0
    PROVE  S.blk[b].st # "alive" /\ \A p \in Procs : held[p] # b
<1>1. Users(S, b) <= 0
  BY DEF Good, Counts, CountOf
<1> QED
  BY <1>1 DEF Users

\* Embryos nobody has, that no child waits for, go.
LEMMA ReapGood ==
    ASSUME NEW S, Good(S), NEW old \in SUBSET Old(S), NEW T, T = FreeProcess(S, old)
    PROVE  /\ Good(T)
           /\ \A b \in Blocks : T.blk[b] = S.blk[b] \/ (S.blk[b].st = "embryo" /\ T.blk[b].st = "free")
<1>0. S \in Memory /\ old \in SUBSET Blocks
  BY DEF Good, Lists, Old
<1>1. /\ T \in Memory
      /\ Thinned(S.embryos, T.embryos, old) /\ Thinned(S.zombies, T.zombies, old)
      /\ \A b \in Blocks : T.blk[b] = IF b \in old THEN Free ELSE S.blk[b]
  BY <1>0, FreeProcessIs
<1>2. \A b \in old : /\ S.blk[b].st = "embryo" /\ S.blk[b].refs = 0
                     /\ S.blk[b].for # None => os[S.blk[b].for] # "loading"
                     /\ \A p \in Procs : held[p] # b /\ self[p] # b
  <2> SUFFICES ASSUME NEW b \in old
               PROVE  /\ S.blk[b].st = "embryo" /\ S.blk[b].refs = 0
                      /\ S.blk[b].for # None => os[S.blk[b].for] # "loading"
                      /\ \A p \in Procs : held[p] # b /\ self[p] # b
    OBVIOUS
  <2>1. b \in Blocks /\ b # None /\ S.blk[b].st = "embryo" /\ S.blk[b].refs = 0
    BY SPMAssumption DEF Old
  <2>2. \A p \in Procs : self[p] # b
    BY <2>1 DEF Good, Own
  <2> QED
    BY <2>1, <2>2, NoUser DEF Old
<1>3. \A b \in Blocks : T.blk[b] = S.blk[b] \/ (S.blk[b].st = "embryo" /\ T.blk[b].st = "free")
  BY <1>1, <1>2, FreeType
<1>4. Lists(T)
  <2>1. \A b \in Blocks : T.blk[b].st = "embryo" <=> S.blk[b].st = "embryo" /\ b \notin old
    BY <1>1, FreeType
  <2>2. \A b \in Blocks : T.blk[b].st = "zombie" <=> S.blk[b].st = "zombie" /\ b \notin old
    BY <1>1, <1>2, FreeType
  <2> QED
    BY <1>0, <1>1, <2>1, <2>2, ThinnedLists DEF Good
<1>5. Blks(T)
  <2>1. \A b \in Blocks : T.blk[b] = S.blk[b] \/ T.blk[b] = Free
    BY <1>1
  <2>2. \A b, d \in Blocks :
         T.blk[b].st = "embryo" /\ T.blk[d].st = "embryo"
            /\ T.blk[b].for # None /\ T.blk[b].for = T.blk[d].for => b = d
    BY <2>1, FreeType DEF Good, Blks
  <2>3. ASSUME NEW b \in Blocks
        PROVE  LET B == T.blk[b] IN
               /\ B.st = "free" => B = Free
               /\ B.st = "embryo" => EmbryoOf(B)
               /\ B.st = "alive" => AliveOf(b, B)
               /\ B.st = "zombie" => B.refs > 0
    BY <2>1, FreeType DEF Good, Blks
  <2> QED
    BY <2>2, <2>3 DEF Blks
<1>6. \A p \in Procs : self[p] # None => T.blk[self[p]] = S.blk[self[p]]
  BY <1>1, <1>2 DEF Good, Processes
<1>7. \A p \in Procs : held[p] # None => T.blk[held[p]] = S.blk[held[p]]
  BY <1>1, <1>2 DEF Good, Processes
<1>8. Own(T) /\ Held(T) /\ Notes(T)
  BY <1>6, <1>7 DEF Good, Own, Held, Notes
<1>9. First(T)
  <2> SUFFICES ASSUME NEW p \in Procs, held[p] # None
               PROVE  Foremost(T, p, held[p])
    BY DEF First
  <2>1. Foremost(S, p, held[p])
    BY DEF Good, First
  <2>2. SameParents(S, T)
    <3>1. \A b \in Range(T.embryos) : b \in Blocks /\ b \notin old
      BY <1>1, BlockType, RangeType DEF Thinned
    <3> QED
      BY <1>1, <3>1 DEF SameParents
  <2> QED
    BY <1>0, <1>1, <2>1, <2>2, ThinnedFirst
<1>10. Counts(T)
  <2> SUFFICES ASSUME NEW b \in Blocks PROVE CountOf(T, b)
    BY DEF Counts
  <2>1. CASE b \in old
    BY <1>1, <1>2, <2>1, FreeType DEF CountOf, Users
  <2>2. CASE b \notin old
    BY <1>1, <2>2 DEF Good, Counts, CountOf, Users
  <2> QED
    BY <2>1, <2>2
<1>11. Loading(T)
  <2> SUFFICES ASSUME NEW c \in Procs, os[c] = "loading" PROVE parent[c] # None /\ Awaited(T, c)
    BY DEF Loading
  <2>1. parent[c] # None /\ Awaited(S, c)
    BY DEF Good, Loading
  <2>2. ASSUME NEW b \in Blocks, S.blk[b].st = "embryo", S.blk[b].pid = c PROVE T.blk[b] = S.blk[b]
    <3>1. c # None
      BY SPMAssumption
    <3>2. S.blk[b].for = c
      BY <2>2, <3>1 DEF Good, Blks, EmbryoOf
    <3> QED
      BY <1>1, <1>2, <3>1, <3>2
  <2>3. CASE child[parent[c]] = c /\ S.blk[held[parent[c]]].st = "embryo"
    <3>1. parent[c] \in Procs /\ c # None
      BY <2>1, SPMAssumption DEF Good, Processes
    <3>2. held[parent[c]] # None
      BY <2>3, <3>1 DEF Good, Processes
    <3> QED
      BY <1>7, <2>1, <2>3, <3>1, <3>2 DEF Awaited
  <2>4. CASE \E b \in Blocks : S.blk[b].st = "embryo" /\ S.blk[b].parent = parent[c] /\ S.blk[b].pid = c
    BY <2>1, <2>2, <2>4 DEF Awaited
  <2>5. CASE os[parent[c]] = "dead"
    BY <2>1, <2>5 DEF Awaited
  <2> QED
    BY <2>1, <2>3, <2>4, <2>5 DEF Awaited
<1>12. Processes
  BY DEF Good
<1> QED
  BY <1>3, <1>4, <1>5, <1>8, <1>9, <1>10, <1>11, <1>12 DEF Good

\* r is list with x at the head.
Headed(r, list, x) ==
    /\ r[1] = x /\ 1 \in DOMAIN r
    /\ \A i \in DOMAIN r : i # 1 => i - 1 \in DOMAIN list /\ r[i] = list[i - 1]
    /\ \A y : y \in Range(r) <=> y = x \/ y \in Range(list)
    /\ IsInjective(list) /\ x \notin Range(list) => IsInjective(r)

LEMMA ConsProperties ==
    ASSUME NEW X, NEW list \in Seq(X), NEW x \in X, NEW r, r = <<x>> \o list
    PROVE  r \in Seq(X) /\ Len(r) = Len(list) + 1 /\ Headed(r, list, x)
<1>1. r \in Seq(X) /\ Len(r) = Len(list) + 1 /\ r[1] = x /\ Len(list) \in Nat
  OBVIOUS
<1>2. DOMAIN r = 1 .. Len(list) + 1 /\ DOMAIN list = 1 .. Len(list)
  BY <1>1
<1>3. \A i \in DOMAIN r : i # 1 => i - 1 \in DOMAIN list /\ r[i] = list[i - 1]
  BY <1>1, <1>2
<1>4. \A k \in DOMAIN list : k + 1 \in DOMAIN r /\ r[k + 1] = list[k]
  BY <1>1, <1>2
<1>5. \A y : y \in Range(r) <=> y = x \/ y \in Range(list)
  <2>1. 1 \in DOMAIN r
    BY <1>1, <1>2
  <2>2. ASSUME NEW y, y \in Range(r) PROVE y = x \/ y \in Range(list)
    <3>1. PICK i \in DOMAIN r : r[i] = y
      BY <2>2 DEF Range
    <3> QED
      BY <1>1, <1>3, <3>1 DEF Range
  <2>3. ASSUME NEW y, y \in Range(list) PROVE y \in Range(r)
    <3>1. PICK k \in DOMAIN list : list[k] = y
      BY <2>3 DEF Range
    <3> QED
      BY <1>4, <3>1 DEF Range
  <2>4. x \in Range(r)
    BY <1>1, <2>1 DEF Range
  <2> QED
    BY <2>2, <2>3, <2>4
<1>6. ASSUME IsInjective(list), x \notin Range(list) PROVE IsInjective(r)
  <2> SUFFICES ASSUME NEW i \in DOMAIN r, NEW j \in DOMAIN r, r[i] = r[j] PROVE i = j
    BY DEF IsInjective
  <2>1. CASE i # 1 /\ j # 1
    <3>1. i - 1 = j - 1
      BY <1>3, <1>6, <2>1 DEF IsInjective
    <3> QED
      BY <1>2, <3>1
  <2>2. CASE i = 1 /\ j # 1
    BY <1>1, <1>3, <1>6, <2>2 DEF Range
  <2>3. CASE i # 1 /\ j = 1
    BY <1>1, <1>3, <1>6, <2>3 DEF Range
  <2> QED
    BY <2>1, <2>2, <2>3
<1> QED
  BY <1>1, <1>2, <1>3, <1>5, <1>6 DEF Headed

\* A new block is a free one or a zombie, and what else is there stays, up to embryos
\* that are reaped.
LEMMA AllocGood ==
    ASSUME NEW S, Good(S), NEW new \in AllocProcess(S)
    PROVE  /\ Good(new.mem)
           /\ new.blk # None =>
                new.blk \in Blocks /\ new.mem.blk[new.blk].st \in {"free", "zombie"}
           /\ \A b \in Blocks : \/ new.mem.blk[b] = S.blk[b]
                                \/ S.blk[b].st = "embryo" /\ new.mem.blk[b].st = "free"
<1> DEFINE free == {b \in Blocks : S.blk[b].st = "free"}
<1>1. CASE free # {}
  <2>1. new = [mem |-> S, blk |-> CHOOSE b \in free : TRUE]
    BY <1>1 DEF AllocProcess
  <2>2. (CHOOSE b \in free : TRUE) \in free
    BY <1>1
  <2> HIDE DEF free
  <2>3. new.mem = S /\ new.blk \in free
    BY <2>1, <2>2
  <2> QED
    BY <2>3 DEF free
<1>2. CASE free = {}
  <2> DEFINE zombie == IF S.zombies = <<>> THEN None ELSE Last(S.zombies)
  <2>1. PICK old \in SUBSET Old(S) :
          \E b \in old \union {zombie} : new = [mem |-> FreeProcess(S, old), blk |-> b]
    BY <1>2 DEF AllocProcess
  <2>2. new.mem = FreeProcess(S, old) /\ new.blk \in old \union {zombie}
    BY <2>1
  <2>3. /\ Good(new.mem)
        /\ \A b \in Blocks : \/ new.mem.blk[b] = S.blk[b]
                             \/ S.blk[b].st = "embryo" /\ new.mem.blk[b].st = "free"
    BY <2>2, ReapGood
  <2>4. S.zombies # <<>> =>
          Last(S.zombies) \in Blocks /\ S.blk[Last(S.zombies)].st = "zombie"
    <3> SUFFICES ASSUME S.zombies # <<>>
                 PROVE  Last(S.zombies) \in Blocks /\ S.blk[Last(S.zombies)].st = "zombie"
      OBVIOUS
    <3>1. S.zombies \in Seq(Blocks)
      BY BlockType DEF Good, Lists
    <3>2. Len(S.zombies) \in DOMAIN S.zombies
      BY <3>1
    <3>3. Last(S.zombies) \in Range(S.zombies) /\ Last(S.zombies) \in Blocks
      BY <3>1, <3>2, RangeType DEF Last
    <3> QED
      BY <3>3 DEF Good, Lists
  <2>5. CASE new.blk = zombie
    BY <2>3, <2>4, <2>5
  <2>6. CASE new.blk \in old
    <3>1. new.blk \in Blocks /\ new.mem.blk[new.blk] = Free
      BY <2>2, <2>6 DEF Old, FreeProcess
    <3> QED
      BY <2>3, <3>1, FreeType
  <2> QED
    BY <2>2, <2>5, <2>6
<1> QED
  BY <1>1, <1>2

\* Nobody has a free block, and a zombie that is taken is spared by those who have it.
LEMMA TakenUnused ==
    ASSUME NEW S, Good(S), NEW b \in Blocks, S.blk[b].st \in {"free", "zombie"}
    PROVE  /\ \A p \in Procs : self[p] # b
           /\ S.blk[b].st = "free" => \A p \in Procs : held[p] # b
           /\ b \notin Range(S.embryos)
<1>1. b # None
  BY SPMAssumption
<1> QED
  BY <1>1 DEF Good, Lists, Own, Held, HeldOf

\* A structure for a note, or none: a block that is to be used stays as it is, and what
\* else is there too, up to embryos that are reaped.
LEMMA AllocNoteGood ==
    ASSUME NEW S, Good(S), NEW note \in AllocChildNotify(S)
    PROVE  /\ Good(note.mem) /\ note.made \in BOOLEAN
           /\ \A b \in Blocks : \/ note.mem.blk[b] = S.blk[b]
                                \/ S.blk[b].st = "embryo" /\ note.mem.blk[b].st = "free"
<1>1. PICK old \in SUBSET Old(S) : note.mem = FreeProcess(S, old)
  BY DEF AllocChildNotify
<1>2. note.made \in BOOLEAN
  BY DEF AllocChildNotify
<1> QED
  BY <1>1, <1>2, ReapGood

\* Process p makes block b an embryo.
Makes(S, p, term, b) ==
    /\ spm' = [blk |-> [S.blk EXCEPT ![b] =
                          [Free EXCEPT !.st = "embryo", !.refs = 1,
                                       !.parent = p, !.term = term]],
               embryos |-> <<b>> \o S.embryos, zombies |-> Without(S.zombies, {b})]
    /\ held' = [held EXCEPT ![p] = b]
    /\ step' = [step EXCEPT ![p] = "embryo"]
    /\ fails' \in 0 .. MaxFails
    /\ UNCHANGED <<os, parent, self, child, libc, silent, asked, told, queries>>

\* A new embryo (sharedpm.c:520-640).
LEMMA EmbryoGood ==
    ASSUME NEW S, Good(S), NEW b \in Blocks, S.blk[b].st \in {"free", "zombie"},
           \A q \in Procs : held[q] # b,
           NEW p \in Procs, Uses(p), step[p] = "idle", NEW term \in BOOLEAN,
           Makes(S, p, term, b)
    PROVE  Good(spm)'
<1> USE SPMAssumption
<1> DEFINE C == [Free EXCEPT !.st = "embryo", !.refs = 1, !.parent = p, !.term = term]
<1>0. /\ S \in Memory /\ S.embryos \in Seq(Blocks) /\ S.zombies \in Seq(Blocks)
      /\ S.blk \in [Blocks -> Block]
  BY BlockType DEF Good, Lists
<1>1. /\ C.st = "embryo" /\ C.refs = 1 /\ C.parent = p
      /\ C.notes = <<>> /\ C.pid = None /\ C.for = None
  BY DEF Free
<1>2. C \in Block
  BY EmptySeq DEF Free, Block
<1> HIDE DEF C
<1>3. Thinned(S.zombies, Without(S.zombies, {b}), {b})
  BY <1>0, ThinnedIs
<1>4. <<b>> \o S.embryos \in Seq(Blocks)
  BY <1>0
<1>5. [S.blk EXCEPT ![b] = C] \in [Blocks -> Block]
  BY <1>0, <1>2
<1>6. /\ spm' \in Memory /\ spm'.blk = [S.blk EXCEPT ![b] = C]
      /\ spm'.embryos = <<b>> \o S.embryos /\ spm'.zombies = Without(S.zombies, {b})
  <2>1. Without(S.zombies, {b}) \in Seq(Blocks)
    BY <1>3 DEF Thinned
  <2> QED
    BY <1>4, <1>5, <2>1 DEF Memory, Makes, C
<1>7. \A d \in Blocks : spm'.blk[d] = IF d = b THEN C ELSE S.blk[d]
  BY <1>0, <1>6
<1>8. /\ \A q \in Procs : self[q] # b
      /\ b \notin Range(S.embryos) /\ b # None /\ p # None
  BY TakenUnused
<1>9. Lists(spm)'
  <2>0. /\ IsInjective(S.embryos) /\ IsInjective(S.zombies)
        /\ \A d \in Blocks : d \in Range(S.embryos) <=> S.blk[d].st = "embryo"
        /\ \A d \in Blocks : d \in Range(S.zombies) <=> S.blk[d].st = "zombie"
    BY DEF Good, Lists
  <2>1. IsInjective(spm'.embryos) /\ \A d : d \in Range(spm'.embryos) <=> d = b \/ d \in Range(S.embryos)
    <3>1. Headed(spm'.embryos, S.embryos, b)
      BY <1>0, <1>6, ConsProperties
    <3> QED
      BY <1>8, <2>0, <3>1 DEF Headed
  <2>2. IsInjective(spm'.zombies)
    BY <1>0, <1>3, <1>6, <2>0, ThinnedProperties
  <2>3. \A d \in Blocks : d \in Range(spm'.embryos) <=> spm'.blk[d].st = "embryo"
    BY <1>1, <1>7, <2>0, <2>1
  <2>4. ASSUME NEW d \in Blocks PROVE d \in Range(spm'.zombies) <=> spm'.blk[d].st = "zombie"
    <3>1. d \in Range(spm'.zombies) <=> d \in Range(S.zombies) /\ d # b
      BY <1>3, <1>6 DEF Thinned
    <3>2. spm'.blk[d].st = "zombie" <=> S.blk[d].st = "zombie" /\ d # b
      BY <1>1, <1>7
    <3> QED
      BY <2>0, <3>1, <3>2
  <2> QED
    BY <1>6, <2>1, <2>2, <2>3, <2>4 DEF Lists
<1>10. /\ os' = os /\ parent' = parent /\ self' = self /\ child' = child /\ libc' = libc /\ silent' = silent
       /\ asked' = asked /\ told' = told /\ queries' = queries /\ fails' \in 0 .. MaxFails
  BY DEF Makes
<1>11. held \in [Procs -> Blocks \union {None}] /\ step \in [Procs -> {"idle", "embryo", "started", "named"}]
  BY DEF Good, Processes
<1>12. /\ \A q \in Procs : held'[q] = IF q = p THEN b ELSE held[q]
       /\ \A q \in Procs : step'[q] = IF q = p THEN "embryo" ELSE step[q]
  BY <1>11 DEF Makes
<1>13. child[p] = None /\ held[p] = None
  BY DEF Good, Processes
<1>14. Processes'
  <2>1. held' \in [Procs -> Blocks \union {None}] /\ step' \in [Procs -> {"idle", "embryo", "started", "named"}]
    BY <1>11 DEF Makes
  <2>2. \A q \in Procs : Uses(q)' = Uses(q)
    BY <1>10 DEF Uses
  <2> QED
    BY <1>8, <1>10, <1>12, <1>13, <2>1, <2>2 DEF Good, Processes
<1>15. Blks(spm)'
  <2>1. \A B : EmbryoOf(B)' = EmbryoOf(B)
    BY <1>10 DEF EmbryoOf, Uses
  <2>2. \A d, B : AliveOf(d, B)' = AliveOf(d, B)
    BY <1>10 DEF AliveOf
  <2>3. EmbryoOf(C)
    BY <1>1, <1>8 DEF EmbryoOf
  <2>4. ASSUME NEW d \in Blocks
        PROVE  LET B == spm'.blk[d] IN
               /\ B.st = "free" => B = Free
               /\ B.st = "embryo" => EmbryoOf(B)
               /\ B.st = "alive" => AliveOf(d, B)
               /\ B.st = "zombie" => B.refs > 0
    BY <1>1, <1>7, <2>3 DEF Good, Blks
  <2>5. \A d, e \in Blocks :
         spm'.blk[d].st = "embryo" /\ spm'.blk[e].st = "embryo"
            /\ spm'.blk[d].for # None /\ spm'.blk[d].for = spm'.blk[e].for => d = e
    BY <1>1, <1>7 DEF Good, Blks
  <2> QED
    BY <2>1, <2>2, <2>4, <2>5 DEF Blks
<1>16. Own(spm)' /\ Notes(spm)'
  <2>1. \A q \in Procs : self[q] # None => spm'.blk[self[q]] = S.blk[self[q]]
    BY <1>7, <1>8 DEF Good, Processes
  <2> QED
    BY <1>10, <2>1 DEF Good, Own, Notes, Noted
<1>17. Held(spm)'
  <2>1. \A q \in Procs : q # p /\ held[q] # None => spm'.blk[held[q]] = S.blk[held[q]]
    BY <1>7, <1>11
  <2> SUFFICES ASSUME NEW q \in Procs, held'[q] # None PROVE HeldOf(q, spm.blk[held[q]])'
    BY DEF Held
  <2>2. CASE q = p
    <3>1. spm'.blk[held'[q]] = C /\ step'[q] = "embryo" /\ child'[q] = None
      BY <1>7, <1>10, <1>12, <1>13, <2>2
    <3> QED
      BY <1>1, <2>2, <3>1 DEF HeldOf
  <2>3. CASE q # p
    BY <1>10, <1>12, <2>1, <2>3 DEF HeldOf, Good, Held
  <2> QED
    BY <2>2, <2>3
<1>18. First(spm)'
  <2> SUFFICES ASSUME NEW q \in Procs, NEW i \in DOMAIN spm'.embryos, NEW j \in DOMAIN spm'.embryos,
                      held'[q] # None, spm'.embryos[j] = held'[q],
                      spm'.blk[spm'.embryos[i]].parent = q
               PROVE  j <= i
    BY DEF First, Foremost
  <2>1. /\ spm'.embryos[1] = b
        /\ \A k \in DOMAIN spm'.embryos :
             k \in Nat /\ k >= 1 /\ (k # 1 => k - 1 \in DOMAIN S.embryos /\ spm'.embryos[k] = S.embryos[k - 1])
    <3>1. DOMAIN spm'.embryos = 1 .. Len(spm'.embryos)
      BY <1>4, <1>6
    <3>2. Headed(spm'.embryos, S.embryos, b)
      BY <1>0, <1>6, ConsProperties
    <3> QED
      BY <3>1, <3>2 DEF Headed
  <2>2. CASE j = 1
    BY <2>1, <2>2
  <2>3. CASE j # 1
    <3>1. spm'.embryos[j] # b
      BY <1>0, <1>8, <2>1, <2>3, RangeType
    <3>2. q # p /\ held[q] = S.embryos[j - 1]
      BY <1>12, <2>1, <2>3, <3>1
    <3>3. i # 1
      <4> SUFFICES ASSUME i = 1 PROVE FALSE
        OBVIOUS
      <4>1. spm'.blk[spm'.embryos[i]] = C
        BY <1>7, <2>1
      <4> QED
        BY <1>1, <3>2, <4>1
    <3>4. S.embryos[i - 1] \in Blocks /\ S.embryos[i - 1] # b
      BY <1>0, <1>8, <2>1, <3>3, RangeType
    <3>5. S.blk[S.embryos[i - 1]].parent = q
      BY <1>7, <2>1, <3>3, <3>4
    <3>6. j - 1 <= i - 1
      BY <1>12, <2>1, <2>3, <3>2, <3>3, <3>5 DEF Good, First, Foremost
    <3> QED
      BY <2>1, <3>6
  <2> QED
    BY <2>2, <2>3
<1>19. Counts(spm)'
  <2> SUFFICES ASSUME NEW d \in Blocks PROVE CountOf(spm, d)'
    BY DEF Counts
  <2>1. CASE d = b
    <3>1. \E q \in Procs : held'[q] = b
      BY <1>12
    <3> QED
      BY <1>1, <1>7, <2>1, <3>1 DEF CountOf, Users
  <2>2. CASE d # b
    <3>1. (\E q \in Procs : held'[q] = d) <=> (\E q \in Procs : held[q] = d)
      BY <1>12, <1>13, <2>2
    <3> QED
      BY <1>7, <2>2, <3>1 DEF CountOf, Users, Good, Counts
  <2> QED
    BY <2>1, <2>2
<1>20. Loading(spm)'
  <2> SUFFICES ASSUME NEW c \in Procs, os[c] = "loading" PROVE parent[c] # None /\ Awaited(spm, c)'
    BY <1>10 DEF Loading
  <2>1. parent[c] # None /\ Awaited(S, c) /\ parent[c] \in Procs /\ c # None
    BY DEF Good, Loading, Processes
  <2>2. CASE child[parent[c]] = c /\ S.blk[held[parent[c]]].st = "embryo"
    <3>1. parent[c] # p /\ held[parent[c]] \in Blocks
      BY <1>11, <1>13, <2>1, <2>2 DEF Good, Processes
    <3> QED
      BY <1>7, <1>10, <1>12, <2>1, <2>2, <3>1 DEF Awaited
  <2>3. CASE \E d \in Blocks : S.blk[d].st = "embryo" /\ S.blk[d].parent = parent[c] /\ S.blk[d].pid = c
    BY <1>7, <1>10, <2>1, <2>3 DEF Awaited
  <2>4. CASE os[parent[c]] = "dead"
    BY <1>10, <2>1, <2>4 DEF Awaited
  <2> QED
    BY <2>1, <2>2, <2>3, <2>4 DEF Awaited
<1> QED
  BY <1>9, <1>14, <1>15, <1>16, <1>17, <1>18, <1>19, <1>20 DEF Good

\* Only the memory changes.
Becomes(S) ==
    spm' = S /\ UNCHANGED <<os, parent, self, step, held, child, libc, silent, asked, told, fails, queries>>

LEMMA BecomesGood ==
    ASSUME NEW S, Good(S), Becomes(S)
    PROVE  Good(spm)'
<1> USE DEF Becomes
<1>1. Lists(spm)'
  BY DEF Good, Lists
<1>2. Processes'
  BY DEF Good, Processes, Uses
<1>3. Blks(spm)'
  BY DEF Good, Blks, EmbryoOf, AliveOf, Uses
<1>4. Own(spm)' /\ Held(spm)' /\ First(spm)'
  BY DEF Good, Own, Held, HeldOf, First, Foremost
<1>5. Counts(spm)'
  BY DEF Good, Counts, CountOf, Users
<1>6. Loading(spm)' /\ Notes(spm)'
  BY DEF Good, Loading, Awaited, Notes, Noted
<1> QED
  BY <1>1, <1>2, <1>3, <1>4, <1>5, <1>6 DEF Good

\* __libc_spmCreateEmbryo keeps the invariant.
LEMMA CreateEmbryoGood ==
    ASSUME Good(spm), NEW p \in Procs, CreateEmbryo(p), Spared
    PROVE  Good(spm)'
<1>1. Uses(p) /\ step[p] = "idle" /\ fails \in 0 .. MaxFails
  BY DEF CreateEmbryo, Good, Processes
<1>2. PICK old \in SUBSET {b \in Old(spm) : spm.blk[b].parent = p} :
      \E new \in AllocProcess(FreeProcess(spm, old)) :
         \/ new.blk = None /\ Becomes(new.mem)
         \/ /\ new.blk # None
            /\ \E note \in AllocChildNotify(new.mem) : Makes(note.mem, p, note.made, new.blk)
  <2>1. \A n : n = fails \/ (fails < MaxFails /\ n = fails + 1) => n \in 0 .. MaxFails
    BY <1>1, SPMAssumption
  <2> QED
    BY <2>1 DEF CreateEmbryo, Becomes, Makes
<1> DEFINE R == FreeProcess(spm, old)
<1>3. PICK new \in AllocProcess(R) :
         \/ new.blk = None /\ Becomes(new.mem)
         \/ /\ new.blk # None
            /\ \E note \in AllocChildNotify(new.mem) : Makes(note.mem, p, note.made, new.blk)
  BY <1>2
<1>4. /\ Good(R)
      /\ \A b \in Blocks : R.blk[b] = spm.blk[b] \/ (spm.blk[b].st = "embryo" /\ R.blk[b].st = "free")
  BY ReapGood
<1> HIDE DEF R
<1>5. /\ Good(new.mem)
      /\ new.blk # None => new.blk \in Blocks /\ new.mem.blk[new.blk].st \in {"free", "zombie"}
      /\ \A b \in Blocks : \/ new.mem.blk[b] = R.blk[b]
                           \/ R.blk[b].st = "embryo" /\ new.mem.blk[b].st = "free"
  BY <1>3, <1>4, AllocGood
<1>6. CASE new.blk = None /\ Becomes(new.mem)
  BY <1>5, <1>6, BecomesGood
<1>7. CASE /\ new.blk # None
           /\ \E note \in AllocChildNotify(new.mem) : Makes(note.mem, p, note.made, new.blk)
  <2>0. PICK note \in AllocChildNotify(new.mem) : Makes(note.mem, p, note.made, new.blk)
    BY <1>7
  <2> DEFINE S == note.mem
             b == new.blk
  <2>1. /\ b \in Blocks /\ S.blk[b].st \in {"free", "zombie"} /\ Good(S)
        /\ S.blk[b] = new.mem.blk[b]
        /\ Makes(S, p, note.made, b) /\ note.made \in BOOLEAN
    BY <1>5, <1>7, <2>0, AllocNoteGood
  <2>2. S.blk[b].st = "zombie" => spm.blk[b].st = "zombie"
    BY <1>4, <1>5, <2>1
  <2> HIDE DEF S, b
  <2>3. spm'.blk[b].st = "embryo"
    <3>1. S.blk \in [Blocks -> Block]
      BY <2>1, BlockType DEF Good, Lists
    <3> QED
      BY <2>1, <3>1 DEF Makes, Free
  <2>4. \A q \in Procs : held[q] # b
    <3>1. b # None
      BY <2>1, SPMAssumption
    <3>2. CASE S.blk[b].st = "free"
      BY <2>1, <3>2, TakenUnused
    <3>3. CASE S.blk[b].st = "zombie"
      BY <2>2, <2>3, <3>1, <3>3 DEF Spared
    <3> QED
      BY <2>1, <3>2, <3>3
  <2> QED
    BY <1>1, <2>1, <2>4, EmbryoGood
<1> QED
  BY <1>3, <1>6, <1>7

-----------------------------------------------------------------------------
(* The steps of a spawn                                                     *)

\* T is S with block b changed to C.
Touched(S, T, b, C) ==
    /\ T \in Memory /\ T.embryos = S.embryos /\ T.zombies = S.zombies
    /\ \A d \in Blocks : T.blk[d] = IF d = b THEN C ELSE S.blk[d]

LEMMA TouchedIs ==
    ASSUME NEW S \in Memory, NEW b \in Blocks, NEW C \in Block, NEW T,
           T = [S EXCEPT !.blk = [S.blk EXCEPT ![b] = C]]
    PROVE  Touched(S, T, b, C)
<1>1. S.blk \in [Blocks -> Block]
  BY BlockType
<1>2. [S.blk EXCEPT ![b] = C] \in [Blocks -> Block]
  BY <1>1
<1>3. T \in Memory /\ T.blk = [S.blk EXCEPT ![b] = C] /\ T.embryos = S.embryos /\ T.zombies = S.zombies
  BY <1>2 DEF Memory
<1> QED
  BY <1>1, <1>3 DEF Touched

\* The lists stay, when no block comes to another list.
LEMMA TouchedLists ==
    ASSUME NEW S, Lists(S), NEW T, NEW b \in Blocks, NEW C, Touched(S, T, b, C),
           C.st = S.blk[b].st
    PROVE  Lists(T)
BY DEF Lists, Touched

\* The first embryos stay, when no spawn begins.
LEMMA SameFirst ==
    ASSUME First(spm), Lists(spm), spm'.embryos = spm.embryos,
           \A d \in Blocks : spm'.blk[d].parent = spm.blk[d].parent,
           \A q \in Procs : held'[q] = held[q] \/ held'[q] = None
    PROVE  First(spm)'
<1>1. spm.embryos \in Seq(Blocks)
  BY BlockType DEF Lists
<1>2. \A i \in DOMAIN spm.embryos : spm.embryos[i] \in Blocks
  BY <1>1
<1> SUFFICES ASSUME NEW q \in Procs, NEW i \in DOMAIN spm'.embryos, NEW j \in DOMAIN spm'.embryos,
                    held'[q] # None, spm'.embryos[j] = held'[q],
                    spm'.blk[spm'.embryos[i]].parent = q
             PROVE  j <= i
  BY DEF First, Foremost
<1>3. held[q] # None /\ spm.embryos[j] = held[q] /\ spm.blk[spm.embryos[i]].parent = q
  BY <1>2
<1> QED
  BY <1>3 DEF First, Foremost

\* The types of what is known of the processes.
LEMMA ProcessTypes ==
    ASSUME Processes
    PROVE  /\ os \in [Procs -> {"none", "loading", "run", "dead"}]
           /\ parent \in [Procs -> Procs \union {None}]
           /\ self \in [Procs -> Blocks \union {None}]
           /\ held \in [Procs -> Blocks \union {None}]
           /\ step \in [Procs -> {"idle", "embryo", "started", "named"}]
           /\ child \in [Procs -> Procs \union {None}]
BY DEF Processes

\* DosExecPgm succeeds.
LEMMA ExecGood ==
    ASSUME Good(spm), NEW p \in Procs, NEW c \in Procs, Exec(p, c)
    PROVE  Good(spm)'
<1> USE SPMAssumption
<1>h. PICK h : h = held[p]
  OBVIOUS
<1>C. PICK C : C = [spm.blk[h] EXCEPT !.for = c]
  OBVIOUS
<1>0. spm \in Memory /\ Processes /\ Lists(spm)
  BY DEF Good, Lists
<1>1. step[p] = "embryo" /\ os[c] = "none"
  BY DEF Exec
<1>2. h \in Blocks /\ h # None /\ Uses(p)
  BY <1>h, <1>0, <1>1 DEF Processes
<1>3. /\ spm.blk[h].st = "embryo" /\ spm.blk[h].pid = None /\ spm.blk[h].for = None
      /\ spm.blk[h].parent = p
  BY <1>h, <1>1, <1>2 DEF Good, Held, HeldOf
<1>4. /\ c # p /\ c # Root /\ parent[c] = None /\ c \notin libc /\ self[c] = None /\ c # None
      /\ c \notin asked
  BY <1>0, <1>1, <1>2 DEF Processes, Uses
<1>5. \A q \in Procs : child[q] # c /\ parent[q] # c
  BY <1>0, <1>1, <1>4 DEF Processes, Uses
<1>6. C \in Block /\ spm.blk[h] \in Block
  <2>1. spm.blk[h] \in Block
    BY <1>0, <1>2, BlockType
  <2> QED
    BY <1>C, <2>1 DEF Block
<1>7. /\ C.st = "embryo" /\ C.pid = None /\ C.for = c /\ C.parent = p
      /\ C.term = spm.blk[h].term /\ C.notes = spm.blk[h].notes /\ C.refs = spm.blk[h].refs
      /\ C.fork = spm.blk[h].fork
  BY <1>C, <1>3, <1>6 DEF Block
<1>8. Touched(spm, spm', h, C)
  <2>1. spm' = [spm EXCEPT !.blk = [spm.blk EXCEPT ![h] = C]]
    BY <1>h, <1>C DEF Exec
  <2> QED
    BY <1>0, <1>2, <1>6, <2>1, TouchedIs
<1>9. \A d \in Blocks : spm'.blk[d] = IF d = h THEN C ELSE spm.blk[d]
  BY <1>8 DEF Touched
<1>10. /\ self' = self /\ held' = held /\ libc' = libc /\ silent' = silent /\ asked' = asked /\ told' = told
       /\ fails' = fails /\ queries' = queries
       /\ os' = [os EXCEPT ![c] = "loading"] /\ parent' = [parent EXCEPT ![c] = p]
       /\ child' = [child EXCEPT ![p] = c] /\ step' = [step EXCEPT ![p] = "started"]
  BY DEF Exec
<1>11. /\ \A q \in Procs : os'[q] = IF q = c THEN "loading" ELSE os[q]
       /\ \A q \in Procs : parent'[q] = IF q = c THEN p ELSE parent[q]
       /\ \A q \in Procs : child'[q] = IF q = p THEN c ELSE child[q]
       /\ \A q \in Procs : step'[q] = IF q = p THEN "started" ELSE step[q]
  BY <1>0, <1>10, ProcessTypes
<1>12. \A q \in Procs : Uses(q)' = Uses(q)
  BY <1>1, <1>4, <1>10, <1>11 DEF Uses
<1>13. Lists(spm)'
  BY <1>0, <1>2, <1>3, <1>7, <1>8, TouchedLists
<1>14. Processes'
  <2>1. /\ os' \in [Procs -> {"none", "loading", "run", "dead"}]
        /\ parent' \in [Procs -> Procs \union {None}]
        /\ child' \in [Procs -> Procs \union {None}]
        /\ step' \in [Procs -> {"idle", "embryo", "started", "named"}]
    BY <1>0, <1>10, ProcessTypes
  <2>2. os'[Root] \in {"run", "dead"}
    BY <1>0, <1>4, <1>11 DEF Processes
  <2>3. ASSUME NEW q \in Procs
        PROVE  /\ self[q] # None => os'[q] = "run" /\ q \in libc
               /\ q \in libc => os'[q] = "dead" \/ Uses(q)
               /\ q \in asked => os'[q] = "dead"
               /\ held[q] = None <=> step'[q] = "idle"
               /\ child'[q] = None <=> step'[q] \in {"idle", "embryo"}
               /\ held[q] # None => Uses(q)
               /\ child'[q] # None => parent'[child'[q]] = q /\ os'[child'[q]] # "none"
               /\ os'[q] = "none" => parent'[q] = None
               /\ parent'[q] # None => os'[parent'[q]] = "dead" \/ Uses(parent'[q])
               /\ parent'[q] # q
    <3>1. /\ self[q] # None => os'[q] = "run" /\ q \in libc
          /\ q \in libc => os'[q] = "dead" \/ Uses(q)
          /\ q \in asked => os'[q] = "dead"
          /\ held[q] # None => Uses(q)
      BY <1>0, <1>4, <1>11 DEF Processes
    <3>2. /\ held[q] = None <=> step'[q] = "idle"
          /\ child'[q] = None <=> step'[q] \in {"idle", "embryo"}
      BY <1>0, <1>1, <1>4, <1>11 DEF Processes
    <3>3. child'[q] # None => parent'[child'[q]] = q /\ os'[child'[q]] # "none"
      BY <1>0, <1>4, <1>11 DEF Processes
    <3>4. /\ os'[q] = "none" => parent'[q] = None
          /\ parent'[q] # None => os'[parent'[q]] = "dead" \/ Uses(parent'[q])
          /\ parent'[q] # q
      BY <1>0, <1>2, <1>4, <1>5, <1>11 DEF Processes
    <3> QED
      BY <3>1, <3>2, <3>3, <3>4
  <2>4. /\ \A q \in Procs : parent'[q] # None => parent'[q] \in Procs
    BY <2>1
  <2> QED
    BY <1>0, <1>10, <1>12, <2>1, <2>2, <2>3, <2>4 DEF Processes
<1>15. Blks(spm)'
  <2>1. EmbryoOf(C)'
    <3>1. EmbryoOf(spm.blk[h])
      BY <1>2, <1>3 DEF Good, Blks
    <3> QED
      BY <1>2, <1>3, <1>4, <1>7, <1>10, <1>11, <1>12, <3>1 DEF EmbryoOf
  <2>2. ASSUME NEW d \in Blocks, d # h
        PROVE  /\ spm.blk[d].st = "embryo" => EmbryoOf(spm.blk[d])'
               /\ spm.blk[d].st = "alive" => AliveOf(d, spm.blk[d])'
               /\ spm.blk[d].st = "embryo" => spm.blk[d].for # c
    <3>1. spm.blk[d].pid \in Procs \union {None} /\ spm.blk[d].parent \in Procs \union {None} /\ spm.blk[d].for \in Procs \union {None}
      BY <1>0, BlockType
    <3>2. ASSUME spm.blk[d].st = "embryo" PROVE EmbryoOf(spm.blk[d])' /\ spm.blk[d].for # c
      <4>1. EmbryoOf(spm.blk[d])
        BY <3>2 DEF Good, Blks
      <4>2. spm.blk[d].for # c
        BY <1>1, <1>4, <4>1 DEF EmbryoOf
      <4>3. spm'.blk[d] = spm.blk[d]
        BY <1>9, <2>2
      <4> QED
        BY <1>4, <1>10, <1>11, <1>12, <3>1, <4>1, <4>2, <4>3 DEF EmbryoOf
    <3>3. ASSUME spm.blk[d].st = "alive" PROVE AliveOf(d, spm.blk[d])'
      <4>1. AliveOf(d, spm.blk[d])
        BY <3>3 DEF Good, Blks
      <4>2. spm'.blk[d] = spm.blk[d]
        BY <1>9, <2>2
      <4> QED
        BY <1>4, <1>10, <1>11, <3>1, <4>1, <4>2 DEF AliveOf
    <3> QED
      BY <3>2, <3>3
  <2>3. ASSUME NEW d \in Blocks
        PROVE  LET B == spm'.blk[d] IN
               /\ B.st = "free" => B = Free
               /\ B.st = "embryo" => EmbryoOf(spm.blk[d])'
               /\ B.st = "alive" => AliveOf(d, spm.blk[d])'
               /\ B.st = "zombie" => B.refs > 0
    <3>1. CASE d = h
      <4>1. spm'.blk[d] = C
        BY <1>9, <3>1
      <4> QED
        BY <1>7, <2>1, <4>1 DEF EmbryoOf
    <3>2. CASE d # h
      <4>1. spm'.blk[d] = spm.blk[d]
        BY <1>9, <3>2
      <4> QED
        BY <2>2, <3>2, <4>1 DEF Good, Blks
    <3> QED
      BY <3>1, <3>2
  <2>4. ASSUME NEW d \in Blocks, NEW e \in Blocks,
               spm'.blk[d].st = "embryo", spm'.blk[e].st = "embryo",
               spm'.blk[d].for # None, spm'.blk[d].for = spm'.blk[e].for
        PROVE  d = e
    BY <1>7, <1>9, <2>2, <2>4 DEF Good, Blks
  <2> QED
    BY <2>3, <2>4 DEF Blks
<1>16. Own(spm)'
  BY <1>0, <1>3, <1>9, <1>10, ProcessTypes DEF Good, Own
<1>17. Held(spm)'
  <2> SUFFICES ASSUME NEW q \in Procs, held[q] # None PROVE HeldOf(q, spm.blk[held[q]])'
    BY <1>10 DEF Held
  <2>0. held[q] \in Blocks /\ HeldOf(q, spm.blk[held[q]])
    BY <1>0, ProcessTypes DEF Good, Held
  <2>1. CASE q = p
    <3>1. spm'.blk[held'[q]] = C
      BY <1>h, <1>2, <1>9, <1>10, <2>1
    <3> QED
      BY <1>7, <1>11, <2>1, <3>1 DEF HeldOf
  <2>2. CASE q # p
    <3>1. held[q] # h
      BY <1>3, <2>0, <2>2 DEF HeldOf
    <3>2. spm'.blk[held'[q]] = spm.blk[held[q]]
      BY <1>9, <1>10, <2>0, <3>1
    <3> QED
      BY <1>11, <2>0, <2>2, <3>2 DEF HeldOf
  <2> QED
    BY <2>1, <2>2
<1>18. First(spm)'
  <2>1. \A d \in Blocks : spm'.blk[d].parent = spm.blk[d].parent
    BY <1>3, <1>7, <1>9
  <2>2. spm'.embryos = spm.embryos
    BY <1>8 DEF Touched
  <2> QED
    BY <1>0, <1>10, <2>1, <2>2, SameFirst DEF Good
<1>19. Counts(spm)'
  <2> SUFFICES ASSUME NEW d \in Blocks PROVE CountOf(spm, d)'
    BY DEF Counts
  <2>1. /\ spm'.blk[d].st = spm.blk[d].st /\ spm'.blk[d].refs = spm.blk[d].refs
    BY <1>3, <1>7, <1>9
  <2> QED
    BY <1>10, <2>1 DEF Good, Counts, CountOf, Users
<1>20. Loading(spm)'
  <2> SUFFICES ASSUME NEW x \in Procs, os'[x] = "loading" PROVE parent'[x] # None /\ Awaited(spm, x)'
    BY DEF Loading
  <2>1. CASE x = c
    <3>1. parent'[x] = p /\ child'[p] = c /\ held'[p] = h /\ spm'.blk[h] = C
      BY <1>h, <1>2, <1>9, <1>10, <1>11, <2>1
    <3> QED
      BY <1>4, <1>7, <2>1, <3>1 DEF Awaited
  <2>2. CASE x # c
    <3>1. os[x] = "loading" /\ parent'[x] = parent[x] /\ parent[x] # None /\ Awaited(spm, x)
      BY <1>11, <2>2 DEF Good, Loading
    <3>2. parent[x] \in Procs /\ parent[x] # c
      BY <1>0, <1>5, <3>1, ProcessTypes
    <3>3. CASE child[parent[x]] = x /\ spm.blk[held[parent[x]]].st = "embryo"
      <4>1. parent[x] # p
        BY <1>0, <1>1, <3>2, <3>3 DEF Processes
      <4>2. held[parent[x]] \in Blocks
        BY <1>0, <3>2, <3>3 DEF Processes
      <4> QED
        BY <1>7, <1>9, <1>10, <1>11, <3>1, <3>2, <3>3, <4>1, <4>2 DEF Awaited
    <3>4. CASE \E d \in Blocks : spm.blk[d].st = "embryo" /\ spm.blk[d].parent = parent[x] /\ spm.blk[d].pid = x
      BY <1>3, <1>9, <3>1, <3>4 DEF Awaited
    <3>5. CASE os[parent[x]] = "dead"
      BY <1>11, <3>1, <3>2, <3>5 DEF Awaited
    <3> QED
      BY <3>1, <3>3, <3>4, <3>5 DEF Awaited
  <2> QED
    BY <2>1, <2>2
<1>21. Notes(spm)'
  <2> SUFFICES ASSUME NEW q \in Procs, self[q] # None PROVE Noted(q, spm.blk[self[q]].notes)'
    BY <1>10 DEF Notes
  <2>1. self[q] \in Blocks /\ Noted(q, spm.blk[self[q]].notes)
    BY <1>0, ProcessTypes DEF Good, Notes
  <2>2. spm'.blk[self'[q]].notes = spm.blk[self[q]].notes
    BY <1>7, <1>9, <1>10, <2>1
  <2>3. \A x \in libc : os'[x] = os[x] /\ parent'[x] = parent[x]
    BY <1>0, <1>4, <1>11 DEF Processes
  <2> QED
    BY <1>10, <2>1, <2>2, <2>3 DEF Noted
<1> QED
  BY <1>13, <1>14, <1>15, <1>16, <1>17, <1>18, <1>19, <1>20, <1>21 DEF Good

\* The fork handle is put into the block (libcfork.c:1268).
LEMMA SetForkHandleGood ==
    ASSUME Good(spm), NEW p \in Procs, SetForkHandle(p)
    PROVE  Good(spm)'
<1> USE SPMAssumption
<1>h. PICK h : h = held[p]
  OBVIOUS
<1>B. PICK B : B = spm.blk[h]
  OBVIOUS
<1>C. PICK C : C = [B EXCEPT !.fork = TRUE]
  OBVIOUS
<1>0. spm \in Memory /\ Processes /\ Lists(spm)
  BY DEF Good, Lists
<1>1. step[p] = "embryo"
  BY DEF SetForkHandle
<1>2. h \in Blocks /\ h # None
  <2>1. h # None
    BY <1>h, <1>0, <1>1 DEF Processes
  <2> QED
    BY <1>h, <1>0, <2>1, ProcessTypes
<1>3. B.st = "embryo" /\ B.parent = p
  BY <1>h, <1>B, <1>1, <1>2 DEF Good, Held, HeldOf
<1>4. B \in Block
  BY <1>0, <1>2, <1>B, BlockType
<1>5. C \in Block
  BY <1>2, <1>4, <1>C DEF Block
<1>6. /\ C.st = B.st /\ C.refs = B.refs /\ C.parent = B.parent /\ C.pid = B.pid
      /\ C.for = B.for /\ C.notes = B.notes /\ C.term = B.term
  BY <1>4, <1>C DEF Block
<1>7. Touched(spm, spm', h, C)
  <2>1. spm' = [spm EXCEPT !.blk = [spm.blk EXCEPT ![h] = C]]
    BY <1>h, <1>B, <1>C DEF SetForkHandle
  <2> QED
    BY <1>0, <1>2, <1>5, <2>1, TouchedIs
<1>8. \A d \in Blocks : spm'.blk[d] = IF d = h THEN C ELSE spm.blk[d]
  BY <1>7 DEF Touched
<1>9. /\ os' = os /\ parent' = parent /\ self' = self /\ step' = step /\ held' = held /\ child' = child
      /\ libc' = libc /\ silent' = silent /\ asked' = asked /\ told' = told
      /\ fails' = fails /\ queries' = queries
  BY DEF SetForkHandle, procVars
<1>11. Lists(spm)'
  BY <1>0, <1>2, <1>6, <1>7, <1>B, TouchedLists
<1>12. \A q \in Procs : Uses(q)' = Uses(q)
  BY <1>9 DEF Uses
<1>13. Processes'
  BY <1>0, <1>9, <1>12 DEF Processes
<1>14. Blks(spm)'
  <2>1. ASSUME NEW d \in Blocks
        PROVE  LET D == spm'.blk[d] IN
               /\ D.st = "free" => D = Free
               /\ D.st = "embryo" => EmbryoOf(spm.blk[d])'
               /\ D.st = "alive" => AliveOf(d, spm.blk[d])'
               /\ D.st = "zombie" => D.refs > 0
    <3>1. CASE d = h
      <4>1. spm'.blk[d] = C /\ spm.blk[d] = B
        BY <1>8, <1>B, <3>1
      <4>2. /\ B.st = "embryo" => EmbryoOf(B)
            /\ B.st = "alive" => AliveOf(d, B)
            /\ B.st = "zombie" => B.refs > 0
        BY <4>1 DEF Good, Blks
      <4>3. B.st = "embryo" => EmbryoOf(spm.blk[d])'
        BY <1>3, <1>6, <1>9, <4>1, <4>2 DEF EmbryoOf, Uses
      <4>4. B.st = "alive" => AliveOf(d, spm.blk[d])'
        BY <1>6, <1>9, <4>1, <4>2 DEF AliveOf
      <4> QED
        BY <1>3, <1>6, <4>1, <4>2, <4>3, <4>4
    <3>2. CASE d # h
      <4>1. spm'.blk[d] = spm.blk[d]
        BY <1>8, <3>2
      <4> QED
        BY <1>9, <4>1 DEF Good, Blks, EmbryoOf, AliveOf, Uses
    <3> QED
      BY <3>1, <3>2
  <2>2. \A d \in Blocks : spm'.blk[d].st = spm.blk[d].st /\ spm'.blk[d].for = spm.blk[d].for
    BY <1>6, <1>8, <1>B
  <2> QED
    BY <2>1, <2>2 DEF Good, Blks
<1>15. Own(spm)'
  <2> SUFFICES ASSUME NEW q \in Procs, self[q] # None
               PROVE  spm'.blk[self[q]].st = "alive" /\ spm'.blk[self[q]].pid = q
    BY <1>9 DEF Own
  <2>1. self[q] \in Blocks /\ spm.blk[self[q]].st = "alive" /\ spm.blk[self[q]].pid = q /\ q # None
    BY <1>0, ProcessTypes DEF Good, Own
  <2> QED
    BY <1>6, <1>8, <1>B, <2>1
<1>16. Held(spm)'
  <2> SUFFICES ASSUME NEW q \in Procs, held[q] # None PROVE HeldOf(q, spm.blk[held[q]])'
    BY <1>9 DEF Held
  <2>0. held[q] \in Blocks /\ HeldOf(q, spm.blk[held[q]])
    BY <1>0, ProcessTypes DEF Good, Held
  <2>1. CASE q = p
    <3>1. spm'.blk[held'[q]] = C /\ spm.blk[held[q]] = B
      BY <1>h, <1>2, <1>8, <1>9, <1>B, <2>1
    <3> QED
      BY <1>1, <1>6, <1>9, <2>0, <2>1, <3>1 DEF HeldOf
  <2>2. CASE q # p
    <3>1. held[q] # h
      BY <1>3, <1>B, <2>0, <2>2 DEF HeldOf
    <3>2. spm'.blk[held'[q]] = spm.blk[held[q]]
      BY <1>8, <1>9, <2>0, <3>1
    <3> QED
      BY <1>9, <2>0, <3>2 DEF HeldOf
  <2> QED
    BY <2>1, <2>2
<1>17. First(spm)'
  <2>1. \A d \in Blocks : spm'.blk[d].parent = spm.blk[d].parent
    BY <1>6, <1>8, <1>B
  <2>2. spm'.embryos = spm.embryos
    BY <1>7 DEF Touched
  <2> QED
    BY <1>0, <1>9, <2>1, <2>2, SameFirst DEF Good
<1>18. Counts(spm)'
  <2> SUFFICES ASSUME NEW d \in Blocks PROVE CountOf(spm, d)'
    BY DEF Counts
  <2>1. /\ spm'.blk[d].st = spm.blk[d].st /\ spm'.blk[d].refs = spm.blk[d].refs
    BY <1>6, <1>8, <1>B
  <2> QED
    BY <1>9, <2>1 DEF Good, Counts, CountOf, Users
<1>19. Loading(spm)'
  <2> SUFFICES ASSUME NEW x \in Procs, os[x] = "loading" PROVE parent[x] # None /\ Awaited(spm, x)'
    BY <1>9 DEF Loading
  <2>1. parent[x] # None /\ Awaited(spm, x) /\ x # None /\ parent[x] \in Procs
    BY <1>0, ProcessTypes DEF Good, Loading
  <2>2. CASE child[parent[x]] = x /\ spm.blk[held[parent[x]]].st = "embryo"
    <3>1. held[parent[x]] \in Blocks
      BY <1>0, <2>1, <2>2 DEF Processes
    <3>2. spm'.blk[held[parent[x]]].st = "embryo"
      BY <1>6, <1>8, <1>B, <2>2, <3>1
    <3> QED
      BY <1>9, <2>1, <2>2, <3>2 DEF Awaited
  <2>3. CASE \E d \in Blocks : spm.blk[d].st = "embryo" /\ spm.blk[d].parent = parent[x] /\ spm.blk[d].pid = x
    <3>1. PICK d \in Blocks : spm.blk[d].st = "embryo" /\ spm.blk[d].parent = parent[x] /\ spm.blk[d].pid = x
      BY <2>3
    <3>2. spm'.blk[d].st = "embryo" /\ spm'.blk[d].parent = parent[x] /\ spm'.blk[d].pid = x
      BY <1>6, <1>8, <1>B, <2>1, <3>1
    <3> QED
      BY <1>9, <2>1, <3>2 DEF Awaited
  <2>4. CASE os[parent[x]] = "dead"
    BY <1>9, <2>1, <2>4 DEF Awaited
  <2> QED
    BY <2>1, <2>2, <2>3, <2>4 DEF Awaited
<1>20. Notes(spm)'
  <2>1. \A q \in Procs : self[q] # None => spm'.blk[self[q]].notes = spm.blk[self[q]].notes
    BY <1>0, <1>6, <1>8, <1>B, ProcessTypes
  <2> QED
    BY <1>9, <2>1 DEF Good, Notes, Noted
<1> QED
  BY <1>11, <1>13, <1>14, <1>15, <1>16, <1>17, <1>18, <1>19, <1>20 DEF Good

\* The process id is put into the block (__spawnve.c, libcfork.c), or was there.
LEMMA SetPidGood ==
    ASSUME Good(spm), NEW p \in Procs, SetPid(p)
    PROVE  Good(spm)'
<1> USE SPMAssumption
<1>h. PICK h : h = held[p]
  OBVIOUS
<1>c. PICK c : c = child[p]
  OBVIOUS
<1>B. PICK B : B = spm.blk[h]
  OBVIOUS
<1>C. PICK C : C = IF B.pid = None /\ ~B.fork THEN [B EXCEPT !.pid = c] ELSE B
  OBVIOUS
<1>0. spm \in Memory /\ Processes /\ Lists(spm)
  BY DEF Good, Lists
<1>1. step[p] = "started" /\ step' = [step EXCEPT ![p] = "named"]
  BY DEF SetPid
<1>2. h \in Blocks /\ h # None /\ Uses(p) /\ c \in Procs /\ c # None
  <2>1. h # None /\ Uses(p) /\ c # None
    BY <1>h, <1>c, <1>0, <1>1 DEF Processes
  <2> QED
    BY <1>h, <1>c, <1>0, <2>1, ProcessTypes
<1>3. B.st # "free" /\ B.parent = p /\ B.for = c /\ B.pid \in {None, c}
  BY <1>h, <1>c, <1>B, <1>2 DEF Good, Held, HeldOf
<1>4. B \in Block
  BY <1>0, <1>2, <1>B, BlockType
<1>5. C \in Block
  BY <1>2, <1>4, <1>C DEF Block
<1>6. /\ C.st = B.st /\ C.refs = B.refs /\ C.parent = B.parent /\ C.fork = B.fork
      /\ C.for = B.for /\ C.notes = B.notes /\ C.term = B.term
      /\ C.pid \in {None, c} /\ (~B.fork => C.pid = c) /\ (B.pid # None => C.pid = B.pid)
  BY <1>3, <1>4, <1>C DEF Block
<1>7. Touched(spm, spm', h, C)
  <2>1. CASE B.pid = None /\ ~B.fork
    <3>1. spm' = [spm EXCEPT !.blk = [spm.blk EXCEPT ![h] = C]]
      BY <1>h, <1>c, <1>B, <1>C, <2>1 DEF SetPid
    <3> QED
      BY <1>0, <1>2, <1>5, <3>1, TouchedIs
  <2>2. CASE ~(B.pid = None /\ ~B.fork)
    <3>1. spm' = spm /\ C = spm.blk[h]
      BY <1>h, <1>B, <1>C, <2>2 DEF SetPid
    <3> QED
      BY <1>0, <3>1 DEF Touched
  <2> QED
    BY <2>1, <2>2
<1>8. \A d \in Blocks : spm'.blk[d] = IF d = h THEN C ELSE spm.blk[d]
  BY <1>7 DEF Touched
<1>9. /\ os' = os /\ parent' = parent /\ self' = self /\ held' = held /\ child' = child
      /\ libc' = libc /\ silent' = silent /\ asked' = asked /\ told' = told /\ fails' = fails /\ queries' = queries
  BY DEF SetPid
<1>10. \A q \in Procs : step'[q] = IF q = p THEN "named" ELSE step[q]
  BY <1>0, <1>1, ProcessTypes
<1>11. Lists(spm)'
  BY <1>0, <1>2, <1>6, <1>7, <1>B, TouchedLists
<1>12. \A q \in Procs : Uses(q)' = Uses(q)
  BY <1>9 DEF Uses
<1>13. Processes'
  <2>1. step' \in [Procs -> {"idle", "embryo", "started", "named"}]
    BY <1>0, <1>1, ProcessTypes
  <2> QED
    BY <1>0, <1>1, <1>9, <1>10, <1>12, <2>1 DEF Processes
<1>14. Blks(spm)'
  <2>1. ASSUME NEW d \in Blocks
        PROVE  LET D == spm'.blk[d] IN
               /\ D.st = "free" => D = Free
               /\ D.st = "embryo" => EmbryoOf(spm.blk[d])'
               /\ D.st = "alive" => AliveOf(d, spm.blk[d])'
               /\ D.st = "zombie" => D.refs > 0
    <3>1. CASE d = h
      <4>1. spm'.blk[d] = C /\ spm.blk[d] = B
        BY <1>8, <1>B, <3>1
      <4>2. /\ B.st = "embryo" => EmbryoOf(B)
            /\ B.st = "alive" => AliveOf(d, B)
            /\ B.st = "zombie" => B.refs > 0
        BY <4>1 DEF Good, Blks
      <4>3. B.st = "embryo" => EmbryoOf(spm.blk[d])'
        BY <1>3, <1>6, <1>9, <4>1, <4>2 DEF EmbryoOf, Uses
      <4>4. B.st = "alive" => AliveOf(d, spm.blk[d])'
        BY <1>6, <1>9, <4>1, <4>2 DEF AliveOf
      <4> QED
        BY <1>3, <1>6, <4>1, <4>2, <4>3, <4>4
    <3>2. CASE d # h
      <4>1. spm'.blk[d] = spm.blk[d]
        BY <1>8, <3>2
      <4> QED
        BY <1>9, <4>1 DEF Good, Blks, EmbryoOf, AliveOf, Uses
    <3> QED
      BY <3>1, <3>2
  <2>2. \A d \in Blocks : spm'.blk[d].st = spm.blk[d].st /\ spm'.blk[d].for = spm.blk[d].for
    BY <1>6, <1>8, <1>B
  <2> QED
    BY <2>1, <2>2 DEF Good, Blks
<1>15. Own(spm)'
  <2> SUFFICES ASSUME NEW q \in Procs, self[q] # None
               PROVE  spm'.blk[self[q]].st = "alive" /\ spm'.blk[self[q]].pid = q
    BY <1>9 DEF Own
  <2>1. self[q] \in Blocks /\ spm.blk[self[q]].st = "alive" /\ spm.blk[self[q]].pid = q /\ q # None
    BY <1>0, ProcessTypes DEF Good, Own
  <2> QED
    BY <1>6, <1>8, <1>B, <2>1
<1>16. Held(spm)'
  <2> SUFFICES ASSUME NEW q \in Procs, held[q] # None PROVE HeldOf(q, spm.blk[held[q]])'
    BY <1>9 DEF Held
  <2>0. held[q] \in Blocks /\ HeldOf(q, spm.blk[held[q]])
    BY <1>0, ProcessTypes DEF Good, Held
  <2>1. CASE q = p
    <3>1. spm'.blk[held'[q]] = C
      BY <1>h, <1>2, <1>8, <1>9, <2>1
    <3> QED
      BY <1>c, <1>3, <1>6, <1>9, <1>10, <2>1, <3>1 DEF HeldOf
  <2>2. CASE q # p
    <3>1. held[q] # h
      BY <1>3, <1>B, <2>0, <2>2 DEF HeldOf
    <3>2. spm'.blk[held'[q]] = spm.blk[held[q]]
      BY <1>8, <1>9, <2>0, <3>1
    <3> QED
      BY <1>9, <1>10, <2>0, <2>2, <3>2 DEF HeldOf
  <2> QED
    BY <2>1, <2>2
<1>17. First(spm)'
  <2>1. \A d \in Blocks : spm'.blk[d].parent = spm.blk[d].parent
    BY <1>6, <1>8, <1>B
  <2>2. spm'.embryos = spm.embryos
    BY <1>7 DEF Touched
  <2> QED
    BY <1>0, <1>9, <2>1, <2>2, SameFirst DEF Good
<1>18. Counts(spm)'
  <2> SUFFICES ASSUME NEW d \in Blocks PROVE CountOf(spm, d)'
    BY DEF Counts
  <2>1. /\ spm'.blk[d].st = spm.blk[d].st /\ spm'.blk[d].refs = spm.blk[d].refs
    BY <1>6, <1>8, <1>B
  <2> QED
    BY <1>9, <2>1 DEF Good, Counts, CountOf, Users
<1>19. Loading(spm)'
  <2> SUFFICES ASSUME NEW x \in Procs, os[x] = "loading" PROVE parent[x] # None /\ Awaited(spm, x)'
    BY <1>9 DEF Loading
  <2>1. parent[x] # None /\ Awaited(spm, x) /\ x # None /\ parent[x] \in Procs
    BY <1>0, ProcessTypes DEF Good, Loading
  <2>2. CASE child[parent[x]] = x /\ spm.blk[held[parent[x]]].st = "embryo"
    <3>1. held[parent[x]] \in Blocks
      BY <1>0, <2>1, <2>2 DEF Processes
    <3>2. spm'.blk[held[parent[x]]].st = "embryo"
      BY <1>6, <1>8, <1>B, <2>2, <3>1
    <3> QED
      BY <1>9, <2>1, <2>2, <3>2 DEF Awaited
  <2>3. CASE \E d \in Blocks : spm.blk[d].st = "embryo" /\ spm.blk[d].parent = parent[x] /\ spm.blk[d].pid = x
    <3>1. PICK d \in Blocks : spm.blk[d].st = "embryo" /\ spm.blk[d].parent = parent[x] /\ spm.blk[d].pid = x
      BY <2>3
    <3>2. spm'.blk[d].st = "embryo" /\ spm'.blk[d].parent = parent[x] /\ spm'.blk[d].pid = x
      BY <1>6, <1>8, <1>B, <2>1, <3>1
    <3> QED
      BY <1>9, <2>1, <3>2 DEF Awaited
  <2>4. CASE os[parent[x]] = "dead"
    BY <1>9, <2>1, <2>4 DEF Awaited
  <2> QED
    BY <2>1, <2>2, <2>3, <2>4 DEF Awaited
<1>20. Notes(spm)'
  <2>1. \A q \in Procs : self[q] # None => spm'.blk[self[q]].notes = spm.blk[self[q]].notes
    BY <1>0, <1>6, <1>8, <1>B, ProcessTypes
  <2> QED
    BY <1>9, <2>1 DEF Good, Notes, Noted
<1> QED
  BY <1>11, <1>13, <1>14, <1>15, <1>16, <1>17, <1>18, <1>19, <1>20 DEF Good

-----------------------------------------------------------------------------
(* Processes the library does not know of, and searches                     *)

\* A process without a block starts to run, or ends; the memory is S.
Turns(S, c, s) ==
    /\ os[c] \in {"loading", "run"} /\ self[c] = None
    /\ spm' = S /\ os' = [os EXCEPT ![c] = s]
    /\ UNCHANGED <<parent, self, step, held, child, libc, silent, asked, told, fails, queries>>

LEMMA TurnsGood ==
    ASSUME NEW S, Good(S), NEW c \in Procs, NEW s \in {"run", "dead"}, Turns(S, c, s)
    PROVE  Good(spm)'
<1> USE SPMAssumption
<1>0. S \in Memory /\ Processes /\ Lists(S)
  BY DEF Good, Lists
<1>1. os[c] \in {"loading", "run"} /\ self[c] = None
  BY DEF Turns
<1>2. c \notin libc /\ c \notin asked
  BY <1>0, <1>1 DEF Processes, Uses
<1>3. /\ spm' = S /\ parent' = parent /\ self' = self /\ step' = step /\ held' = held /\ child' = child
      /\ libc' = libc /\ silent' = silent /\ asked' = asked /\ told' = told /\ fails' = fails /\ queries' = queries
      /\ os' = [os EXCEPT ![c] = s]
  BY DEF Turns
<1>4. \A q \in Procs : os'[q] = IF q = c THEN s ELSE os[q]
  BY <1>0, <1>3, ProcessTypes
<1>5. \A q \in Procs : Uses(q)' = Uses(q)
  BY <1>1, <1>3, <1>4 DEF Uses
<1>6. \A q \in Procs \union {None} : q # None => q \in Procs
  OBVIOUS
<1>7. Processes'
  <2>1. os' \in [Procs -> {"none", "loading", "run", "dead"}]
    BY <1>0, <1>3, ProcessTypes
  <2>2. ASSUME NEW q \in Procs
        PROVE  /\ self[q] # None => os'[q] = "run" /\ q \in libc
               /\ q \in libc => os'[q] = "dead" \/ Uses(q)
               /\ q \in asked => os'[q] = "dead"
               /\ child[q] # None => parent[child[q]] = q /\ os'[child[q]] # "none"
               /\ os'[q] = "none" => parent[q] = None
               /\ parent[q] # None => os'[parent[q]] = "dead" \/ Uses(parent[q])
    <3>1. child[q] \in Procs \union {None} /\ parent[q] \in Procs \union {None}
      BY <1>0, ProcessTypes
    <3>2. /\ self[q] # None => os'[q] = "run" /\ q \in libc
          /\ q \in libc => os'[q] = "dead" \/ Uses(q)
          /\ q \in asked => os'[q] = "dead"
          /\ os'[q] = "none" => parent[q] = None
      BY <1>0, <1>1, <1>2, <1>4 DEF Processes
    <3>3. child[q] # None => parent[child[q]] = q /\ os'[child[q]] # "none"
      BY <1>0, <1>4, <1>6, <3>1 DEF Processes
    <3>4. parent[q] # None => os'[parent[q]] = "dead" \/ Uses(parent[q])
      BY <1>0, <1>1, <1>4, <1>6, <3>1 DEF Processes, Uses
    <3> QED
      BY <3>2, <3>3, <3>4
  <2>3. os'[Root] \in {"run", "dead"}
    BY <1>0, <1>4 DEF Processes
  <2>4. \A q \in Procs : parent[q] # None => parent[q] \in Procs
    BY <1>0, <1>6, ProcessTypes
  <2> QED
    BY <1>0, <1>3, <1>5, <2>1, <2>2, <2>3, <2>4 DEF Processes
<1>8. Blks(spm)'
  <2>1. ASSUME NEW d \in Blocks, S.blk[d].st = "embryo" PROVE EmbryoOf(spm.blk[d])'
    <3>1. EmbryoOf(S.blk[d]) /\ S.blk[d].parent \in Procs \union {None} /\ S.blk[d].for \in Procs \union {None}
      BY <1>0, <2>1, BlockType DEF Good, Blks
    <3>2. Uses(spm.blk[d].parent)'
      BY <1>3, <1>5, <1>6, <3>1 DEF EmbryoOf
    <3> QED
      BY <1>3, <1>4, <1>6, <3>1, <3>2 DEF EmbryoOf
  <2>2. ASSUME NEW d \in Blocks, S.blk[d].st = "alive" PROVE AliveOf(d, spm.blk[d])'
    BY <1>3, <2>2 DEF AliveOf, Good, Blks
  <2> QED
    BY <1>3, <2>1, <2>2 DEF Good, Blks
<1>9. Lists(spm)' /\ Own(spm)' /\ Held(spm)' /\ First(spm)' /\ Counts(spm)'
  BY <1>3 DEF Good, Lists, Own, Held, HeldOf, First, Foremost, Counts, CountOf, Users
<1>10. Loading(spm)'
  <2> SUFFICES ASSUME NEW x \in Procs, os'[x] = "loading" PROVE parent[x] # None /\ Awaited(spm, x)'
    BY <1>3 DEF Loading
  <2>1. x # c /\ os[x] = "loading"
    BY <1>4
  <2>2. parent[x] # None /\ Awaited(S, x) /\ parent[x] \in Procs
    BY <1>0, <2>1, ProcessTypes DEF Good, Loading
  <2>3. os[parent[x]] = "dead" => os'[parent[x]] = "dead"
    BY <1>1, <1>4, <2>2
  <2> QED
    BY <1>3, <2>2, <2>3 DEF Awaited
<1>11. Notes(spm)'
  <2>1. \A x \in libc : os'[x] = os[x]
    BY <1>0, <1>2, <1>4 DEF Processes
  <2> QED
    BY <1>3, <2>1 DEF Good, Notes, Noted
<1> QED
  BY <1>7, <1>8, <1>9, <1>10, <1>11 DEF Good

LEMMA ForeignGood ==
    ASSUME Good(spm), NEW c \in Procs, Foreign(c) \/ DiesUnknown(c)
    PROVE  Good(spm)'
<1>1. CASE Foreign(c)
  <2>1. self[c] = None
    BY <1>1 DEF Foreign, Good, Processes
  <2> QED
    BY <1>1, <2>1, TurnsGood DEF Foreign, Turns
<1>2. CASE DiesUnknown(c)
  BY <1>2, TurnsGood DEF DiesUnknown, Turns
<1> QED
  BY <1>1, <1>2

\* __libc_spmQueryProcess: the count of a block that is found only grows.
LEMMA QueryGood ==
    ASSUME Good(spm), NEW p \in Procs, NEW q \in Procs, QueryProcess(p, q)
    PROVE  Good(spm)'
<1> USE SPMAssumption
<1> DEFINE More(B) == [B EXCEPT !.refs = @ + 1]
           Found(B) == B.pid = q /\ B.st \in {"embryo", "alive"}
           New(B) == IF Found(B) THEN More(B) ELSE B
<1>0. spm \in Memory /\ Processes /\ Lists(spm)
  BY DEF Good, Lists
<1>1. ASSUME NEW B \in Block
      PROVE  /\ New(B) \in Block
             /\ New(B).st = B.st /\ New(B).pid = B.pid /\ New(B).parent = B.parent
             /\ New(B).fork = B.fork /\ New(B).term = B.term /\ New(B).notes = B.notes /\ New(B).for = B.for
             /\ \/ New(B) = B
                \/ B.st # "free" /\ New(B).refs = B.refs + 1
  <2>1. CASE Found(B)
    <3>1. New(B) = More(B) /\ B.st # "free"
      BY <2>1
    <3>2. B.refs + 1 \in Nat
      BY DEF Block
    <3>3. More(B) \in Block
      BY <3>2 DEF Block
    <3>4. /\ More(B).st = B.st /\ More(B).pid = B.pid /\ More(B).parent = B.parent
          /\ More(B).fork = B.fork /\ More(B).term = B.term /\ More(B).notes = B.notes
          /\ More(B).for = B.for /\ More(B).refs = B.refs + 1
      BY DEF Block
    <3> HIDE DEF More, New, Found
    <3> QED
      BY <3>1, <3>3, <3>4
  <2>2. CASE ~Found(B)
    BY <2>2
  <2> QED
    BY <2>1, <2>2
<1>2. /\ spm' = [spm EXCEPT !.blk = [b \in Blocks |-> New(spm.blk[b])]]
      /\ os' = os /\ parent' = parent /\ self' = self /\ step' = step /\ held' = held /\ child' = child
      /\ libc' = libc /\ silent' = silent /\ asked' = asked /\ told' = told /\ fails' = fails
  BY DEF QueryProcess, procVars
<1>3. queries' \in 0 .. MaxQueries
  <2>1. queries < MaxQueries /\ queries' = queries + 1
    BY DEF QueryProcess
  <2>2. queries \in 0 .. MaxQueries
    BY <1>0 DEF Processes
  <2> QED
    BY <2>1, <2>2
<1> HIDE DEF New
<1>4. \A b \in Blocks : spm.blk[b] \in Block /\ New(spm.blk[b]) \in Block
  BY <1>0, <1>1, BlockType
<1>5. /\ spm' \in Memory /\ spm'.embryos = spm.embryos /\ spm'.zombies = spm.zombies
      /\ \A b \in Blocks : spm'.blk[b] = New(spm.blk[b])
  <2>1. [b \in Blocks |-> New(spm.blk[b])] \in [Blocks -> Block]
    BY <1>4
  <2> QED
    BY <1>0, <1>2, <2>1 DEF Memory
<1>6. \A b \in Blocks :
        LET B == spm.blk[b]  C == spm'.blk[b]
        IN /\ C.st = B.st /\ C.pid = B.pid /\ C.parent = B.parent /\ C.fork = B.fork /\ C.term = B.term
           /\ C.notes = B.notes /\ C.for = B.for
           /\ C = B \/ (B.st # "free" /\ C.refs = B.refs + 1)
  BY <1>1, <1>4, <1>5
<1>7. Lists(spm)'
  BY <1>0, <1>5, <1>6 DEF Lists
<1>8. Processes'
  BY <1>0, <1>2, <1>3 DEF Processes, Uses
<1>9. Blks(spm)'
  <2>1. ASSUME NEW d \in Blocks
        PROVE  LET D == spm'.blk[d] IN
               /\ D.st = "free" => D = Free
               /\ D.st = "embryo" => EmbryoOf(spm.blk[d])'
               /\ D.st = "alive" => AliveOf(d, spm.blk[d])'
               /\ D.st = "zombie" => D.refs > 0
    <3>0. spm.blk[d].refs \in Nat
      BY <1>0, BlockType
    <3>1. /\ spm.blk[d].st = "free" => spm.blk[d] = Free
          /\ spm.blk[d].st = "embryo" => EmbryoOf(spm.blk[d])
          /\ spm.blk[d].st = "alive" => AliveOf(d, spm.blk[d])
          /\ spm.blk[d].st = "zombie" => spm.blk[d].refs > 0
      BY DEF Good, Blks
    <3>2. spm.blk[d].st = "embryo" => EmbryoOf(spm.blk[d])'
      BY <1>2, <1>6, <3>1 DEF EmbryoOf, Uses
    <3>3. spm.blk[d].st = "alive" => AliveOf(d, spm.blk[d])'
      BY <1>2, <1>6, <3>1 DEF AliveOf
    <3> QED
      BY <1>6, <3>0, <3>1, <3>2, <3>3
  <2> QED
    BY <1>6, <2>1 DEF Good, Blks
<1>10. Own(spm)' /\ Notes(spm)'
  <2>1. \A x \in Procs : self[x] # None => self[x] \in Blocks
    BY <1>0, ProcessTypes
  <2> QED
    BY <1>2, <1>6, <2>1 DEF Good, Own, Notes, Noted
<1>11. Held(spm)'
  <2> SUFFICES ASSUME NEW x \in Procs, held[x] # None PROVE HeldOf(x, spm.blk[held[x]])'
    BY <1>2 DEF Held
  <2>1. held[x] \in Blocks /\ HeldOf(x, spm.blk[held[x]])
    BY <1>0, ProcessTypes DEF Good, Held
  <2> QED
    BY <1>2, <1>6, <2>1 DEF HeldOf
<1>12. First(spm)'
  BY <1>0, <1>2, <1>5, <1>6, SameFirst DEF Good
<1>13. Counts(spm)'
  <2> SUFFICES ASSUME NEW d \in Blocks PROVE CountOf(spm, d)'
    BY DEF Counts
  <2>1. /\ spm'.blk[d].st = spm.blk[d].st
        /\ \/ spm'.blk[d] = spm.blk[d]
           \/ spm'.blk[d].refs = spm.blk[d].refs + 1
    BY <1>6
  <2>2. spm.blk[d].refs \in Nat
    BY <1>0, BlockType
  <2>3. CountOf(spm, d) /\ Users(spm, d) \in Nat
    BY DEF Good, Counts, Users
  <2>4. Users(spm, d)' = Users(spm, d)
    BY <1>2, <2>1 DEF Users
  <2> QED
    BY <2>1, <2>2, <2>3, <2>4 DEF CountOf
<1>14. Loading(spm)'
  <2> SUFFICES ASSUME NEW x \in Procs, os[x] = "loading" PROVE parent[x] # None /\ Awaited(spm, x)'
    BY <1>2 DEF Loading
  <2>1. parent[x] # None /\ Awaited(spm, x) /\ x # None /\ parent[x] \in Procs
    BY <1>0, ProcessTypes DEF Good, Loading
  <2>2. child[parent[x]] = x => held[parent[x]] \in Blocks
    BY <1>0, <2>1 DEF Processes
  <2> QED
    BY <1>2, <1>6, <2>1, <2>2 DEF Awaited
<1> QED
  BY <1>7, <1>8, <1>9, <1>10, <1>11, <1>12, <1>13, <1>14 DEF Good

-----------------------------------------------------------------------------
(* The end of a spawn                                                       *)

LEMMA ThinnedSelf ==
    ASSUME NEW list \in Seq(Blocks)
    PROVE  Thinned(list, list, {})
<1>1. Picks([i \in 1 .. Len(list) |-> i], list, list)
  BY DEF Picks
<1> QED
  BY <1>1 DEF Thinned

\* The first embryos stay when others go and no spawn begins.
LEMMA FewerFirst ==
    ASSUME First(spm), spm \in Memory, spm' \in Memory, NEW bs,
           Thinned(spm.embryos, spm'.embryos, bs),
           \A d \in Blocks : d \notin bs => spm'.blk[d].parent = spm.blk[d].parent,
           \A q \in Procs : held'[q] = held[q] \/ held'[q] = None
    PROVE  First(spm)'
<1> SUFFICES ASSUME NEW q \in Procs, held'[q] # None
             PROVE  Foremost(spm', q, held'[q])
  BY DEF First
<1>1. Foremost(spm, q, held'[q])
  BY DEF First
<1>2. SameParents(spm, spm')
  <2>1. \A b \in Range(spm'.embryos) : b \in Blocks
    BY BlockType, RangeType
  <2> QED
    BY <2>1 DEF Thinned, SameParents
<1> QED
  BY <1>1, <1>2, ThinnedFirst

\* T is S with a reference to h less: the block B has become C.
Released(S, h, T, B, C) ==
    /\ T \in Memory /\ Lists(T)
    /\ \A d \in Blocks : d # h => T.blk[d] = S.blk[d]
    /\ \/ /\ B.refs = 1 /\ (B.st # "embryo" \/ B.fork)
          /\ C = Free /\ Thinned(S.embryos, T.embryos, {h})
       \/ /\ B.refs # 1 \/ (B.st = "embryo" /\ ~B.fork)
          /\ C = [B EXCEPT !.refs = @ - 1]
          /\ Thinned(S.embryos, T.embryos, {})

\* What __libc_spmRelease does (sharedpm.c:971-1009).
LEMMA ReleaseIs ==
    ASSUME NEW S, Lists(S), NEW h \in Blocks, S.blk[h].refs > 0, NEW T, T = Release(S, h)
    PROVE  Released(S, h, T, S.blk[h], T.blk[h])
<1>0. S \in Memory /\ S.embryos \in Seq(Blocks) /\ S.zombies \in Seq(Blocks)
  BY BlockType DEF Lists
<1>1. S.blk[h] \in Block /\ S.blk[h].refs \in Nat
  BY <1>0, BlockType
<1>C. PICK C : C = [S.blk[h] EXCEPT !.refs = @ - 1]
  OBVIOUS
<1>2. S.blk[h].refs - 1 \in Nat
  BY <1>1
<1>3. C \in Block /\ C.st = S.blk[h].st /\ C.fork = S.blk[h].fork /\ C.refs = S.blk[h].refs - 1
  BY <1>C, <1>1, <1>2 DEF Block
<1>4. T = IF C.refs = 0 /\ (C.st # "embryo" \/ C.fork) THEN FreeProcess(S, {h})
          ELSE [S EXCEPT !.blk = [S.blk EXCEPT ![h] = C]]
  BY <1>C DEF Release
<1>5. CASE C.refs = 0 /\ (C.st # "embryo" \/ C.fork)
  <2>1. T = FreeProcess(S, {h}) /\ {h} \in SUBSET Blocks
    BY <1>4, <1>5
  <2>2. /\ T \in Memory
        /\ Thinned(S.embryos, T.embryos, {h}) /\ Thinned(S.zombies, T.zombies, {h})
        /\ \A b \in Blocks : T.blk[b] = IF b \in {h} THEN Free ELSE S.blk[b]
    BY <1>0, <2>1, FreeProcessIs
  <2>3. /\ \A b \in Blocks : T.blk[b].st = "embryo" <=> S.blk[b].st = "embryo" /\ b \notin {h}
        /\ \A b \in Blocks : T.blk[b].st = "zombie" <=> S.blk[b].st = "zombie" /\ b \notin {h}
    BY <2>2, FreeType
  <2>4. Lists(T)
    BY <2>2, <2>3, ThinnedLists
  <2> QED
    BY <1>1, <1>3, <1>5, <2>2, <2>4 DEF Released
<1>6. CASE ~(C.refs = 0 /\ (C.st # "embryo" \/ C.fork))
  <2>1. Touched(S, T, h, C)
    BY <1>0, <1>3, <1>4, <1>6, TouchedIs
  <2>2. Lists(T)
    BY <1>3, <2>1, TouchedLists
  <2>3. Thinned(S.embryos, T.embryos, {})
    BY <1>0, <2>1, ThinnedSelf DEF Touched
  <2>4. T.blk[h] = C /\ T \in Memory /\ \A d \in Blocks : d # h => T.blk[d] = S.blk[d]
    BY <2>1 DEF Touched
  <2> QED
    BY <1>C, <1>1, <1>3, <1>6, <2>2, <2>3, <2>4 DEF Released
<1> QED
  BY <1>5, <1>6

\* A spawn or fork gives its block back.
LEMMA FinishGood ==
    ASSUME Good(spm), NEW p \in Procs, Finish(p), step[p] # "idle", fails' \in 0 .. MaxFails,
           child[p] # None /\ os[child[p]] = "loading" =>
               step[p] = "named" /\ ~spm.blk[held[p]].fork
    PROVE  Good(spm)'
<1> USE SPMAssumption
<1>h. PICK h : h = held[p]
  OBVIOUS
<1>B. PICK B : B = spm.blk[h]
  OBVIOUS
<1>C. PICK C : C = spm'.blk[h]
  OBVIOUS
<1>0. spm \in Memory /\ Processes /\ Lists(spm)
  BY DEF Good, Lists
<1>2. h \in Blocks /\ h # None /\ Uses(p)
  <2>1. h # None /\ Uses(p)
    BY <1>h, <1>0 DEF Processes
  <2> QED
    BY <1>h, <1>0, <2>1, ProcessTypes
<1>3. B \in Block /\ B.refs \in Nat /\ B.parent = p /\ HeldOf(p, B)
  BY <1>h, <1>B, <1>0, <1>2, BlockType DEF Good, Held, HeldOf
<1>4. /\ B.refs > 0 /\ (B.st = "alive" => B.refs > 1)
  <2>1. CountOf(spm, h) /\ \E q \in Procs : held[q] = h
    BY <1>h, <1>2 DEF Good, Counts
  <2> QED
    BY <1>3, <1>B, <2>1 DEF CountOf, Users
<1>5. /\ os' = os /\ parent' = parent /\ self' = self /\ libc' = libc /\ silent' = silent /\ asked' = asked /\ told' = told
      /\ queries' = queries /\ spm' = Release(spm, h)
      /\ step' = [step EXCEPT ![p] = "idle"] /\ held' = [held EXCEPT ![p] = None]
      /\ child' = [child EXCEPT ![p] = None]
  BY <1>h DEF Finish
<1>6. /\ \A q \in Procs : step'[q] = IF q = p THEN "idle" ELSE step[q]
      /\ \A q \in Procs : held'[q] = IF q = p THEN None ELSE held[q]
      /\ \A q \in Procs : child'[q] = IF q = p THEN None ELSE child[q]
  BY <1>0, <1>5, ProcessTypes
<1>7. /\ spm' \in Memory /\ Lists(spm')
      /\ \A d \in Blocks : d # h => spm'.blk[d] = spm.blk[d]
      /\ \/ /\ B.refs = 1 /\ (B.st # "embryo" \/ B.fork)
            /\ C = Free /\ Thinned(spm.embryos, spm'.embryos, {h})
         \/ /\ B.refs # 1 \/ (B.st = "embryo" /\ ~B.fork)
            /\ C = [B EXCEPT !.refs = @ - 1]
            /\ Thinned(spm.embryos, spm'.embryos, {})
  <2>1. spm.blk[h].refs > 0 /\ spm' = Release(spm, h)
    BY <1>4, <1>5, <1>B
  <2>2. Released(spm, h, spm', B, C)
    BY <1>0, <1>2, <1>B, <1>C, <2>1, ReleaseIs
  <2> QED
    BY <2>2 DEF Released
<1>8. /\ C.parent = B.parent \/ C = Free
      /\ \/ B.refs = 1 /\ (B.st # "embryo" \/ B.fork) /\ C = Free
         \/ /\ C.refs = B.refs - 1 /\ C.st = B.st /\ C.pid = B.pid /\ C.parent = B.parent
            /\ C.fork = B.fork /\ C.term = B.term /\ C.notes = B.notes /\ C.for = B.for
            /\ (B.refs # 1 \/ (B.st = "embryo" /\ ~B.fork))
  BY <1>3, <1>7 DEF Block
<1>9. \A q \in Procs : held'[q] # h
  <2>1. \A q \in Procs : q # p => held[q] # h
    BY <1>2, <1>3, <1>B DEF Good, Held, HeldOf
  <2> QED
    BY <1>2, <1>6, <2>1
<1>10. Lists(spm)'
  BY <1>7 DEF Lists
<1>11. Processes'
  <2>1. /\ step' \in [Procs -> {"idle", "embryo", "started", "named"}]
        /\ held' \in [Procs -> Blocks \union {None}]
        /\ child' \in [Procs -> Procs \union {None}]
    BY <1>0, <1>5, ProcessTypes
  <2>2. \A q \in Procs : Uses(q)' = Uses(q)
    BY <1>5 DEF Uses
  <2> QED
    BY <1>0, <1>5, <1>6, <2>1, <2>2 DEF Processes
<1>12. Blks(spm)'
  <2>1. ASSUME NEW d \in Blocks
        PROVE  LET D == spm'.blk[d] IN
               /\ D.st = "free" => D = Free
               /\ D.st = "embryo" => EmbryoOf(spm.blk[d])'
               /\ D.st = "alive" => AliveOf(d, spm.blk[d])'
               /\ D.st = "zombie" => D.refs > 0
    <3>1. CASE d = h
      <4>1. spm'.blk[d] = C /\ spm.blk[d] = B
        BY <1>B, <1>C, <3>1
      <4>2. /\ B.st = "free" => B = Free
            /\ B.st = "embryo" => EmbryoOf(B)
            /\ B.st = "alive" => AliveOf(d, B)
        BY <4>1 DEF Good, Blks
      <4>3. CASE C = Free
        BY <4>1, <4>3, FreeType
      <4>4. CASE C # Free
        <5>1. /\ C.refs = B.refs - 1 /\ C.st = B.st /\ C.pid = B.pid /\ C.parent = B.parent
              /\ C.term = B.term /\ C.notes = B.notes /\ C.for = B.for
              /\ (B.refs # 1 \/ B.st = "embryo")
          BY <1>8, <4>4
        <5>2. B.st = "embryo" => EmbryoOf(spm.blk[d])'
          BY <1>5, <4>1, <4>2, <5>1 DEF EmbryoOf, Uses
        <5>3. B.st = "alive" => AliveOf(d, spm.blk[d])'
          BY <1>5, <4>1, <4>2, <5>1 DEF AliveOf
        <5>4. B.st = "zombie" => C.refs > 0
          BY <1>3, <1>4, <5>1
        <5>5. B.st # "free"
          BY <1>3 DEF HeldOf
        <5> QED
          BY <4>1, <5>1, <5>2, <5>3, <5>4, <5>5
      <4> QED
        BY <4>3, <4>4
    <3>2. CASE d # h
      <4>1. spm'.blk[d] = spm.blk[d]
        BY <1>7, <3>2
      <4> QED
        BY <1>5, <4>1 DEF Good, Blks, EmbryoOf, AliveOf, Uses
    <3> QED
      BY <3>1, <3>2
  <2>2. \A d \in Blocks : \/ spm'.blk[d].st = "free"
                          \/ spm'.blk[d].st = spm.blk[d].st /\ spm'.blk[d].for = spm.blk[d].for
    BY <1>7, <1>8, <1>B, <1>C, FreeType
  <2> QED
    BY <2>1, <2>2 DEF Good, Blks
<1>13. \A q \in Procs : self[q] # None =>
         /\ self[q] \in Blocks
         /\ spm'.blk[self[q]].st = spm.blk[self[q]].st /\ spm'.blk[self[q]].pid = spm.blk[self[q]].pid
         /\ spm'.blk[self[q]].notes = spm.blk[self[q]].notes
  <2> SUFFICES ASSUME NEW q \in Procs, self[q] # None
               PROVE  /\ self[q] \in Blocks
                      /\ spm'.blk[self[q]].st = spm.blk[self[q]].st
                      /\ spm'.blk[self[q]].pid = spm.blk[self[q]].pid
                      /\ spm'.blk[self[q]].notes = spm.blk[self[q]].notes
    OBVIOUS
  <2>1. self[q] \in Blocks /\ spm.blk[self[q]].st = "alive"
    BY <1>0, ProcessTypes DEF Good, Own
  <2>2. CASE self[q] = h
    BY <1>4, <1>8, <1>B, <1>C, <2>1, <2>2
  <2>3. CASE self[q] # h
    BY <1>7, <2>1, <2>3
  <2> QED
    BY <2>2, <2>3
<1>14. Own(spm)' /\ Notes(spm)'
  BY <1>5, <1>13 DEF Good, Own, Notes, Noted
<1>15. Held(spm)'
  <2> SUFFICES ASSUME NEW q \in Procs, held'[q] # None PROVE HeldOf(q, spm.blk[held[q]])'
    BY DEF Held
  <2>1. q # p /\ held'[q] = held[q] /\ held[q] \in Blocks /\ held[q] # h
    BY <1>0, <1>6, <1>9, ProcessTypes
  <2>2. HeldOf(q, spm.blk[held[q]]) /\ spm'.blk[held'[q]] = spm.blk[held[q]]
    BY <1>7, <2>1 DEF Good, Held
  <2> QED
    BY <1>6, <2>1, <2>2 DEF HeldOf
<1>16. First(spm)'
  <2>1. \A q \in Procs : held'[q] = held[q] \/ held'[q] = None
    BY <1>6
  <2>2. First(spm)
    BY DEF Good
  <2>3. CASE C = Free /\ Thinned(spm.embryos, spm'.embryos, {h})
    <3>1. \A d \in Blocks : d \notin {h} => spm'.blk[d].parent = spm.blk[d].parent
      BY <1>7
    <3> QED
      BY <1>0, <1>7, <2>1, <2>2, <2>3, <3>1, FewerFirst
  <2>4. CASE C = [B EXCEPT !.refs = @ - 1] /\ Thinned(spm.embryos, spm'.embryos, {})
    <3>1. C.parent = B.parent
      BY <1>3, <2>4 DEF Block
    <3>2. \A d \in Blocks : d \notin {} => spm'.blk[d].parent = spm.blk[d].parent
      BY <1>7, <1>B, <1>C, <3>1
    <3> QED
      BY <1>0, <1>7, <2>1, <2>2, <2>4, <3>2, FewerFirst
  <2> QED
    BY <1>7, <2>3, <2>4
<1>17. Counts(spm)'
  <2> SUFFICES ASSUME NEW d \in Blocks PROVE CountOf(spm, d)'
    BY DEF Counts
  <2>1. CASE d = h
    <3>1. ~ \E q \in Procs : held'[q] = d
      BY <1>9, <2>1
    <3>2. spm'.blk[d] = C
      BY <1>C, <2>1
    <3>3. Users(spm, d)' = IF C.st = "alive" THEN 1 ELSE 0
      BY <3>1, <3>2 DEF Users
    <3>4. CASE C = Free
      BY <3>2, <3>3, <3>4, FreeType DEF CountOf
    <3>5. CASE C # Free
      BY <1>3, <1>4, <1>8, <3>2, <3>3, <3>5 DEF CountOf
    <3> QED
      BY <3>4, <3>5
  <2>2. CASE d # h
    <3>1. (\E q \in Procs : held'[q] = d) <=> (\E q \in Procs : held[q] = d)
      BY <1>h, <1>6, <2>2
    <3> QED
      BY <1>7, <2>2, <3>1 DEF Good, Counts, CountOf, Users
  <2> QED
    BY <2>1, <2>2
<1>18. Loading(spm)'
  <2> SUFFICES ASSUME NEW x \in Procs, os[x] = "loading" PROVE parent[x] # None /\ Awaited(spm, x)'
    BY <1>5 DEF Loading
  <2>1. parent[x] # None /\ Awaited(spm, x) /\ x # None /\ parent[x] \in Procs
    BY <1>0, ProcessTypes DEF Good, Loading
  <2>2. B.pid = x => x = child[p]
    BY <1>3, <2>1 DEF HeldOf, Good, Processes
  <2>3. ASSUME child[p] = x PROVE B.st = "embryo" => B.pid = x /\ C.st = "embryo" /\ C.pid = x /\ C.parent = p
    BY <1>h, <1>3, <1>8, <1>B, <2>1, <2>3 DEF HeldOf
  <2>4. CASE child[parent[x]] = x /\ spm.blk[held[parent[x]]].st = "embryo"
    <3>1. held[parent[x]] \in Blocks /\ parent[child[parent[x]]] = parent[x]
      BY <1>0, <2>1, <2>4 DEF Processes
    <3>2. CASE parent[x] = p
      BY <1>h, <1>2, <1>5, <1>B, <1>C, <2>1, <2>3, <2>4, <3>2 DEF Awaited
    <3>3. CASE parent[x] # p
      <4>1. child'[parent[x]] = x /\ held'[parent[x]] = held[parent[x]]
        BY <1>6, <2>1, <2>4, <3>3
      <4>2. held[parent[x]] # h
        BY <1>9, <2>1, <4>1
      <4>3. spm'.blk[held'[parent[x]]].st = "embryo"
        BY <1>7, <2>4, <3>1, <4>1, <4>2
      <4> QED
        BY <1>5, <2>1, <4>1, <4>3 DEF Awaited
    <3> QED
      BY <3>2, <3>3
  <2>5. CASE \E d \in Blocks : spm.blk[d].st = "embryo" /\ spm.blk[d].parent = parent[x] /\ spm.blk[d].pid = x
    <3>1. PICK d \in Blocks : spm.blk[d].st = "embryo" /\ spm.blk[d].parent = parent[x] /\ spm.blk[d].pid = x
      BY <2>5
    <3>2. spm'.blk[d].st = "embryo" /\ spm'.blk[d].parent = parent[x] /\ spm'.blk[d].pid = x
      <4>1. CASE d = h
        BY <1>3, <1>B, <1>C, <2>2, <2>3, <3>1, <4>1
      <4>2. CASE d # h
        BY <1>7, <3>1, <4>2
      <4> QED
        BY <4>1, <4>2
    <3> QED
      BY <1>5, <2>1, <3>2 DEF Awaited
  <2>6. CASE os[parent[x]] = "dead"
    BY <1>5, <2>1, <2>6 DEF Awaited
  <2> QED
    BY <2>1, <2>4, <2>5, <2>6 DEF Awaited
<1> QED
  BY <1>10, <1>11, <1>12, <1>14, <1>15, <1>16, <1>17, <1>18 DEF Good

LEMMA ExecFailsGood ==
    ASSUME Good(spm), NEW p \in Procs, ExecFails(p)
    PROVE  Good(spm)'
<1>1. step[p] = "embryo" /\ fails < MaxFails /\ fails' = fails + 1 /\ Finish(p)
  BY DEF ExecFails
<1>2. fails \in 0 .. MaxFails /\ child[p] = None
  BY <1>1 DEF Good, Processes
<1>3. fails' \in 0 .. MaxFails
  BY <1>1, <1>2, SPMAssumption
<1> QED
  BY <1>1, <1>2, <1>3, FinishGood

LEMMA DoneGood ==
    ASSUME Good(spm), NEW p \in Procs, Done(p)
    PROVE  Good(spm)'
<1>1. /\ step[p] = "named" /\ Finish(p) /\ fails' = fails
      /\ spm.blk[held[p]].fork => os[child[p]] # "loading"
  BY DEF Done
<1>2. fails' \in 0 .. MaxFails
  BY <1>1 DEF Good, Processes
<1> QED
  BY <1>1, <1>2, FinishGood

-----------------------------------------------------------------------------
(* The child                                                                *)

LEMMA HeadProperties ==
    ASSUME NEW list \in Seq(Blocks), list # <<>>
    PROVE  Head(list) = list[1] /\ 1 \in DOMAIN list /\ Head(list) \in Blocks /\ Head(list) \in Range(list)
<1>1. Len(list) \in Nat /\ Len(list) # 0
  OBVIOUS
<1>2. 1 \in DOMAIN list /\ Head(list) = list[1]
  BY <1>1
<1> QED
  BY <1>2, RangeType

\* The lists of the embryos of a process and of those with an id.
LEMMA EmbryosOf ==
    ASSUME NEW S, Lists(S), NEW p
    PROVE  /\ Unborn(S, p) \in Seq(Blocks) /\ Named(S, p) \in Seq(Blocks)
           /\ \A b \in Blocks : b \in Range(Unborn(S, p)) <=> S.blk[b].st = "embryo" /\ S.blk[b].parent = p
           /\ \A b \in Blocks : b \in Range(Named(S, p)) <=> S.blk[b].st = "embryo" /\ S.blk[b].pid = p
           /\ \E m : Picks(m, S.embryos, Unborn(S, p))
<1>1. S.embryos \in Seq(Blocks)
  BY BlockType DEF Lists
<1>2. /\ Unborn(S, p) \in Seq(Blocks)
      /\ \A b \in Blocks : b \in Range(Unborn(S, p)) <=> S.blk[b].st = "embryo" /\ S.blk[b].parent = p
      /\ \E m : Picks(m, S.embryos, Unborn(S, p))
  <2> DEFINE bs == {b \in Blocks : S.blk[b].parent = p}
  <2>1. /\ Among(S.embryos, bs) \in Seq(Blocks)
        /\ \A x : x \in Range(Among(S.embryos, bs)) <=> x \in Range(S.embryos) /\ x \in bs
        /\ \E m : Picks(m, S.embryos, Among(S.embryos, bs))
    <3> HIDE DEF bs
    <3> QED
      BY <1>1, AmongProperties
  <2>2. Unborn(S, p) = Among(S.embryos, bs)
    BY DEF Unborn
  <2>3. \A b \in Blocks : b \in bs <=> S.blk[b].parent = p
    OBVIOUS
  <2> HIDE DEF bs
  <2> QED
    BY <2>1, <2>2, <2>3 DEF Lists
<1>3. /\ Named(S, p) \in Seq(Blocks)
      /\ \A b \in Blocks : b \in Range(Named(S, p)) <=> S.blk[b].st = "embryo" /\ S.blk[b].pid = p
  <2> DEFINE bs == {b \in Blocks : S.blk[b].pid = p}
  <2>1. /\ Among(S.embryos, bs) \in Seq(Blocks)
        /\ \A x : x \in Range(Among(S.embryos, bs)) <=> x \in Range(S.embryos) /\ x \in bs
    <3> HIDE DEF bs
    <3> QED
      BY <1>1, AmongProperties
  <2>2. Named(S, p) = Among(S.embryos, bs)
    BY DEF Named
  <2>3. \A b \in Blocks : b \in bs <=> S.blk[b].pid = p
    OBVIOUS
  <2> HIDE DEF bs
  <2> QED
    BY <2>1, <2>2, <2>3 DEF Lists
<1> QED
  BY <1>2, <1>3

\* A child finds its embryo, or its parent has none at all (sharedpm.c:2898-2933).
LEMMA MyEmbryoIs ==
    ASSUME Good(spm), NEW c \in Procs, os[c] = "loading", NEW e, e = MyEmbryo(c)
    PROVE  \/ /\ e # None /\ e \in Blocks /\ spm.blk[e].st = "embryo"
              /\ spm.blk[e].parent = parent[c] /\ spm.blk[e].for = c
           \/ /\ e = None
              /\ \A b \in Blocks : spm.blk[b].st = "embryo" => spm.blk[b].parent # parent[c]
<1> USE SPMAssumption
<1>p. PICK p : p = parent[c]
  OBVIOUS
<1>mine. PICK mine : mine = Unborn(spm, p)
  OBVIOUS
<1>named. PICK named : named = Among(mine, Range(Named(spm, c)))
  OBVIOUS
<1>0. Lists(spm) /\ spm \in Memory /\ Processes /\ p # None /\ p \in Procs /\ Awaited(spm, c) /\ c # None
  <2>1. parent[c] # None /\ Awaited(spm, c) /\ Processes /\ Lists(spm) /\ spm \in Memory
    BY DEF Good, Loading, Lists
  <2> QED
    BY <1>p, <2>1, ProcessTypes
<1>1. e = IF named # <<>> THEN Head(named) ELSE IF mine # <<>> THEN Head(mine) ELSE None
  BY <1>p, <1>mine, <1>named DEF MyEmbryo
<1>2. /\ mine \in Seq(Blocks)
      /\ \A b \in Blocks : b \in Range(mine) <=> spm.blk[b].st = "embryo" /\ spm.blk[b].parent = p
      /\ \E m : Picks(m, spm.embryos, mine)
  BY <1>0, <1>mine, EmbryosOf
<1>3. \A b \in Blocks : b \in Range(Named(spm, c)) <=> spm.blk[b].st = "embryo" /\ spm.blk[b].pid = c
  BY <1>0, EmbryosOf
<1>4. /\ named \in Seq(Blocks)
      /\ \A b \in Blocks : b \in Range(named) <=>
           spm.blk[b].st = "embryo" /\ spm.blk[b].parent = p /\ spm.blk[b].pid = c
  <2>1. /\ named \in Seq(Blocks)
        /\ \A x : x \in Range(named) <=> x \in Range(mine) /\ x \in Range(Named(spm, c))
    BY <1>2, <1>named, AmongProperties
  <2> QED
    BY <1>2, <1>3, <2>1
<1>5. CASE named # <<>>
  <2>1. e \in Blocks /\ e \in Range(named)
    BY <1>1, <1>4, <1>5, HeadProperties
  <2>2. spm.blk[e].st = "embryo" /\ spm.blk[e].parent = p /\ spm.blk[e].pid = c
    BY <1>4, <2>1
  <2>3. spm.blk[e].for = c
    BY <1>0, <2>1, <2>2 DEF Good, Blks, EmbryoOf
  <2> QED
    BY <1>p, <2>1, <2>2, <2>3
<1>6. CASE named = <<>> /\ mine # <<>>
  <2>0. e = Head(mine)
    BY <1>1, <1>6
  <2>1. e = mine[1] /\ 1 \in DOMAIN mine /\ e \in Blocks /\ e \in Range(mine)
    BY <1>2, <1>6, <2>0, HeadProperties
  <2>2. spm.blk[e].st = "embryo" /\ spm.blk[e].parent = p
    BY <1>2, <2>1
  <2>3. ~ \E b \in Blocks : spm.blk[b].st = "embryo" /\ spm.blk[b].parent = p /\ spm.blk[b].pid = c
    <3>1. Range(named) = {}
      BY <1>6 DEF Range
    <3> QED
      BY <1>4, <3>1
  <2>4. os[p] # "dead"
    BY <2>1, <2>2 DEF Good, Blks, EmbryoOf, Uses
  <2>5. child[p] = c /\ spm.blk[held[p]].st = "embryo"
    BY <1>0, <1>p, <2>3, <2>4 DEF Awaited
  <2>h. PICK h : h = held[p]
    OBVIOUS
  <2>6. h \in Blocks /\ h # None
    BY <1>0, <2>5, <2>h DEF Processes
  <2>7. spm.blk[h].parent = p /\ spm.blk[h].for = c
    BY <1>0, <2>5, <2>6, <2>h DEF Good, Held, HeldOf
  <2>8. h \in Range(mine)
    BY <1>2, <2>5, <2>6, <2>7, <2>h
  <2>9. PICK k \in DOMAIN mine : mine[k] = h
    BY <1>2, <2>8, RangeType
  <2>10. PICK m : Picks(m, spm.embryos, mine)
    BY <1>2
  <2>11. spm.embryos \in Seq(Blocks)
    BY <1>0, BlockType
  <2>12. /\ m[1] \in DOMAIN spm.embryos /\ m[k] \in DOMAIN spm.embryos
         /\ spm.embryos[m[1]] = e /\ spm.embryos[m[k]] = h
         /\ (m[k] <= m[1] => k <= 1)
    BY <1>2, <2>1, <2>9, <2>10, <2>11, PicksProperties
  <2>13. m[k] <= m[1]
    BY <1>0, <2>2, <2>6, <2>12, <2>h DEF Good, First, Foremost
  <2>14. k = 1
    <3>1. DOMAIN mine = 1 .. Len(mine)
      BY <1>2
    <3> QED
      BY <2>12, <2>13, <3>1
  <2> QED
    BY <1>0, <1>p, <2>1, <2>2, <2>7, <2>9, <2>14
<1>7. CASE named = <<>> /\ mine = <<>>
  <2>1. Range(mine) = {}
    BY <1>7 DEF Range
  <2> QED
    BY <1>1, <1>2, <1>7, <1>p, <2>1
<1> QED
  BY <1>5, <1>6, <1>7

\* Child c takes block e, which is its embryo or a new block; S is the memory before.
Born(S, c, e, C) ==
    /\ spm' \in Memory
    /\ Thinned(S.embryos, spm'.embryos, {e}) /\ Thinned(S.zombies, spm'.zombies, {e})
    /\ \A d \in Blocks : spm'.blk[d] = IF d = e THEN C ELSE S.blk[d]
    /\ self' = [self EXCEPT ![c] = e] /\ os' = [os EXCEPT ![c] = "run"]
    /\ libc' = libc \union {c} /\ silent' = IF C.term THEN silent ELSE silent \union {c}
    /\ UNCHANGED <<parent, step, held, child, asked, told, fails, queries>>

\* The block is that of the child, and counts it.
Fits(S, c, e, C) ==
    /\ S.blk[e].st # "alive" /\ (S.blk[e].st = "embryo" => S.blk[e].for = c)
    /\ \A d \in Blocks : d # e /\ S.blk[d].st = "embryo" => S.blk[d].for # c
    /\ \A q \in Procs : held[q] = e => child[q] = c /\ step[q] # "embryo" /\ parent[c] = q
    /\ C.st = "alive" /\ C.pid = c /\ C.parent = parent[c] /\ C.for = c /\ C.term \in BOOLEAN /\ C.notes = <<>>
    /\ C.refs \in Nat /\ (IF \E q \in Procs : held[q] = e THEN 2 ELSE 1) <= C.refs

\* A child that registers keeps the invariant.
LEMMA BornGood ==
    ASSUME NEW S, Good(S), NEW c \in Procs, os[c] = "loading", NEW e \in Blocks, NEW C,
           Born(S, c, e, C), Fits(S, c, e, C)
    PROVE  Good(spm)'
<1> USE SPMAssumption
<1>0. S \in Memory /\ Processes /\ Lists(S) /\ e # None /\ c # None
  BY DEF Good, Lists
<1>1. /\ self[c] = None /\ c \notin libc /\ c \notin asked /\ held[c] = None /\ c # Root
      /\ step[c] = "idle"
  BY <1>0 DEF Processes, Uses
<1>2. \A q \in Procs : parent[q] # c
  BY <1>0, <1>1 DEF Processes, Uses
<1>3. \A q \in Procs : self[q] # e
  BY <1>0 DEF Good, Own, Fits
<1>4. /\ spm' \in Memory
      /\ Thinned(S.embryos, spm'.embryos, {e}) /\ Thinned(S.zombies, spm'.zombies, {e})
      /\ \A d \in Blocks : spm'.blk[d] = IF d = e THEN C ELSE S.blk[d]
  BY DEF Born
<1>5. /\ parent' = parent /\ step' = step /\ held' = held /\ child' = child /\ asked' = asked /\ told' = told
      /\ fails' = fails /\ queries' = queries /\ libc' = libc \union {c}
      /\ silent' = (IF C.term THEN silent ELSE silent \union {c})
      /\ self' = [self EXCEPT ![c] = e] /\ os' = [os EXCEPT ![c] = "run"]
  BY DEF Born
<1>6. /\ \A q \in Procs : self'[q] = IF q = c THEN e ELSE self[q]
      /\ \A q \in Procs : os'[q] = IF q = c THEN "run" ELSE os[q]
  BY <1>0, <1>5, ProcessTypes
<1>7. /\ \A q \in Procs : q # c => Uses(q)' = Uses(q)
      /\ Uses(c)' /\ \A q \in Procs : Uses(q) => Uses(q)'
  BY <1>0, <1>6 DEF Uses
<1>s. /\ silent' \subseteq libc' /\ \A q \in Procs : q # c => (q \in silent' <=> q \in silent)
      /\ c \in silent' <=> ~C.term
      /\ c \notin told
  BY <1>0, <1>1, <1>5 DEF Processes
<1>8. Lists(spm)'
  <2>1. /\ \A d \in Blocks : spm'.blk[d].st = "embryo" <=> S.blk[d].st = "embryo" /\ d \notin {e}
        /\ \A d \in Blocks : spm'.blk[d].st = "zombie" <=> S.blk[d].st = "zombie" /\ d \notin {e}
    BY <1>4 DEF Fits
  <2>2. Lists(spm')
    BY <1>0, <1>4, <2>1, ThinnedLists
  <2> QED
    BY <2>2 DEF Lists
<1>9. Processes'
  <2>1. self' \in [Procs -> Blocks \union {None}] /\ os' \in [Procs -> {"none", "loading", "run", "dead"}]
    BY <1>0, <1>5, ProcessTypes
  <2>2. ASSUME NEW q \in Procs
        PROVE  /\ self'[q] # None => os'[q] = "run" /\ q \in libc'
               /\ q \in libc' => os'[q] = "dead" \/ Uses(q)'
               /\ q \in asked => os'[q] = "dead"
               /\ q \in told => q \notin silent'
               /\ held[q] # None => Uses(q)'
               /\ child[q] # None => parent[child[q]] = q /\ os'[child[q]] # "none"
               /\ os'[q] = "none" => parent[q] = None
               /\ parent[q] # None => os'[parent[q]] = "dead" \/ Uses(parent[q])'
    <3>1. child[q] \in Procs \union {None} /\ parent[q] \in Procs \union {None}
      BY <1>0, ProcessTypes
    <3>2. /\ self'[q] # None => os'[q] = "run" /\ q \in libc'
          /\ q \in libc' => os'[q] = "dead" \/ Uses(q)'
          /\ q \in asked => os'[q] = "dead"
          /\ os'[q] = "none" => parent[q] = None
      BY <1>0, <1>1, <1>5, <1>6, <1>7 DEF Processes
    <3>3. (held[q] # None => Uses(q)') /\ (q \in told => q \notin silent')
      BY <1>0, <1>7, <1>s DEF Processes
    <3>4. child[q] # None => parent[child[q]] = q /\ os'[child[q]] # "none"
      BY <1>0, <1>6, <3>1 DEF Processes
    <3>5. parent[q] # None => os'[parent[q]] = "dead" \/ Uses(parent[q])'
      BY <1>0, <1>2, <1>5, <1>6, <1>7, <3>1 DEF Processes
    <3> QED
      BY <3>2, <3>3, <3>4, <3>5
  <2>3. os'[Root] \in {"run", "dead"} /\ libc' \subseteq Procs
    BY <1>0, <1>1, <1>5, <1>6 DEF Processes
  <2> QED
    BY <1>0, <1>5, <1>s, <2>1, <2>2, <2>3 DEF Processes
<1>10. Blks(spm)'
  <2>1. ASSUME NEW d \in Blocks, d # e, S.blk[d].st = "embryo" PROVE EmbryoOf(spm.blk[d])'
    <3>1. /\ EmbryoOf(S.blk[d]) /\ S.blk[d].parent \in Procs \union {None}
          /\ S.blk[d].for \in Procs \union {None}
      BY <1>0, <2>1, BlockType DEF Good, Blks
    <3>2. spm'.blk[d] = S.blk[d] /\ S.blk[d].for # c
      BY <1>4, <2>1 DEF Fits
    <3>3. Uses(spm.blk[d].parent)'
      BY <1>7, <3>1, <3>2 DEF EmbryoOf
    <3> QED
      BY <1>5, <1>6, <3>1, <3>2, <3>3 DEF EmbryoOf
  <2>2. ASSUME NEW d \in Blocks, d # e, S.blk[d].st = "alive" PROVE AliveOf(d, spm.blk[d])'
    <3>1. AliveOf(d, S.blk[d]) /\ spm'.blk[d] = S.blk[d] /\ S.blk[d].pid \in Procs \union {None} /\ d # None
      BY <1>0, <1>4, <2>2, BlockType DEF Good, Blks
    <3>2. S.blk[d].pid # c /\ S.blk[d].pid \in Procs
      BY <1>1, <3>1 DEF AliveOf
    <3> QED
      BY <1>5, <1>6, <1>s, <3>1, <3>2 DEF AliveOf
  <2>3. AliveOf(e, spm.blk[e])'
    <3>1. spm'.blk[e] = C /\ self'[c] = e
      BY <1>4, <1>6
    <3> QED
      BY <1>0, <1>5, <1>s, <3>1 DEF AliveOf, Fits
  <2>4. ASSUME NEW d \in Blocks
        PROVE  LET D == spm'.blk[d] IN
               /\ D.st = "free" => D = Free
               /\ D.st = "embryo" => EmbryoOf(spm.blk[d])'
               /\ D.st = "alive" => AliveOf(d, spm.blk[d])'
               /\ D.st = "zombie" => D.refs > 0
    <3>1. CASE d = e
      <4>1. spm'.blk[d].st = "alive"
        BY <1>4, <3>1 DEF Fits
      <4> QED
        BY <2>3, <3>1, <4>1
    <3>2. CASE d # e
      <4>1. spm'.blk[d] = S.blk[d]
        BY <1>4, <3>2
      <4> QED
        BY <2>1, <2>2, <3>2, <4>1 DEF Good, Blks
    <3> QED
      BY <3>1, <3>2
  <2>5. \A b, d \in Blocks :
         spm'.blk[b].st = "embryo" /\ spm'.blk[d].st = "embryo"
            /\ spm'.blk[b].for # None /\ spm'.blk[b].for = spm'.blk[d].for => b = d
    <3>1. \A d \in Blocks : spm'.blk[d].st = "embryo" => spm'.blk[d] = S.blk[d]
      BY <1>4 DEF Fits
    <3> QED
      BY <3>1 DEF Good, Blks
  <2> QED
    BY <2>4, <2>5 DEF Blks
<1>11. Own(spm)'
  <2> SUFFICES ASSUME NEW q \in Procs, self'[q] # None
               PROVE  spm'.blk[self'[q]].st = "alive" /\ spm'.blk[self'[q]].pid = q
    BY DEF Own
  <2>1. CASE q = c
    BY <1>4, <1>6, <2>1 DEF Fits
  <2>2. CASE q # c
    <3>1. self'[q] = self[q] /\ self[q] \in Blocks /\ self[q] # e
      BY <1>0, <1>3, <1>6, <2>2, ProcessTypes
    <3> QED
      BY <1>4, <3>1 DEF Good, Own
  <2> QED
    BY <2>1, <2>2
<1>12. Held(spm)'
  <2> SUFFICES ASSUME NEW q \in Procs, held[q] # None PROVE HeldOf(q, spm.blk[held[q]])'
    BY <1>5 DEF Held
  <2>1. held[q] \in Blocks /\ HeldOf(q, S.blk[held[q]])
    BY <1>0, ProcessTypes DEF Good, Held
  <2>2. CASE held[q] = e
    <3>1. spm'.blk[held'[q]] = C
      BY <1>4, <1>5, <2>2
    <3> QED
      BY <1>5, <2>2, <3>1 DEF Fits, HeldOf
  <2>3. CASE held[q] # e
    <3>1. spm'.blk[held'[q]] = S.blk[held[q]]
      BY <1>4, <1>5, <2>1, <2>3
    <3> QED
      BY <1>5, <2>1, <3>1 DEF HeldOf
  <2> QED
    BY <2>2, <2>3
<1>13. First(spm)'
  <2> SUFFICES ASSUME NEW q \in Procs, held[q] # None
               PROVE  Foremost(spm', q, held[q])
    BY <1>5 DEF First
  <2>1. Foremost(S, q, held[q])
    BY DEF Good, First
  <2>2. SameParents(S, spm')
    <3>1. \A b \in Range(spm'.embryos) : b \in Blocks /\ b # e
      BY <1>4, BlockType, RangeType DEF Thinned
    <3> QED
      BY <1>4, <3>1 DEF SameParents
  <2> QED
    BY <1>0, <1>4, <2>1, <2>2, ThinnedFirst
<1>14. Counts(spm)'
  <2> SUFFICES ASSUME NEW d \in Blocks PROVE CountOf(spm, d)'
    BY DEF Counts
  <2>1. CASE d = e
    <3>1. spm'.blk[d] = C
      BY <1>4, <2>1
    <3>2. Users(spm, d)' = IF \E q \in Procs : held[q] = e THEN 2 ELSE 1
      BY <1>5, <2>1, <3>1 DEF Users, Fits
    <3> QED
      BY <3>1, <3>2 DEF CountOf, Fits
  <2>2. CASE d # e
    BY <1>4, <1>5, <2>2 DEF Good, Counts, CountOf, Users
  <2> QED
    BY <2>1, <2>2
<1>15. Loading(spm)'
  <2> SUFFICES ASSUME NEW x \in Procs, os'[x] = "loading" PROVE parent[x] # None /\ Awaited(spm, x)'
    BY <1>5 DEF Loading
  <2>1. x # c /\ os[x] = "loading"
    BY <1>6
  <2>2. parent[x] # None /\ Awaited(S, x) /\ parent[x] \in Procs /\ x # None
    BY <1>0, <2>1, ProcessTypes DEF Good, Loading
  <2>3. CASE child[parent[x]] = x /\ S.blk[held[parent[x]]].st = "embryo"
    <3>1. held[parent[x]] \in Blocks
      BY <1>0, <2>2, <2>3 DEF Processes
    <3>2. held[parent[x]] # e
      BY <2>1, <2>2, <2>3 DEF Fits
    <3>3. spm'.blk[held'[parent[x]]].st = "embryo"
      BY <1>4, <1>5, <2>3, <3>1, <3>2
    <3> QED
      BY <1>5, <2>2, <2>3, <3>3 DEF Awaited
  <2>4. CASE \E d \in Blocks : S.blk[d].st = "embryo" /\ S.blk[d].parent = parent[x] /\ S.blk[d].pid = x
    <3>1. PICK d \in Blocks : S.blk[d].st = "embryo" /\ S.blk[d].parent = parent[x] /\ S.blk[d].pid = x
      BY <2>4
    <3>2. S.blk[d].for = x
      BY <2>2, <3>1 DEF Good, Blks, EmbryoOf
    <3>3. d # e
      BY <2>1, <3>1, <3>2 DEF Fits
    <3>4. spm'.blk[d].st = "embryo" /\ spm'.blk[d].parent = parent[x] /\ spm'.blk[d].pid = x
      BY <1>4, <3>1, <3>3
    <3> QED
      BY <1>5, <2>2, <3>4 DEF Awaited
  <2>5. CASE os[parent[x]] = "dead"
    <3>1. os'[parent[x]] = "dead"
      BY <1>6, <2>2, <2>5
    <3> QED
      BY <1>5, <2>2, <3>1 DEF Awaited
  <2> QED
    BY <2>2, <2>3, <2>4, <2>5 DEF Awaited
<1>16. Notes(spm)'
  <2> SUFFICES ASSUME NEW q \in Procs, self'[q] # None PROVE Noted(q, spm.blk[self[q]].notes)'
    BY DEF Notes
  <2>1. CASE q = c
    <3>1. spm'.blk[self'[q]].notes = <<>>
      BY <1>4, <1>6, <2>1 DEF Fits
    <3>2. Range(<<>>) = {} /\ IsInjective(<<>>)
      BY EmptySeq DEF Range, IsInjective
    <3>3. \A x \in libc' : x \in Procs
      BY <1>0, <1>5 DEF Processes
    <3> QED
      BY <1>2, <1>5, <2>1, <3>1, <3>2, <3>3 DEF Noted
  <2>2. CASE q # c
    <3>1. self'[q] = self[q] /\ self[q] \in Blocks /\ self[q] # e /\ self[q] # None
      BY <1>0, <1>3, <1>6, <2>2, ProcessTypes
    <3>2. spm'.blk[self'[q]] = S.blk[self[q]] /\ Noted(q, S.blk[self[q]].notes)
      BY <1>4, <3>1 DEF Good, Notes
    <3>3. \A x \in libc : os'[x] = os[x] /\ x # c
      BY <1>0, <1>1, <1>6 DEF Processes
    <3>4. os'[c] # "dead" /\ libc' \ silent' \subseteq (libc \ silent) \union {c}
          /\ libc \ silent \subseteq libc' \ silent'
      BY <1>1, <1>5, <1>6
    <3> QED
      BY <1>5, <3>2, <3>3, <3>4 DEF Noted
  <2> QED
    BY <2>1, <2>2
<1> QED
  BY <1>8, <1>9, <1>10, <1>11, <1>12, <1>13, <1>14, <1>15, <1>16 DEF Good

LEMMA ThinnedAbsent ==
    ASSUME NEW list \in Seq(Blocks), NEW b, b \notin Range(list)
    PROVE  Thinned(list, list, {b})
<1>1. \E m : Picks(m, list, list)
  BY ThinnedSelf DEF Thinned
<1> QED
  BY <1>1 DEF Thinned

\* spmRegisterSelf with the embryo the child finds (sharedpm.c:2934-3000).
LEMMA TakeEmbryoGood ==
    ASSUME Good(spm), NEW c \in Procs, RegisterSelf(c), MyEmbryo(c) # None
    PROVE  Good(spm)'
<1> USE SPMAssumption
<1>e. PICK e : e = MyEmbryo(c)
  OBVIOUS
<1>B. PICK B : B = spm.blk[e]
  OBVIOUS
<1>C. PICK C : C = [B EXCEPT !.refs = @ + 1, !.pid = c, !.st = "alive"]
  OBVIOUS
<1>0. spm \in Memory /\ Processes /\ Lists(spm) /\ os[c] = "loading" /\ c # None
  BY DEF Good, Lists, RegisterSelf
<1>1. /\ e \in Blocks /\ e # None /\ B.st = "embryo" /\ B.parent = parent[c] /\ B.for = c
      /\ EmbryoOf(B)
  <2>1. e # None /\ e \in Blocks /\ B.st = "embryo" /\ B.parent = parent[c] /\ B.for = c
    BY <1>e, <1>B, <1>0, MyEmbryoIs
  <2> QED
    BY <1>B, <2>1 DEF Good, Blks
<1>2. B \in Block /\ B.refs \in Nat /\ B.refs + 1 \in Nat
  BY <1>0, <1>1, <1>B, BlockType
<1>3. /\ C \in Block /\ C.refs = B.refs + 1 /\ C.pid = c /\ C.st = "alive" /\ C.parent = B.parent
      /\ C.for = B.for /\ C.term \in BOOLEAN /\ C.notes = B.notes
  BY <1>C, <1>2 DEF Block
<1>T. PICK T : T = [spm EXCEPT !.blk = [spm.blk EXCEPT ![e] = C], !.embryos = Without(spm.embryos, {e})]
  OBVIOUS
<1>4. Registered(c) = {[mem |-> T, blk |-> e]}
  <2>1. T = [spm EXCEPT !.blk[e].refs = @ + 1, !.blk[e].pid = c,
                        !.blk[e].st = "alive", !.embryos = Without(@, {e})]
    <3>1. spm.blk \in [Blocks -> Block]
      BY <1>0, BlockType
    <3> QED
      BY <1>T, <1>B, <1>C, <1>0, <1>1, <1>2, <3>1 DEF Memory, Block
  <2> QED
    BY <1>e, <1>1, <2>1 DEF Registered
<1>5. /\ spm' = T /\ self' = [self EXCEPT ![c] = e] /\ os' = [os EXCEPT ![c] = "run"]
      /\ libc' = libc \union {c} /\ silent' = IF T.blk[e].term THEN silent ELSE silent \union {c}
      /\ UNCHANGED <<parent, step, held, child, asked, told, fails, queries>>
  <2>1. PICK r \in Registered(c) :
          /\ spm' = r.mem
          /\ self' = [self EXCEPT ![c] = r.blk]
          /\ os' = [os EXCEPT ![c] = "run"]
          /\ libc' = IF r.blk = None THEN libc ELSE libc \union {c}
          /\ silent' = IF r.blk = None \/ r.mem.blk[r.blk].term THEN silent ELSE silent \union {c}
          /\ UNCHANGED <<parent, step, held, child, asked, told, fails, queries>>
    BY DEF RegisterSelf
  <2>2. r.mem = T /\ r.blk = e
    BY <1>4, <2>1
  <2> QED
    BY <1>1, <2>1, <2>2
<1>6. /\ T \in Memory /\ T.embryos = Without(spm.embryos, {e}) /\ T.zombies = spm.zombies
      /\ T.blk = [spm.blk EXCEPT ![e] = C]
  <2>1. Without(spm.embryos, {e}) \in Seq(Blocks) /\ spm.blk \in [Blocks -> Block]
    BY <1>0, BlockType, WithoutProperties
  <2>2. [spm.blk EXCEPT ![e] = C] \in [Blocks -> Block]
    BY <1>3, <2>1
  <2> QED
    BY <1>0, <1>T, <2>1, <2>2 DEF Memory
<1>7. Born(spm, c, e, C)
  <2>1. Thinned(spm.embryos, T.embryos, {e})
    BY <1>0, <1>6, BlockType, ThinnedIs
  <2>2. Thinned(spm.zombies, T.zombies, {e})
    <3>1. e \notin Range(spm.zombies)
      BY <1>0, <1>1, <1>B DEF Lists
    <3> QED
      BY <1>0, <1>6, <3>1, BlockType, ThinnedAbsent
  <2>3. \A d \in Blocks : T.blk[d] = IF d = e THEN C ELSE spm.blk[d]
    BY <1>0, <1>6, BlockType
  <2> QED
    BY <1>1, <1>5, <1>6, <2>1, <2>2, <2>3 DEF Born
<1>8. Fits(spm, c, e, C)
  <2>1. \A d \in Blocks : d # e /\ spm.blk[d].st = "embryo" => spm.blk[d].for # c
    BY <1>0, <1>1, <1>B DEF Good, Blks
  <2>2. ASSUME NEW q \in Procs, held[q] = e PROVE child[q] = c /\ step[q] # "embryo" /\ parent[c] = q
    <3>1. HeldOf(q, B)
      BY <1>1, <1>B, <2>2 DEF Good, Held
    <3>2. step[q] # "embryo" /\ parent[c] = q
      BY <1>0, <1>1, <3>1 DEF HeldOf
    <3>3. step[q] # "idle" /\ step[q] \in {"idle", "embryo", "started", "named"}
      BY <1>0, <1>1, <2>2 DEF Processes
    <3>4. child[q] # None
      BY <1>0, <3>2, <3>3 DEF Processes
    <3> QED
      BY <1>1, <3>1, <3>2, <3>4 DEF HeldOf
  <2>3. (IF \E q \in Procs : held[q] = e THEN 2 ELSE 1) <= C.refs
    <3>1. CountOf(spm, e)
      BY <1>1 DEF Good, Counts
    <3> QED
      BY <1>1, <1>2, <1>3, <1>B, <3>1 DEF CountOf, Users
  <2> QED
    BY <1>1, <1>2, <1>3, <1>B, <2>1, <2>2, <2>3 DEF Fits, EmbryoOf
<1> QED
  BY <1>0, <1>1, <1>7, <1>8, BornGood

\* A block without an embryo.
NewBlock(c, t) == [Free EXCEPT !.st = "alive", !.refs = 1, !.pid = c, !.parent = parent[c],
                               !.term = t, !.for = c]

\* spmRegisterSelf with a new block, or without one (sharedpm.c:3005-3062).
LEMMA NewBlockGood ==
    ASSUME Good(spm), NEW c \in Procs, RegisterSelf(c), MyEmbryo(c) = None, Spared
    PROVE  Good(spm)'
<1> USE SPMAssumption
<1>0. spm \in Memory /\ Processes /\ Lists(spm) /\ os[c] = "loading" /\ c # None
  BY DEF Good, Lists, RegisterSelf
<1>1. \A b \in Blocks : spm.blk[b].st = "embryo" => spm.blk[b].parent # parent[c]
  BY <1>0, MyEmbryoIs
<1>2. PICK r \in Registered(c) :
        /\ spm' = r.mem
        /\ self' = [self EXCEPT ![c] = r.blk]
        /\ os' = [os EXCEPT ![c] = "run"]
        /\ libc' = IF r.blk = None THEN libc ELSE libc \union {c}
        /\ silent' = IF r.blk = None \/ r.mem.blk[r.blk].term THEN silent ELSE silent \union {c}
        /\ UNCHANGED <<parent, step, held, child, asked, told, fails, queries>>
  BY DEF RegisterSelf
<1>3. PICK new \in AllocProcess(spm) :
        IF new.blk = None THEN r = new
        ELSE \E note \in AllocChildNotify(new.mem) :
               /\ r.mem = [note.mem EXCEPT !.blk[new.blk] = NewBlock(c, note.made),
                                           !.zombies = Without(@, {new.blk})]
               /\ r.blk = new.blk
  <2> DEFINE Made(new, note) == [mem |-> [note.mem EXCEPT !.blk[new.blk] = NewBlock(c, note.made),
                                                          !.zombies = Without(@, {new.blk})],
                                 blk |-> new.blk]
             R(new) == IF new.blk = None THEN {new}
                       ELSE {Made(new, note) : note \in AllocChildNotify(new.mem)}
  <2>1. Registered(c) = UNION {R(new) : new \in AllocProcess(spm)}
    BY DEF Registered, NewBlock
  <2> HIDE DEF R
  <2>2. PICK new \in AllocProcess(spm) : r \in R(new)
    BY <1>2, <2>1
  <2>3. ASSUME new.blk # None
        PROVE  \E note \in AllocChildNotify(new.mem) :
                 /\ r.mem = [note.mem EXCEPT !.blk[new.blk] = NewBlock(c, note.made),
                                             !.zombies = Without(@, {new.blk})]
                 /\ r.blk = new.blk
    <3>1. PICK note \in AllocChildNotify(new.mem) : r = Made(new, note)
      BY <2>2, <2>3 DEF R
    <3>2. /\ r.mem = [note.mem EXCEPT !.blk[new.blk] = NewBlock(c, note.made),
                                      !.zombies = Without(@, {new.blk})]
          /\ r.blk = new.blk
      BY <3>1
    <3> QED
      BY <3>2
  <2>4. new.blk = None => r = new
    BY <2>2 DEF R
  <2> HIDE DEF Made
  <2> QED
    BY <2>3, <2>4
<1>b. PICK b : b = new.blk
  OBVIOUS
<1>4. /\ Good(new.mem) /\ (b # None => b \in Blocks /\ new.mem.blk[b].st \in {"free", "zombie"})
      /\ \A d \in Blocks : \/ new.mem.blk[d] = spm.blk[d]
                           \/ spm.blk[d].st = "embryo" /\ new.mem.blk[d].st = "free"
  BY <1>b, AllocGood
<1>5. CASE b = None
  <2>1. r = new /\ r.blk = None
    BY <1>3, <1>5, <1>b
  <2>2. self[c] = None /\ self \in [Procs -> Blocks \union {None}]
    BY <1>0 DEF Processes
  <2>3. self' = self
    BY <1>2, <2>1, <2>2
  <2>4. Turns(new.mem, c, "run")
    BY <1>0, <1>2, <2>1, <2>2, <2>3 DEF Turns
  <2> QED
    BY <1>4, <2>4, TurnsGood
<1>6. CASE b # None
  <2>a. PICK note \in AllocChildNotify(new.mem) :
               /\ r.mem = [note.mem EXCEPT !.blk[b] = NewBlock(c, note.made),
                                           !.zombies = Without(@, {b})]
               /\ r.blk = b
    BY <1>3, <1>6, <1>b
  <2>S. PICK S : S = note.mem
    OBVIOUS
  <2>b. /\ Good(S) /\ b \in Blocks /\ S.blk[b].st \in {"free", "zombie"} /\ note.made \in BOOLEAN
        /\ \A d \in Blocks : \/ S.blk[d] = spm.blk[d]
                             \/ spm.blk[d].st = "embryo" /\ S.blk[d].st = "free"
    <3>1. /\ Good(S) /\ note.made \in BOOLEAN
          /\ \A d \in Blocks : \/ S.blk[d] = new.mem.blk[d]
                               \/ new.mem.blk[d].st = "embryo" /\ S.blk[d].st = "free"
      BY <1>4, <2>a, <2>S, AllocNoteGood
    <3> QED
      BY <1>4, <1>6, <3>1
  <2>0. /\ S \in Memory /\ Lists(S) /\ b \in Blocks /\ S.blk \in [Blocks -> Block]
        /\ S.embryos \in Seq(Blocks) /\ S.zombies \in Seq(Blocks)
    BY <2>b, BlockType DEF Good, Lists
  <2>C. PICK C : C = NewBlock(c, note.made)
    OBVIOUS
  <2>1. /\ C \in Block /\ C.st = "alive" /\ C.refs = 1 /\ C.pid = c /\ C.parent = parent[c] /\ C.term \in BOOLEAN
        /\ C.for = c /\ C.notes = <<>>
    <3>1. parent[c] \in Procs \union {None}
      BY <1>0, ProcessTypes
    <3> QED
      BY <1>0, <2>b, <2>C, <3>1, EmptySeq DEF NewBlock, Free, Block
  <2>2. /\ r.blk = b
        /\ r.mem = [S EXCEPT !.blk = [S.blk EXCEPT ![b] = C], !.zombies = Without(S.zombies, {b})]
    <3> HIDE DEF NewBlock
    <3> QED
      BY <2>a, <2>S, <2>C, <2>0 DEF Memory
  <2>3. Thinned(S.zombies, Without(S.zombies, {b}), {b}) /\ Without(S.zombies, {b}) \in Seq(Blocks)
    BY <2>0, ThinnedIs DEF Thinned
  <2>4. [S.blk EXCEPT ![b] = C] \in [Blocks -> Block]
    BY <2>0, <2>1
  <2>5. /\ r.mem \in Memory /\ r.mem.embryos = S.embryos /\ r.mem.zombies = Without(S.zombies, {b})
        /\ r.mem.blk = [S.blk EXCEPT ![b] = C]
    BY <2>0, <2>2, <2>3, <2>4 DEF Memory
  <2>6. \A d \in Blocks : r.mem.blk[d] = IF d = b THEN C ELSE S.blk[d]
    BY <2>0, <2>5
  <2>7. (\A q \in Procs : self[q] # b) /\ b \notin Range(S.embryos)
    BY <2>b, TakenUnused
  <2>8. Thinned(S.embryos, S.embryos, {b})
    BY <2>0, <2>7, ThinnedAbsent
  <2>9. Born(S, c, b, C)
    BY <1>2, <1>6, <2>b, <2>2, <2>3, <2>5, <2>6, <2>8 DEF Born
  <2>10. \A q \in Procs : held[q] # b
    <3>1. CASE S.blk[b].st = "free"
      BY <2>b, <2>0, <3>1, TakenUnused
    <3>2. CASE S.blk[b].st = "zombie"
      <4>1. spm.blk[b].st = "zombie" /\ spm'.blk[b].st = "alive"
        BY <1>2, <2>b, <2>0, <2>1, <2>6, <3>2
      <4> QED
        BY <1>6, <4>1 DEF Spared
    <3> QED
      BY <2>b, <3>1, <3>2
  <2>11. \A d \in Blocks : S.blk[d].st = "embryo" => S.blk[d].for # c
    <3> SUFFICES ASSUME NEW d \in Blocks, S.blk[d].st = "embryo", S.blk[d].for = c PROVE FALSE
      OBVIOUS
    <3>1. spm.blk[d] = S.blk[d]
      BY <2>b
    <3>2. spm.blk[d].parent = parent[c]
      BY <1>0, <3>1 DEF Good, Blks, EmbryoOf
    <3> QED
      BY <1>1, <3>1, <3>2
  <2>12. Fits(S, c, b, C)
    BY <2>b, <2>1, <2>10, <2>11 DEF Fits
  <2> QED
    BY <1>0, <2>b, <2>0, <2>9, <2>12, BornGood
<1> QED
  BY <1>5, <1>6

LEMMA RegisterSelfGood ==
    ASSUME Good(spm), NEW c \in Procs, RegisterSelf(c), Spared
    PROVE  Good(spm)'
BY TakeEmbryoGood, NewBlockGood

-----------------------------------------------------------------------------
(* Zombies                                                                  *)

LEMMA ReverseProperties ==
    ASSUME NEW X, NEW list \in Seq(X), NEW r, r = Reverse(list)
    PROVE  /\ r \in Seq(X)
           /\ \A x : x \in Range(r) <=> x \in Range(list)
           /\ IsInjective(list) => IsInjective(r)
<1>n. PICK n : n = Len(list)
  OBVIOUS
<1>0. n \in Nat /\ DOMAIN list = 1 .. n /\ \A i \in 1 .. n : n - i + 1 \in 1 .. n
  BY <1>n
<1>1. r = [i \in 1 .. n |-> list[n - i + 1]]
  BY <1>n DEF Reverse
<1>2. r \in Seq(X) /\ DOMAIN r = 1 .. n
  <2>1. \A i \in 1 .. n : list[n - i + 1] \in X
    BY <1>0
  <2>2. r \in [1 .. n -> X]
    BY <1>1, <2>1
  <2> QED
    BY <1>0, <2>2, SeqDef
<1>3. \A i \in 1 .. n : r[i] = list[n - i + 1]
  BY <1>1
<1>4. \A i \in 1 .. n : list[i] = r[n - i + 1]
  <2>1. \A i \in 1 .. n : n - (n - i + 1) + 1 = i
    BY <1>0
  <2> QED
    BY <1>0, <1>3, <2>1
<1>5. \A x : x \in Range(r) <=> x \in Range(list)
  BY <1>0, <1>2, <1>3, <1>4 DEF Range
<1>6. ASSUME IsInjective(list) PROVE IsInjective(r)
  <2> SUFFICES ASSUME NEW i \in 1 .. n, NEW j \in 1 .. n, r[i] = r[j] PROVE i = j
    BY <1>2 DEF IsInjective
  <2>1. n - i + 1 = n - j + 1
    BY <1>0, <1>3, <1>6 DEF IsInjective
  <2> QED
    BY <1>0, <2>1
<1> QED
  BY <1>2, <1>5, <1>6

\* The elements of a list that is put before another.
Joined(X, s, t, r) ==
    /\ r \in Seq(X)
    /\ \A x : x \in Range(r) <=> x \in Range(s) \/ x \in Range(t)
    /\ IsInjective(s) /\ IsInjective(t) /\ (\A x \in Range(s) : x \notin Range(t)) => IsInjective(r)

LEMMA ConcatRange ==
    ASSUME NEW X, NEW s \in Seq(X), NEW t \in Seq(X), NEW r, r = s \o t
    PROVE  Joined(X, s, t, r)
<1>m. PICK m : m = Len(s)
  OBVIOUS
<1>n. PICK n : n = Len(t)
  OBVIOUS
<1>0. m \in Nat /\ n \in Nat /\ DOMAIN s = 1 .. m /\ DOMAIN t = 1 .. n
  BY <1>m, <1>n
<1>1. r \in Seq(X) /\ Len(r) = m + n /\ \A i \in 1 .. m + n : r[i] = IF i <= m THEN s[i] ELSE t[i - m]
  BY <1>m, <1>n, ConcatProperties
<1>2. DOMAIN r = 1 .. m + n
  BY <1>1
<1>3. \A i \in 1 .. m : i \in 1 .. m + n /\ r[i] = s[i]
  BY <1>0, <1>1
<1>4. \A i \in 1 .. n : i + m \in 1 .. m + n /\ r[i + m] = t[i]
  <2>1. \A i \in 1 .. n : i + m \in 1 .. m + n /\ ~(i + m <= m) /\ (i + m) - m = i
    BY <1>0
  <2> QED
    BY <1>1, <2>1
<1>5. \A i \in 1 .. m + n : (i \in 1 .. m /\ r[i] = s[i]) \/ (i - m \in 1 .. n /\ r[i] = t[i - m])
  BY <1>0, <1>1
<1>6. ASSUME NEW x PROVE x \in Range(r) <=> x \in Range(s) \/ x \in Range(t)
  <2>1. ASSUME x \in Range(r) PROVE x \in Range(s) \/ x \in Range(t)
    <3>1. PICK i \in 1 .. m + n : r[i] = x
      BY <1>2, <2>1 DEF Range
    <3> QED
      BY <1>0, <1>5, <3>1 DEF Range
  <2>2. ASSUME x \in Range(s) PROVE x \in Range(r)
    <3>1. PICK i \in 1 .. m : s[i] = x
      BY <1>0, <2>2 DEF Range
    <3> QED
      BY <1>2, <1>3, <3>1 DEF Range
  <2>3. ASSUME x \in Range(t) PROVE x \in Range(r)
    <3>1. PICK i \in 1 .. n : t[i] = x
      BY <1>0, <2>3 DEF Range
    <3> QED
      BY <1>2, <1>4, <3>1 DEF Range
  <2> QED
    BY <2>1, <2>2, <2>3
<1>7. ASSUME IsInjective(s), IsInjective(t), \A x \in Range(s) : x \notin Range(t)
      PROVE  IsInjective(r)
  <2> SUFFICES ASSUME NEW i \in 1 .. m + n, NEW j \in 1 .. m + n, r[i] = r[j] PROVE i = j
    BY <1>2 DEF IsInjective
  <2>1. (\A k \in 1 .. m : s[k] \in Range(s)) /\ (\A k \in 1 .. n : t[k] \in Range(t))
    BY <1>0 DEF Range
  <2>2. CASE i \in 1 .. m /\ r[i] = s[i] /\ j \in 1 .. m /\ r[j] = s[j]
    BY <1>0, <1>7, <2>2 DEF IsInjective
  <2>3. CASE i - m \in 1 .. n /\ r[i] = t[i - m] /\ j - m \in 1 .. n /\ r[j] = t[j - m]
    <3>1. i - m = j - m
      BY <1>0, <1>7, <2>3 DEF IsInjective
    <3> QED
      BY <1>0, <3>1
  <2>4. CASE i \in 1 .. m /\ r[i] = s[i] /\ j - m \in 1 .. n /\ r[j] = t[j - m]
    BY <1>7, <2>1, <2>4
  <2>5. CASE i - m \in 1 .. n /\ r[i] = t[i - m] /\ j \in 1 .. m /\ r[j] = s[j]
    BY <1>7, <2>1, <2>5
  <2> QED
    BY <1>5, <2>2, <2>3, <2>4, <2>5
<1> QED
  BY <1>1, <1>6, <1>7 DEF Joined

\* What becomes of a block that loses a reference.
Buried(B) ==
    IF B.refs <= 1 THEN Free ELSE [B EXCEPT !.refs = @ - 1, !.st = "zombie", !.notes = <<>>]

\* The blocks bs lose a reference.
Buries(S, T, bs) ==
    /\ Lists(T) /\ Thinned(S.embryos, T.embryos, bs)
    /\ \A b \in Blocks : T.blk[b] = IF b \in bs THEN Buried(S.blk[b]) ELSE S.blk[b]

LEMMA BuriedType ==
    ASSUME NEW B \in Block, B.refs > 1, NEW C, C = Buried(B)
    PROVE  /\ C \in Block /\ C.st = "zombie" /\ C.refs = B.refs - 1 /\ C.pid = B.pid /\ C.parent = B.parent
           /\ C.fork = B.fork /\ C.term = B.term /\ C.notes = <<>> /\ C.for = B.for
<1>1. B.refs \in Nat /\ B.refs - 1 \in Nat /\ ~(B.refs <= 1)
  BY DEF Block
<1>2. C = [B EXCEPT !.refs = @ - 1, !.st = "zombie", !.notes = <<>>] /\ <<>> \in Seq(Procs)
  BY <1>1 DEF Buried
<1> QED
  BY <1>1, <1>2 DEF Block

\* What spmZombieOrFree does (sharedpm.c:2750-2829).
LEMMA ZombieOrFreeIs ==
    ASSUME NEW S, Lists(S), NEW list \in Seq(Blocks), IsInjective(list), NEW T,
           T = ZombieOrFree(S, list)
    PROVE  Buries(S, T, Range(list))
<1>bs. PICK bs : bs = Range(list)
  OBVIOUS
<1>gone. PICK gone : gone = {b \in bs : S.blk[b].refs <= 1}
  OBVIOUS
<1>F. PICK F : F = FreeProcess(S, bs)
  OBVIOUS
<1>blk. PICK blk : blk = [b \in Blocks |->
                     IF b \in bs \ gone
                     THEN [S.blk[b] EXCEPT !.refs = @ - 1, !.st = "zombie", !.notes = <<>>]
                     ELSE F.blk[b]]
  OBVIOUS
<1>w. PICK w : w = Without(list, gone)
  OBVIOUS
<1>v. PICK v : v = Reverse(w)
  OBVIOUS
<1>z. PICK z : z = v \o F.zombies
  OBVIOUS
<1>0. S \in Memory /\ S.embryos \in Seq(Blocks) /\ S.zombies \in Seq(Blocks) /\ bs \in SUBSET Blocks
  BY <1>bs, BlockType, RangeType DEF Lists
<1>1. /\ F \in Memory
      /\ Thinned(S.embryos, F.embryos, bs) /\ Thinned(S.zombies, F.zombies, bs)
      /\ \A b \in Blocks : F.blk[b] = IF b \in bs THEN Free ELSE S.blk[b]
  BY <1>0, <1>F, FreeProcessIs
<1>2. /\ w \in Seq(Blocks) /\ IsInjective(w)
      /\ \A x : x \in Range(w) <=> x \in bs /\ x \notin gone
  <2>1. /\ w \in Seq(Blocks)
        /\ \A x : x \in Range(w) <=> x \in Range(list) /\ x \notin gone
        /\ \E m : Picks(m, list, w)
    BY <1>w, WithoutProperties
  <2>2. IsInjective(w)
    BY <2>1, PicksProperties
  <2> QED
    BY <1>bs, <2>1, <2>2
<1>3. v \in Seq(Blocks) /\ IsInjective(v) /\ \A x : x \in Range(v) <=> x \in bs /\ x \notin gone
  BY <1>2, <1>v, ReverseProperties
<1>4. F.zombies \in Seq(Blocks) /\ F.embryos \in Seq(Blocks) /\ F.blk \in [Blocks -> Block]
  BY <1>1, BlockType
<1>5. IsInjective(F.zombies) /\ IsInjective(F.embryos)
  BY <1>0, <1>1, ThinnedProperties DEF Lists
<1>6. \A b \in Blocks : b \in Range(F.zombies) <=> S.blk[b].st = "zombie" /\ b \notin bs
  BY <1>1 DEF Lists, Thinned
<1>7. /\ z \in Seq(Blocks) /\ IsInjective(z)
      /\ \A x : x \in Range(z) <=> x \in Range(v) \/ x \in Range(F.zombies)
  <2>1. \A x \in Range(v) : x \notin Range(F.zombies)
    BY <1>0, <1>3, <1>6
  <2>2. Joined(Blocks, v, F.zombies, z)
    BY <1>3, <1>4, <1>z, ConcatRange
  <2> QED
    BY <1>3, <1>5, <2>1, <2>2 DEF Joined
<1>8. \A b \in Blocks : blk[b] \in Block /\ blk[b] = IF b \in bs THEN Buried(S.blk[b]) ELSE S.blk[b]
  <2> SUFFICES ASSUME NEW b \in Blocks
               PROVE  blk[b] \in Block /\ blk[b] = IF b \in bs THEN Buried(S.blk[b]) ELSE S.blk[b]
    OBVIOUS
  <2>0. S.blk[b] \in Block /\ S.blk[b].refs \in Nat
    BY <1>0, BlockType
  <2>1. CASE b \in bs \ gone
    <3>1. S.blk[b].refs > 1 /\ ~(S.blk[b].refs <= 1)
      BY <1>gone, <2>0, <2>1
    <3>2. blk[b] = Buried(S.blk[b])
      BY <1>blk, <2>1, <3>1 DEF Buried
    <3> QED
      BY <2>0, <2>1, <3>1, <3>2, BuriedType
  <2>2. CASE b \in bs /\ b \in gone
    <3>1. blk[b] = Free /\ S.blk[b].refs <= 1
      BY <1>blk, <1>gone, <1>1, <2>2
    <3> QED
      BY <2>2, <3>1, FreeType DEF Buried
  <2>3. CASE b \notin bs
    BY <1>blk, <1>1, <2>0, <2>3
  <2> QED
    BY <2>1, <2>2, <2>3
<1>9. /\ T \in Memory /\ T.blk = blk /\ T.embryos = F.embryos /\ T.zombies = z
  <2>1. blk \in [Blocks -> Block]
    BY <1>8, <1>blk
  <2>2. T = [F EXCEPT !.blk = blk, !.zombies = z]
    BY <1>bs, <1>gone, <1>F, <1>blk, <1>w, <1>v, <1>z DEF ZombieOrFree
  <2> QED
    BY <1>1, <1>4, <1>7, <2>1, <2>2 DEF Memory
<1>10. ASSUME NEW b \in Blocks
       PROVE  /\ b \in Range(T.embryos) <=> T.blk[b].st = "embryo"
              /\ b \in Range(T.zombies) <=> T.blk[b].st = "zombie"
  <2>0. S.blk[b] \in Block /\ S.blk[b].refs \in Nat
    BY <1>0, BlockType
  <2>1. b \in Range(T.embryos) <=> S.blk[b].st = "embryo" /\ b \notin bs
    BY <1>1, <1>9 DEF Lists, Thinned
  <2>2. b \in Range(T.zombies) <=> (b \in bs /\ b \notin gone) \/ (S.blk[b].st = "zombie" /\ b \notin bs)
    BY <1>3, <1>6, <1>7, <1>9
  <2>3. b \in gone <=> b \in bs /\ S.blk[b].refs <= 1
    BY <1>gone
  <2>4. T.blk[b] = IF b \in bs THEN Buried(S.blk[b]) ELSE S.blk[b]
    BY <1>8, <1>9
  <2>5. CASE b \in bs /\ S.blk[b].refs <= 1
    BY <2>1, <2>2, <2>3, <2>4, <2>5, FreeType DEF Buried
  <2>6. CASE b \in bs /\ ~(S.blk[b].refs <= 1)
    <3>1. S.blk[b].refs > 1
      BY <2>0, <2>6
    <3>2. T.blk[b].st = "zombie"
      BY <2>0, <2>4, <2>6, <3>1, BuriedType
    <3> QED
      BY <2>1, <2>2, <2>3, <2>6, <3>2
  <2>7. CASE b \notin bs
    BY <2>1, <2>2, <2>4, <2>7
  <2> QED
    BY <2>5, <2>6, <2>7
<1>11. Lists(T)
  BY <1>5, <1>7, <1>9, <1>10 DEF Lists
<1> QED
  BY <1>bs, <1>1, <1>8, <1>9, <1>11 DEF Buries

-----------------------------------------------------------------------------
(* The parent                                                               *)

\* A note that is taken is there no more, and the others stay.
LEMMA RemoveFirstIs ==
    ASSUME NEW X, NEW s \in Seq(X), IsInjective(s), NEW c \in Range(s), NEW r, r = RemoveFirst(s, c)
    PROVE  r \in Seq(X) /\ IsInjective(r) /\ \A x : x \in Range(r) <=> x \in Range(s) /\ x # c
<1>n. PICK n : n = Len(s)
  OBVIOUS
<1>0. n \in Nat /\ DOMAIN s = 1 .. n /\ \A i \in 1 .. n : s[i] \in X
  BY <1>n
<1>1. PICK k \in 1 .. n : s[k] = c
  BY <1>0 DEF Range
<1>2. \A i \in 1 .. n : s[i] = c => i = k
  BY <1>0, <1>1 DEF IsInjective
<1>3. SelectInSeq(s, LAMBDA v : v = c) = k
  <2>1. {i \in 1 .. Len(s) : s[i] = c} = {k}
    BY <1>1, <1>2, <1>n
  <2>2. Min({k}) = k
    BY <1>0, <1>1 DEF Min
  <2> QED
    BY <2>1, <2>2 DEF SelectInSeq
<1>a. PICK a : a = SubSeq(s, 1, k - 1)
  OBVIOUS
<1>b. PICK b : b = SubSeq(s, k + 1, n)
  OBVIOUS
<1>4. r = a \o b
  BY <1>1, <1>3, <1>a, <1>b, <1>n DEF RemoveFirst, RemoveAt
<1>5. a \in Seq(X) /\ DOMAIN a = 1 .. k - 1 /\ \A j \in 1 .. k - 1 : a[j] = s[j]
  <2>1. /\ a \in Seq(X)
        /\ Len(a) = IF 1 <= k - 1 THEN (k - 1) - 1 + 1 ELSE 0
        /\ \A j \in 1 .. (k - 1) - 1 + 1 : a[j] = s[1 + j - 1]
    <3>1. \A j \in 1 .. k - 1 : s[j] \in X
      BY <1>0
    <3> QED
      BY <1>0, <1>a, <3>1, SubSeqProperties
  <2>2. Len(a) = k - 1 /\ (k - 1) - 1 + 1 = k - 1 /\ \A j \in 1 .. k - 1 : 1 + j - 1 = j
    BY <1>0, <2>1
  <2> QED
    BY <2>1, <2>2
<1>6. b \in Seq(X) /\ DOMAIN b = 1 .. n - k /\ \A j \in 1 .. n - k : b[j] = s[k + j]
  <2>1. /\ b \in Seq(X)
        /\ Len(b) = IF k + 1 <= n THEN n - (k + 1) + 1 ELSE 0
        /\ \A j \in 1 .. n - (k + 1) + 1 : b[j] = s[(k + 1) + j - 1]
    <3>1. \A j \in k + 1 .. n : s[j] \in X
      BY <1>0
    <3> QED
      BY <1>0, <1>b, <3>1, SubSeqProperties
  <2>2. Len(b) = n - k /\ n - (k + 1) + 1 = n - k /\ \A j \in 1 .. n - k : (k + 1) + j - 1 = k + j
    BY <1>0, <2>1
  <2> QED
    BY <2>1, <2>2
<1>7. /\ \A j \in 1 .. k - 1 : j \in 1 .. n /\ j # k
      /\ \A j \in 1 .. n - k : k + j \in 1 .. n /\ k + j # k /\ k + j \notin 1 .. k - 1
      /\ \A i \in 1 .. n : i # k => i \in 1 .. k - 1 \/ (i - k \in 1 .. n - k /\ k + (i - k) = i)
  BY <1>0
<1>8. IsInjective(a)
  BY <1>0, <1>5, <1>7 DEF IsInjective
<1>9. IsInjective(b)
  <2> SUFFICES ASSUME NEW i \in 1 .. n - k, NEW j \in 1 .. n - k, b[i] = b[j] PROVE i = j
    BY <1>6 DEF IsInjective
  <2>1. k + i = k + j
    BY <1>0, <1>6, <1>7 DEF IsInjective
  <2> QED
    BY <1>0, <2>1
<1>10. \A x : x \in Range(a) <=> \E j \in 1 .. k - 1 : s[j] = x
  BY <1>5 DEF Range
<1>11. \A x : x \in Range(b) <=> \E j \in 1 .. n - k : s[k + j] = x
  BY <1>6 DEF Range
<1>12. \A x \in Range(a) : x \notin Range(b)
  <2> SUFFICES ASSUME NEW i \in 1 .. k - 1, NEW j \in 1 .. n - k, s[i] = s[k + j] PROVE FALSE
    BY <1>10, <1>11
  <2>1. i = k + j
    BY <1>0, <1>7 DEF IsInjective
  <2> QED
    BY <1>7, <2>1
<1>13. Joined(X, a, b, r)
  BY <1>4, <1>5, <1>6, ConcatRange
<1>14. ASSUME NEW x PROVE x \in Range(a) \/ x \in Range(b) <=> x \in Range(s) /\ x # c
  <2>1. ASSUME x \in Range(a) PROVE x \in Range(s) /\ x # c
    BY <1>0, <1>2, <1>7, <1>10, <2>1 DEF Range
  <2>2. ASSUME x \in Range(b) PROVE x \in Range(s) /\ x # c
    BY <1>0, <1>2, <1>7, <1>11, <2>2 DEF Range
  <2>3. ASSUME x \in Range(s), x # c PROVE x \in Range(a) \/ x \in Range(b)
    <3>1. PICK i \in 1 .. n : s[i] = x
      BY <1>0, <2>3 DEF Range
    <3>2. i # k
      BY <1>1, <2>3, <3>1
    <3> QED
      BY <1>7, <1>10, <1>11, <3>1, <3>2
  <2> QED
    BY <2>1, <2>2, <2>3
<1> QED
  BY <1>8, <1>9, <1>12, <1>13, <1>14 DEF Joined

\* The parent asks for child c, and the memory becomes S.
Asks(S, c, heard) ==
    /\ spm' = S /\ asked' = asked \union {c} /\ told' = heard
    /\ UNCHANGED <<procVars, fails, queries>>

\* A child that never used the library, or had no room for a note, has none.
LEMMA AsksGood ==
    ASSUME NEW S, Good(S), NEW c \in Procs, os[c] = "dead", c \notin libc \ silent, Asks(S, c, told)
    PROVE  Good(spm)'
<1>1. /\ spm' = S /\ asked' = asked \union {c} /\ told' = told /\ fails' = fails /\ queries' = queries
      /\ os' = os /\ parent' = parent /\ self' = self /\ step' = step /\ held' = held /\ child' = child
      /\ libc' = libc /\ silent' = silent
  BY DEF Asks, procVars
<1>2. Lists(spm)'
  BY <1>1 DEF Good, Lists
<1>3. Processes'
  <2>1. \A q \in Procs : Uses(q)' = Uses(q)
    BY <1>1 DEF Uses
  <2>2. \A q \in Procs : q \in asked' => os[q] = "dead"
    BY <1>1 DEF Good, Processes
  <2>3. told' \subseteq asked' /\ asked' \subseteq Procs
    BY <1>1 DEF Good, Processes
  <2> QED
    BY <1>1, <2>1, <2>2, <2>3 DEF Good, Processes, Uses
<1>4. Blks(spm)'
  BY <1>1 DEF Good, Blks, EmbryoOf, AliveOf, Uses
<1>5. Own(spm)' /\ Held(spm)' /\ First(spm)'
  BY <1>1 DEF Good, Own, Held, HeldOf, First, Foremost
<1>6. Counts(spm)'
  BY <1>1 DEF Good, Counts, CountOf, Users
<1>7. Loading(spm)'
  BY <1>1 DEF Good, Loading, Awaited
<1>8. Notes(spm)'
  BY <1>1 DEF Good, Notes, Noted
<1> QED
  BY <1>2, <1>3, <1>4, <1>5, <1>6, <1>7, <1>8 DEF Good

\* The embryo of a dead child that somebody still refers to becomes a zombie.
LEMMA DisposeGood ==
    ASSUME NEW S, Good(S), NEW e \in Blocks, NEW c \in Procs, os[c] = "dead",
           S.blk[e].st = "embryo", S.blk[e].pid = c, S.blk[e].refs # 0, NEW T,
           T = ZombieOrFree([S EXCEPT !.blk[e].refs = @ + 1], <<e>>)
    PROVE  Good(T)
<1> USE SPMAssumption
<1>B. PICK B : B = S.blk[e]
  OBVIOUS
<1>D. PICK D : D = [B EXCEPT !.refs = @ + 1]
  OBVIOUS
<1>C. PICK C : C = T.blk[e]
  OBVIOUS
<1>R. PICK R : R = [S EXCEPT !.blk[e].refs = @ + 1]
  OBVIOUS
<1>0. S \in Memory /\ Lists(S) /\ Processes /\ B \in Block /\ B.refs \in Nat /\ B.refs + 1 \in Nat /\ c # None
  BY <1>B, BlockType DEF Good, Lists
<1>1. EmbryoOf(B) /\ B.for = c /\ B.st = "embryo" /\ B.pid = c /\ B.refs > 0
  <2>1. EmbryoOf(B) /\ B.st = "embryo" /\ B.pid = c
    BY <1>B DEF Good, Blks
  <2>2. B.for = c
    BY <1>0, <2>1 DEF EmbryoOf
  <2> QED
    BY <1>0, <1>B, <2>1, <2>2
<1>2. /\ D \in Block /\ D.refs = B.refs + 1 /\ D.st = B.st /\ D.pid = B.pid /\ D.parent = B.parent
      /\ D.fork = B.fork /\ D.term = B.term /\ D.notes = B.notes /\ D.for = B.for
  BY <1>0, <1>D DEF Block
<1>3. Touched(S, R, e, D)
  <2>1. R = [S EXCEPT !.blk = [S.blk EXCEPT ![e] = D]]
    BY <1>R, <1>B, <1>D
  <2> QED
    BY <1>0, <1>2, <2>1, TouchedIs
<1>4. Lists(R) /\ R.embryos = S.embryos /\ \A d \in Blocks : R.blk[d] = IF d = e THEN D ELSE S.blk[d]
  <2>1. Lists(R)
    BY <1>0, <1>2, <1>3, <1>B, TouchedLists
  <2> QED
    BY <1>3, <2>1 DEF Touched
<1>5. Buries(R, T, {e})
  <2>1. <<e>> \in Seq(Blocks) /\ IsInjective(<<e>>) /\ Range(<<e>>) = {e}
    BY DEF IsInjective, Range
  <2>2. T = ZombieOrFree(R, <<e>>)
    BY <1>R
  <2>3. Buries(R, T, Range(<<e>>))
    BY <1>4, <2>1, <2>2, ZombieOrFreeIs
  <2> QED
    BY <2>1, <2>3
<1>6. Lists(T) /\ T \in Memory /\ Thinned(S.embryos, T.embryos, {e})
  BY <1>4, <1>5 DEF Buries, Lists
<1>7. C = Buried(D) /\ \A d \in Blocks : d # e => T.blk[d] = S.blk[d]
  BY <1>4, <1>5, <1>C DEF Buries
<1>8. /\ C.st = "zombie" /\ C.refs = B.refs /\ C.pid = c /\ C.parent = B.parent
      /\ C.for = c
  <2>1. D.refs > 1 /\ D.refs - 1 = B.refs
    BY <1>0, <1>1, <1>2
  <2> QED
    BY <1>1, <1>2, <1>7, <2>1, BuriedType
<1>9. \A d \in Blocks : d # e \/ T.blk[d] = C
  BY <1>C
<1>10. Blks(T)
  <2>1. ASSUME NEW d \in Blocks
        PROVE  /\ T.blk[d].st = "free" => T.blk[d] = Free
               /\ T.blk[d].st = "embryo" => EmbryoOf(T.blk[d])
               /\ T.blk[d].st = "alive" => AliveOf(d, T.blk[d])
               /\ T.blk[d].st = "zombie" => T.blk[d].refs > 0
    <3>1. CASE d = e
      BY <1>1, <1>8, <1>C, <3>1
    <3>2. CASE d # e
      BY <1>7, <3>2 DEF Good, Blks
    <3> QED
      BY <3>1, <3>2
  <2>2. \A b, d \in Blocks :
         T.blk[b].st = "embryo" /\ T.blk[d].st = "embryo"
            /\ T.blk[b].for # None /\ T.blk[b].for = T.blk[d].for => b = d
    <3>1. \A d \in Blocks : T.blk[d].st = "embryo" => T.blk[d] = S.blk[d]
      BY <1>7, <1>8, <1>9
    <3>2. \A b, d \in Blocks :
            S.blk[b].st = "embryo" /\ S.blk[d].st = "embryo"
               /\ S.blk[b].for # None /\ S.blk[b].for = S.blk[d].for => b = d
      BY DEF Good, Blks
    <3> QED
      BY <3>1, <3>2
  <2> QED
    BY <2>1, <2>2 DEF Blks
<1>11. Own(T) /\ Notes(T)
  <2>1. \A q \in Procs : self[q] # None => self[q] \in Blocks /\ self[q] # e
    BY <1>0, <1>1, <1>B, ProcessTypes DEF Good, Own
  <2>2. \A q \in Procs : self[q] # None => T.blk[self[q]] = S.blk[self[q]]
    BY <1>7, <2>1
  <2> QED
    BY <2>2 DEF Good, Own, Notes
<1>12. \A q \in Procs : held[q] = e => HeldOf(q, B) /\ child[q] = c
  <2> SUFFICES ASSUME NEW q \in Procs, held[q] = e PROVE HeldOf(q, B) /\ child[q] = c
    OBVIOUS
  <2>1. HeldOf(q, B) /\ e # None
    BY <1>B DEF Good, Held
  <2>2. step[q] \notin {"idle", "embryo"} /\ step[q] \in {"idle", "embryo", "started", "named"}
    BY <1>0, <1>1, <2>1 DEF HeldOf, Processes
  <2>3. child[q] # None
    BY <1>0, <2>2 DEF Processes
  <2> QED
    BY <1>1, <2>1, <2>3 DEF HeldOf
<1>13. Held(T)
  <2> SUFFICES ASSUME NEW q \in Procs, held[q] # None PROVE HeldOf(q, T.blk[held[q]])
    BY DEF Held
  <2>1. held[q] \in Blocks /\ HeldOf(q, S.blk[held[q]])
    BY <1>0, ProcessTypes DEF Good, Held
  <2>2. CASE held[q] = e
    BY <1>1, <1>8, <1>12, <1>C, <2>2 DEF HeldOf
  <2>3. CASE held[q] # e
    BY <1>7, <2>1, <2>3
  <2> QED
    BY <2>2, <2>3
<1>14. First(T)
  <2> SUFFICES ASSUME NEW p \in Procs, held[p] # None
               PROVE  Foremost(T, p, held[p])
    BY DEF First
  <2>1. Foremost(S, p, held[p])
    BY DEF Good, First
  <2>2. SameParents(S, T)
    <3>1. \A b \in Range(T.embryos) : b \in Blocks
      BY <1>6, BlockType, RangeType
    <3> QED
      BY <1>7, <1>8, <1>B, <1>C, <3>1 DEF SameParents
  <2> QED
    BY <1>0, <1>6, <2>1, <2>2, ThinnedFirst
<1>15. Counts(T)
  <2> SUFFICES ASSUME NEW d \in Blocks PROVE CountOf(T, d)
    BY DEF Counts
  <2>1. CountOf(S, d)
    BY DEF Good, Counts
  <2>2. CASE d = e
    BY <1>1, <1>8, <1>B, <1>C, <2>1, <2>2 DEF CountOf, Users
  <2>3. CASE d # e
    BY <1>7, <2>1, <2>3 DEF CountOf, Users
  <2> QED
    BY <2>2, <2>3
<1>16. Loading(T)
  <2> SUFFICES ASSUME NEW x \in Procs, os[x] = "loading" PROVE parent[x] # None /\ Awaited(T, x)
    BY DEF Loading
  <2>1. parent[x] # None /\ Awaited(S, x) /\ x # None /\ parent[x] \in Procs /\ x # c
    BY <1>0, ProcessTypes DEF Good, Loading
  <2>2. CASE child[parent[x]] = x /\ S.blk[held[parent[x]]].st = "embryo"
    <3>1. held[parent[x]] \in Blocks /\ held[parent[x]] # e
      BY <1>0, <1>12, <2>1, <2>2 DEF Processes
    <3> QED
      BY <1>7, <2>1, <2>2, <3>1 DEF Awaited
  <2>3. CASE \E d \in Blocks : S.blk[d].st = "embryo" /\ S.blk[d].parent = parent[x] /\ S.blk[d].pid = x
    BY <1>1, <1>7, <1>B, <2>1, <2>3 DEF Awaited
  <2>4. CASE os[parent[x]] = "dead"
    BY <2>1, <2>4 DEF Awaited
  <2> QED
    BY <2>1, <2>2, <2>3, <2>4 DEF Awaited
<1> QED
  BY <1>0, <1>6, <1>10, <1>11, <1>13, <1>14, <1>15, <1>16 DEF Good

\* The parent gets the note (sharedpm.c:227-268).
LEMMA HearsGood ==
    ASSUME Good(spm), NEW p \in Procs, Uses(p), NEW c \in Procs, parent[c] = p, os[c] = "dead",
           c \in Range(spm.blk[self[p]].notes),
           Asks([spm EXCEPT !.blk[self[p]].notes = RemoveFirst(@, c)], c, told \union {c})
    PROVE  Good(spm)'
<1> USE SPMAssumption
<1>P. PICK P : P = self[p]
  OBVIOUS
<1>B. PICK B : B = spm.blk[P]
  OBVIOUS
<1>n. PICK n : n = RemoveFirst(B.notes, c)
  OBVIOUS
<1>C. PICK C : C = [B EXCEPT !.notes = n]
  OBVIOUS
<1>0. spm \in Memory /\ Processes /\ Lists(spm)
  BY DEF Good, Lists
<1>1. P \in Blocks /\ P # None /\ B.st = "alive" /\ B.pid = p /\ Noted(p, B.notes) /\ B \in Block
  <2>1. P # None
    BY <1>P DEF Uses
  <2>2. P \in Blocks
    BY <1>0, <1>P, <2>1, ProcessTypes
  <2> QED
    BY <1>0, <1>P, <1>B, <2>1, <2>2, BlockType DEF Good, Own, Notes
<1>2. B.notes \in Seq(Procs) /\ IsInjective(B.notes) /\ c \in Range(B.notes)
  BY <1>1, <1>B, <1>P DEF Noted, Block
<1>3. n \in Seq(Procs) /\ IsInjective(n) /\ \A x : x \in Range(n) <=> x \in Range(B.notes) /\ x # c
  BY <1>2, <1>n, RemoveFirstIs
<1>4. /\ C \in Block /\ C.st = B.st /\ C.refs = B.refs /\ C.pid = B.pid /\ C.parent = B.parent
      /\ C.fork = B.fork /\ C.term = B.term /\ C.notes = n /\ C.for = B.for
  BY <1>1, <1>3, <1>C DEF Block
<1>5. Touched(spm, spm', P, C)
  <2>1. spm' = [spm EXCEPT !.blk = [spm.blk EXCEPT ![P] = C]]
    BY <1>P, <1>B, <1>n, <1>C DEF Asks
  <2> QED
    BY <1>0, <1>1, <1>4, <2>1, TouchedIs
<1>6. /\ asked' = asked \union {c} /\ told' = told \union {c} /\ fails' = fails /\ queries' = queries
      /\ os' = os /\ parent' = parent /\ self' = self /\ step' = step /\ held' = held /\ child' = child
      /\ libc' = libc /\ silent' = silent
  BY DEF Asks, procVars
<1>7. \A d \in Blocks : spm'.blk[d] = IF d = P THEN C ELSE spm.blk[d]
  BY <1>5 DEF Touched
<1>8. \A d \in Blocks :
        LET D == spm.blk[d]  E == spm'.blk[d]
        IN /\ E.st = D.st /\ E.refs = D.refs /\ E.pid = D.pid /\ E.parent = D.parent /\ E.fork = D.fork
           /\ E.term = D.term /\ E.for = D.for /\ (d # P => E = D)
  BY <1>4, <1>7, <1>B
<1>9. Lists(spm)'
  BY <1>0, <1>1, <1>4, <1>5, <1>B, TouchedLists
<1>10. Processes'
  <2>1. \A q \in Procs : Uses(q)' = Uses(q)
    BY <1>6 DEF Uses
  <2>2. \A q \in Procs : q \in asked' => os[q] = "dead"
    BY <1>0, <1>6 DEF Processes
  <2>3. told' \subseteq asked' /\ asked' \subseteq Procs /\ \A q \in told' : q \notin silent
    BY <1>0, <1>1, <1>2, <1>6 DEF Processes, Noted
  <2> QED
    BY <1>0, <1>6, <2>1, <2>2, <2>3 DEF Processes, Uses
<1>11. Blks(spm)'
  <2>1. ASSUME NEW d \in Blocks
        PROVE  LET D == spm'.blk[d] IN
               /\ D.st = "free" => D = Free
               /\ D.st = "embryo" => EmbryoOf(spm.blk[d])'
               /\ D.st = "alive" => AliveOf(d, spm.blk[d])'
               /\ D.st = "zombie" => D.refs > 0
    <3>1. /\ spm.blk[d].st = "free" => spm.blk[d] = Free
          /\ spm.blk[d].st = "embryo" => EmbryoOf(spm.blk[d])
          /\ spm.blk[d].st = "alive" => AliveOf(d, spm.blk[d])
          /\ spm.blk[d].st = "zombie" => spm.blk[d].refs > 0
      BY DEF Good, Blks
    <3>2. spm.blk[d].st = "embryo" => EmbryoOf(spm.blk[d])' /\ d # P
      BY <1>1, <1>6, <1>8, <1>B, <3>1 DEF EmbryoOf, Uses
    <3>3. spm.blk[d].st = "alive" => AliveOf(d, spm.blk[d])'
      BY <1>6, <1>8, <3>1 DEF AliveOf
    <3>4. spm.blk[d].st = "free" => d # P
      BY <1>1, <1>B
    <3> QED
      BY <1>8, <3>1, <3>2, <3>3, <3>4
  <2> QED
    BY <1>8, <2>1 DEF Good, Blks
<1>12. Own(spm)'
  <2>1. \A q \in Procs : self[q] # None => self[q] \in Blocks
    BY <1>0, ProcessTypes
  <2> QED
    BY <1>6, <1>8, <2>1 DEF Good, Own
<1>13. Held(spm)'
  <2> SUFFICES ASSUME NEW x \in Procs, held[x] # None PROVE HeldOf(x, spm.blk[held[x]])'
    BY <1>6 DEF Held
  <2>1. held[x] \in Blocks /\ HeldOf(x, spm.blk[held[x]])
    BY <1>0, ProcessTypes DEF Good, Held
  <2> QED
    BY <1>6, <1>8, <2>1 DEF HeldOf
<1>14. First(spm)'
  <2>1. spm'.embryos = spm.embryos /\ \A d \in Blocks : spm'.blk[d].parent = spm.blk[d].parent
    BY <1>5, <1>8 DEF Touched
  <2> QED
    BY <1>0, <1>6, <2>1, SameFirst DEF Good
<1>15. Counts(spm)'
  <2> SUFFICES ASSUME NEW d \in Blocks PROVE CountOf(spm, d)'
    BY DEF Counts
  <2>1. CountOf(spm, d)
    BY DEF Good, Counts
  <2> QED
    BY <1>6, <1>8, <2>1 DEF CountOf, Users
<1>16. Loading(spm)'
  <2> SUFFICES ASSUME NEW x \in Procs, os[x] = "loading" PROVE parent[x] # None /\ Awaited(spm, x)'
    BY <1>6 DEF Loading
  <2>1. parent[x] # None /\ Awaited(spm, x) /\ x # None /\ parent[x] \in Procs
    BY <1>0, ProcessTypes DEF Good, Loading
  <2>2. child[parent[x]] = x => held[parent[x]] \in Blocks
    BY <1>0, <2>1 DEF Processes
  <2> QED
    BY <1>6, <1>8, <2>1, <2>2 DEF Awaited
<1>17. Notes(spm)'
  <2> SUFFICES ASSUME NEW q \in Procs, self[q] # None PROVE Noted(q, spm.blk[self[q]].notes)'
    BY <1>6 DEF Notes
  <2>1. self[q] \in Blocks /\ Noted(q, spm.blk[self[q]].notes) /\ spm.blk[self[q]].pid = q
    BY <1>0, ProcessTypes DEF Good, Notes, Own
  <2>2. CASE q = p
    <3>1. spm'.blk[self'[q]].notes = n
      BY <1>1, <1>4, <1>6, <1>7, <1>P, <2>2
    <3> QED
      BY <1>1, <1>3, <1>6, <2>2, <3>1 DEF Noted
  <2>3. CASE q # p
    <3>1. self[q] # P
      BY <1>1, <1>B, <2>1, <2>3
    <3>2. spm'.blk[self'[q]].notes = spm.blk[self[q]].notes
      BY <1>6, <1>7, <2>1, <3>1
    <3> QED
      BY <1>6, <2>1, <2>3, <3>2 DEF Noted
  <2> QED
    BY <2>2, <2>3
<1> QED
  BY <1>9, <1>10, <1>11, <1>12, <1>13, <1>14, <1>15, <1>16, <1>17 DEF Good

\* __libc_spmQueryChildNotification keeps the invariant.
LEMMA ChildNotificationGood ==
    ASSUME Good(spm), NEW p \in Procs, NEW c \in Procs, ChildNotification(p, c)
    PROVE  Good(spm)'
<1> USE SPMAssumption
<1>0. spm \in Memory /\ Processes /\ Lists(spm) /\ c # None
  BY DEF Good, Lists
<1>1. Uses(p) /\ parent[c] = p /\ os[c] = "dead" /\ c \notin asked
  BY DEF ChildNotification
<1>n. PICK notes : notes = spm.blk[self[p]].notes
  OBVIOUS
<1>d. PICK named : named = Named(spm, c)
  OBVIOUS
<1>2. CASE c \in Range(notes)
  <2>1. Asks([spm EXCEPT !.blk[self[p]].notes = RemoveFirst(@, c)], c, told \union {c})
    BY <1>n, <1>2 DEF ChildNotification, Asks
  <2> QED
    BY <1>1, <1>2, <1>n, <2>1, HearsGood
<1>3. CASE c \notin Range(notes)
  <2>1. c \notin libc \ silent
    <3>1. Noted(p, notes)
      BY <1>1, <1>n DEF Good, Notes, Uses
    <3> QED
      BY <1>1, <1>3, <3>1 DEF Noted
  <2>2. CASE named = <<>>
    <3>1. Asks(spm, c, told)
      BY <1>n, <1>d, <1>3, <2>2 DEF ChildNotification, Asks
    <3> QED
      BY <1>1, <2>1, <3>1, AsksGood
  <2>3. CASE named # <<>>
    <3>e. PICK e : e = Head(named)
      OBVIOUS
    <3>1. e \in Blocks /\ spm.blk[e].st = "embryo" /\ spm.blk[e].pid = c
      <4>1. named \in Seq(Blocks)
        BY <1>0, <1>d, EmbryosOf
      <4>2. e \in Blocks /\ e \in Range(named)
        BY <2>3, <3>e, <4>1, HeadProperties
      <4> QED
        BY <1>0, <1>d, <4>2, EmbryosOf
    <3>2. CASE spm.blk[e].refs = 0
      <4>1. Asks(FreeProcess(spm, {e}), c, told)
        BY <1>n, <1>d, <1>3, <2>3, <3>e, <3>2 DEF ChildNotification, Asks
      <4>2. spm.blk[e].for = c
        BY <1>0, <3>1 DEF Good, Blks, EmbryoOf
      <4>3. {e} \in SUBSET Old(spm)
        BY <1>1, <3>1, <3>2, <4>2 DEF Old
      <4>4. Good(FreeProcess(spm, {e}))
        BY <4>3, ReapGood
      <4> QED
        BY <1>1, <2>1, <4>1, <4>4, AsksGood
    <3>3. CASE spm.blk[e].refs # 0
      <4>T. PICK T : T = ZombieOrFree([spm EXCEPT !.blk[e].refs = @ + 1], <<e>>)
        OBVIOUS
      <4>1. Asks(T, c, told)
        BY <1>n, <1>d, <1>3, <2>3, <3>e, <3>3, <4>T DEF ChildNotification, Asks
      <4>2. Good(T)
        BY <1>1, <3>1, <3>3, <4>T, DisposeGood
      <4> QED
        BY <1>1, <2>1, <4>1, <4>2, AsksGood
    <3> QED
      BY <3>2, <3>3
  <2> QED
    BY <2>2, <2>3
<1> QED
  BY <1>2, <1>3

-----------------------------------------------------------------------------
(* The end of a process                                                     *)

\* Blocks are taken off a list twice.
LEMMA ThinnedTwice ==
    ASSUME NEW a \in Seq(Blocks), NEW b \in Seq(Blocks), NEW c, NEW bs, NEW cs,
           Thinned(a, b, bs), Thinned(b, c, cs)
    PROVE  Thinned(a, c, bs \union cs)
<1>1. c \in Seq(Blocks)
  BY DEF Thinned
<1>2. PICK m : Picks(m, a, b)
  BY DEF Thinned
<1>3. PICK n : Picks(n, b, c)
  BY DEF Thinned
<1>4. Len(a) \in Nat /\ Len(b) \in Nat /\ Len(c) \in Nat
  BY <1>1
<1> DEFINE w == [i \in 1 .. Len(c) |-> m[n[i]]]
<1>5. \A i \in 1 .. Len(c) : n[i] \in 1 .. Len(b) /\ m[n[i]] \in 1 .. Len(a) /\ c[i] = a[m[n[i]]]
  BY <1>2, <1>3 DEF Picks
<1>6. \A i, j \in 1 .. Len(c) : i < j => m[n[i]] < m[n[j]]
  BY <1>2, <1>3, <1>5 DEF Picks
<1>7. Picks(w, a, c)
  BY <1>5, <1>6 DEF Picks
<1> QED
  BY <1>1, <1>7 DEF Thinned

\* T is S after SendNote of the block P of process p: to is the block of the parent.
Sent(S, T, P, p, to) ==
    /\ Lists(T) /\ T.embryos = S.embryos
    /\ \A d \in Blocks :
         T.blk[d] = IF d = P THEN [S.blk[d] EXCEPT !.term = FALSE]
                    ELSE IF d \in to THEN [S.blk[d] EXCEPT !.notes = Append(@, p)]
                    ELSE S.blk[d]

\* The termination note (sharedpm.c:2703-2722).
LEMMA SendNoteIs ==
    ASSUME NEW S, Lists(S), NEW P \in Blocks, NEW p \in Procs, NEW to,
           S.blk[P].pid = p, P \notin to,
           to = (IF S.blk[P].term THEN AliveBlock(S, S.blk[P].parent) ELSE {}),
           \A x, y \in to : x = y, NEW T, T = SendNote(S, P)
    PROVE  Sent(S, T, P, p, to)
<1>B. PICK B : B = [S.blk[P] EXCEPT !.term = FALSE]
  OBVIOUS
<1>U. PICK U : U = [S EXCEPT !.blk[P].term = FALSE]
  OBVIOUS
<1>0. S \in Memory /\ S.blk[P] \in Block /\ to \in SUBSET Blocks
  BY BlockType DEF Lists, AliveBlock
<1>1. B \in Block /\ B.st = S.blk[P].st
  BY <1>0, <1>B DEF Block
<1>2. Touched(S, U, P, B)
  <2>1. U = [S EXCEPT !.blk = [S.blk EXCEPT ![P] = B]]
    BY <1>B, <1>U
  <2> QED
    BY <1>0, <1>1, <2>1, TouchedIs
<1>3. Lists(U)
  BY <1>1, <1>2, TouchedLists
<1>4. CASE to = {}
  <2>1. T = U
    BY <1>4, <1>U DEF SendNote
  <2> QED
    BY <1>2, <1>3, <1>4, <1>B, <2>1 DEF Sent, Touched
<1>5. CASE to # {}
  <2>t. PICK t : t = CHOOSE x \in to : TRUE
    OBVIOUS
  <2>1. t \in to /\ t \in Blocks /\ t # P /\ \A x \in to : x = t
    <3>1. t \in to
      BY <1>5, <2>t
    <3> QED
      BY <1>0, <3>1
  <2>2. U.blk[t] = S.blk[t] /\ U.blk[t] \in Block /\ U \in Memory /\ U.embryos = S.embryos
    BY <1>0, <1>2, <2>1, BlockType DEF Touched
  <2>D. PICK D : D = [U.blk[t] EXCEPT !.notes = Append(@, p)]
    OBVIOUS
  <2>3. D \in Block /\ D.st = U.blk[t].st
    <3>1. U.blk[t].notes \in Seq(Procs)
      BY <2>2 DEF Block
    <3>2. Append(U.blk[t].notes, p) \in Seq(Procs)
      BY <3>1
    <3> QED
      BY <2>2, <2>D, <3>2 DEF Block
  <2>4. T = [U EXCEPT !.blk[t].notes = Append(@, p)]
    BY <1>5, <1>U, <2>t DEF SendNote
  <2>5. Touched(U, T, t, D)
    <3>1. T = [U EXCEPT !.blk = [U.blk EXCEPT ![t] = D]]
      BY <2>4, <2>D
    <3> QED
      BY <2>1, <2>2, <2>3, <3>1, TouchedIs
  <2>6. Lists(T)
    BY <1>3, <2>1, <2>3, <2>5, TouchedLists
  <2>7. T.embryos = S.embryos /\ \A d \in Blocks : T.blk[d] = IF d = t THEN D ELSE IF d = P THEN B ELSE S.blk[d]
    BY <1>2, <2>2, <2>5 DEF Touched
  <2>8. D = [S.blk[t] EXCEPT !.notes = Append(@, p)]
    BY <2>2, <2>D
  <2> QED
    BY <1>B, <2>1, <2>6, <2>7, <2>8 DEF Sent
<1> QED
  BY <1>4, <1>5

\* A block that stays when process p ends: D before, E after.
Moved(p, d, D, E) ==
    /\ E.st = D.st /\ E.refs = D.refs /\ E.pid = D.pid /\ E.parent = D.parent
    /\ E.fork = D.fork /\ E.term = D.term /\ E.for = D.for
    /\ E.notes = IF D.st = "alive" /\ D.pid = parent[p] /\ p \notin silent
                 THEN Append(D.notes, p) ELSE D.notes
    /\ D.st = "free" => E = D

\* Process p leaves: P is its block and us are its embryos.
Leaves(p, P, us) ==
    /\ Lists(spm') /\ Thinned(spm.embryos, spm'.embryos, us \union {P})
    /\ \A d \in us : spm'.blk[d] = Buried(spm.blk[d])
    /\ spm'.blk[P] = Buried([spm.blk[P] EXCEPT !.term = FALSE])
    /\ \A d \in Blocks : d \notin us /\ d # P => Moved(p, d, spm.blk[d], spm'.blk[d])

\* The embryos of a process and its own block.
LEMMA LeavingIs ==
    ASSUME Good(spm), NEW p \in Procs, Uses(p), NEW P, P = self[p], NEW us, us = Range(Unborn(spm, p))
    PROVE  /\ P \in Blocks /\ P # None /\ us \in SUBSET Blocks /\ P \notin us /\ P # held[p]
           /\ \A d \in Blocks : d \in us <=> spm.blk[d].st = "embryo" /\ spm.blk[d].parent = p
           /\ spm.blk[P].st = "alive" /\ spm.blk[P].pid = p /\ spm.blk[P].parent = parent[p]
           /\ (spm.blk[P].term <=> p \notin silent) /\ parent[p] # p
           /\ \A d \in Blocks : spm.blk[d].st = "alive" /\ spm.blk[d].pid = p => d = P
<1>0. spm \in Memory /\ Processes /\ Lists(spm)
  BY DEF Good, Lists
<1>1. P # None
  BY DEF Uses
<1>2. P \in Blocks
  BY <1>0, <1>1, ProcessTypes
<1>3. us \in SUBSET Blocks /\ \A d \in Blocks : d \in us <=> spm.blk[d].st = "embryo" /\ spm.blk[d].parent = p
  <2>1. Unborn(spm, p) \in Seq(Blocks)
    BY <1>0, EmbryosOf
  <2>2. us \in SUBSET Blocks
    BY <2>1, RangeType
  <2> QED
    BY <1>0, <2>2, EmbryosOf
<1>4. spm.blk[P].st = "alive" /\ spm.blk[P].pid = p
  BY <1>1 DEF Good, Own
<1>5. AliveOf(P, spm.blk[P])
  BY <1>2, <1>4 DEF Good, Blks
<1>6. spm.blk[P].parent = parent[p] /\ (spm.blk[P].term <=> p \notin silent) /\ parent[p] # p
  BY <1>0, <1>4, <1>5 DEF AliveOf, Processes
<1>7. P # held[p]
  BY <1>1, <1>6 DEF Good, Held, HeldOf
<1>8. \A d \in Blocks : spm.blk[d].st = "alive" /\ spm.blk[d].pid = p => d = P
  BY DEF Good, Blks, AliveOf
<1> QED
  BY <1>1, <1>2, <1>3, <1>4, <1>6, <1>7, <1>8

\* What spmCleanup does (sharedpm.c:2576-2742).
LEMMA CleanupIs ==
    ASSUME Good(spm), NEW p \in Procs, Cleanup(p), NEW P, P = self[p], NEW us, us = Range(Unborn(spm, p))
    PROVE  Leaves(p, P, us)
<1> USE SPMAssumption
<1>0. spm \in Memory /\ Processes /\ Lists(spm) /\ Uses(p)
  BY DEF Good, Lists, Cleanup
<1>1. /\ P \in Blocks /\ P # None /\ us \in SUBSET Blocks /\ P \notin us /\ P # held[p]
      /\ \A d \in Blocks : d \in us <=> spm.blk[d].st = "embryo" /\ spm.blk[d].parent = p
      /\ spm.blk[P].st = "alive" /\ spm.blk[P].pid = p /\ spm.blk[P].parent = parent[p]
      /\ (spm.blk[P].term <=> p \notin silent) /\ parent[p] # p
  BY <1>0, LeavingIs
<1>u. PICK U : U = Unborn(spm, p)
  OBVIOUS
<1>S. PICK S1 : S1 = ZombieOrFree(spm, U)
  OBVIOUS
<1>V. PICK S3 : S3 = SendNote(S1, P)
  OBVIOUS
<1>3. Buries(spm, S1, us)
  <2>1. U \in Seq(Blocks) /\ IsInjective(U)
    <3>1. U \in Seq(Blocks) /\ \E m : Picks(m, spm.embryos, U)
      BY <1>0, <1>u, EmbryosOf
    <3>2. spm.embryos \in Seq(Blocks) /\ IsInjective(spm.embryos)
      BY <1>0, BlockType DEF Lists
    <3> QED
      BY <3>1, <3>2, PicksProperties
  <2>2. Buries(spm, S1, Range(U))
    BY <1>0, <1>S, <2>1, ZombieOrFreeIs
  <2> QED
    BY <1>u, <2>2
<1>4. /\ Lists(S1) /\ S1 \in Memory /\ Thinned(spm.embryos, S1.embryos, us)
      /\ \A d \in Blocks : S1.blk[d] = IF d \in us THEN Buried(spm.blk[d]) ELSE spm.blk[d]
  BY <1>3 DEF Buries, Lists
<1>6. S1.blk[P] = spm.blk[P]
  BY <1>1, <1>4
<1>7. \A d \in Blocks : /\ S1.blk[d].st = "alive" <=> spm.blk[d].st = "alive"
                        /\ d \notin us => S1.blk[d].pid = spm.blk[d].pid
  <2> SUFFICES ASSUME NEW d \in Blocks
               PROVE  /\ S1.blk[d].st = "alive" <=> spm.blk[d].st = "alive"
                      /\ d \notin us => S1.blk[d].pid = spm.blk[d].pid
    OBVIOUS
  <2>0. spm.blk[d] \in Block /\ spm.blk[d].refs \in Nat
    BY <1>0, BlockType
  <2>1. CASE d \in us
    <3>1. S1.blk[d] = Buried(spm.blk[d]) /\ spm.blk[d].st = "embryo"
      BY <1>1, <1>4, <2>1
    <3>2. CASE spm.blk[d].refs <= 1
      BY <2>1, <3>1, <3>2, FreeType DEF Buried
    <3>3. CASE spm.blk[d].refs > 1
      <4>1. S1.blk[d].st = "zombie"
        BY <2>0, <3>1, <3>3, BuriedType
      <4> QED
        BY <2>1, <3>1, <4>1
    <3> QED
      BY <2>0, <3>2, <3>3
  <2>2. CASE d \notin us
    BY <1>4, <2>2
  <2> QED
    BY <2>1, <2>2
<1>to. PICK to : to = IF p \in silent THEN {} ELSE AliveBlock(S1, parent[p])
  OBVIOUS
<1>8. /\ to \in SUBSET Blocks
      /\ \A d \in Blocks :
           d \in to <=> spm.blk[d].st = "alive" /\ spm.blk[d].pid = parent[p] /\ p \notin silent
  <2>1. \A d \in Blocks :
          d \in to <=> S1.blk[d].st = "alive" /\ S1.blk[d].pid = parent[p] /\ p \notin silent
    BY <1>to DEF AliveBlock
  <2> QED
    BY <1>1, <1>7, <1>to, <2>1 DEF AliveBlock
<1>9. P \notin to /\ \A x, y \in to : x = y
  <2>1. P \notin to
    BY <1>1, <1>8
  <2>2. ASSUME NEW x \in to PROVE self[parent[p]] = x
    BY <1>8, <2>2 DEF Good, Blks, AliveOf
  <2> QED
    BY <2>1, <2>2
<1>10. Sent(S1, S3, P, p, to)
  BY <1>1, <1>4, <1>6, <1>9, <1>V, <1>to, SendNoteIs
<1>11. spm' = ZombieOrFree(S3, <<P>>)
  BY <1>u, <1>S, <1>V DEF Cleanup
<1>12. Buries(S3, spm', {P})
  <2>1. <<P>> \in Seq(Blocks) /\ IsInjective(<<P>>) /\ Range(<<P>>) = {P}
    BY <1>1 DEF IsInjective, Range
  <2>2. Lists(S3)
    BY <1>10 DEF Sent
  <2>3. Buries(S3, spm', Range(<<P>>))
    BY <1>11, <2>1, <2>2, ZombieOrFreeIs
  <2> QED
    BY <2>1, <2>3
<1>13. /\ S3.embryos = S1.embryos
       /\ \A d \in Blocks :
            S3.blk[d] = IF d = P THEN [S1.blk[d] EXCEPT !.term = FALSE]
                        ELSE IF d \in to THEN [S1.blk[d] EXCEPT !.notes = Append(@, p)]
                        ELSE S1.blk[d]
  BY <1>10 DEF Sent
<1>14. Lists(spm') /\ Thinned(S1.embryos, spm'.embryos, {P})
       /\ \A d \in Blocks : spm'.blk[d] = IF d = P THEN Buried(S3.blk[d]) ELSE S3.blk[d]
  BY <1>12, <1>13 DEF Buries
<1>15. Thinned(spm.embryos, spm'.embryos, us \union {P})
  <2>1. spm.embryos \in Seq(Blocks) /\ S1.embryos \in Seq(Blocks)
    BY <1>0, <1>4, BlockType
  <2> QED
    BY <1>4, <1>14, <2>1, ThinnedTwice
<1>16. ASSUME NEW d \in us PROVE spm'.blk[d] = Buried(spm.blk[d])
  <2>1. d \in Blocks /\ d # P /\ d \notin to
    BY <1>1, <1>8
  <2> QED
    BY <1>4, <1>13, <1>14, <2>1
<1>17. spm'.blk[P] = Buried([spm.blk[P] EXCEPT !.term = FALSE])
  <2>1. S3.blk[P] = [S1.blk[P] EXCEPT !.term = FALSE]
    BY <1>1, <1>13
  <2>2. S3.blk[P] = [spm.blk[P] EXCEPT !.term = FALSE]
    BY <1>6, <2>1
  <2>3. spm'.blk[P] = Buried(S3.blk[P])
    BY <1>1, <1>14
  <2> QED
    BY <2>2, <2>3, Zenon
<1>18. ASSUME NEW d \in Blocks, d \notin us, d # P PROVE Moved(p, d, spm.blk[d], spm'.blk[d])
  <2>D. PICK D : D = spm.blk[d]
    OBVIOUS
  <2>2. D \in Block /\ D = S1.blk[d] /\ D.notes \in Seq(Procs)
    BY <1>0, <1>4, <1>18, <2>D, BlockType
  <2>3. spm'.blk[d] = IF d \in to THEN [D EXCEPT !.notes = Append(@, p)] ELSE D
    BY <1>13, <1>14, <1>18, <2>2
  <2>E. PICK E : E = spm'.blk[d]
    OBVIOUS
  <2>4. /\ E.st = D.st /\ E.refs = D.refs /\ E.pid = D.pid
        /\ E.parent = D.parent /\ E.fork = D.fork /\ E.term = D.term
        /\ E.for = D.for
        /\ E.notes = IF d \in to THEN Append(D.notes, p) ELSE D.notes
        /\ (d \notin to => E = D)
    BY <2>2, <2>3, <2>E DEF Block
  <2>5. D.st = "free" => d \notin to
    BY <1>8, <2>D
  <2>6. d \in to <=> D.st = "alive" /\ D.pid = parent[p] /\ p \notin silent
    BY <1>8, <2>D
  <2> QED
    BY <2>D, <2>2, <2>4, <2>5, <2>6, <2>E DEF Moved
<1> QED
  BY <1>14, <1>15, <1>16, <1>17, <1>18 DEF Leaves

\* spmCleanup keeps the invariant.
LEMMA CleanupGood ==
    ASSUME Good(spm), NEW p \in Procs, Cleanup(p)
    PROVE  Good(spm)'
<1> USE SPMAssumption
<1>h. PICK h : h = held[p]
  OBVIOUS
<1>P. PICK P : P = self[p]
  OBVIOUS
<1>us. PICK us : us = Range(Unborn(spm, p))
  OBVIOUS
<1>0. spm \in Memory /\ Processes /\ Lists(spm) /\ Uses(p) /\ p # None
  BY DEF Good, Lists, Cleanup
<1>1. /\ P \in Blocks /\ P # None /\ us \in SUBSET Blocks /\ P \notin us /\ P # h
      /\ \A d \in Blocks : d \in us <=> spm.blk[d].st = "embryo" /\ spm.blk[d].parent = p
      /\ spm.blk[P].st = "alive" /\ spm.blk[P].pid = p /\ spm.blk[P].parent = parent[p]
      /\ (spm.blk[P].term <=> p \notin silent) /\ parent[p] # p
      /\ \A d \in Blocks : spm.blk[d].st = "alive" /\ spm.blk[d].pid = p => d = P
  BY <1>0, <1>P, <1>us, <1>h, LeavingIs
<1>2. /\ Lists(spm') /\ spm' \in Memory /\ Thinned(spm.embryos, spm'.embryos, us \union {P})
      /\ \A d \in us : spm'.blk[d] = Buried(spm.blk[d])
      /\ spm'.blk[P] = Buried([spm.blk[P] EXCEPT !.term = FALSE])
      /\ \A d \in Blocks : d \notin us /\ d # P => Moved(p, d, spm.blk[d], spm'.blk[d])
  <2>1. Leaves(p, P, us)
    BY <1>P, <1>us, CleanupIs
  <2> QED
    BY <2>1 DEF Leaves, Lists
<1>3. /\ parent' = parent /\ libc' = libc /\ silent' = silent /\ asked' = asked /\ told' = told
      /\ fails' = fails /\ queries' = queries
      /\ os' = [os EXCEPT ![p] = "dead"] /\ self' = [self EXCEPT ![p] = None]
      /\ step' = [step EXCEPT ![p] = "idle"] /\ held' = [held EXCEPT ![p] = None]
      /\ child' = [child EXCEPT ![p] = None]
  BY DEF Cleanup
<1>4. /\ \A q \in Procs : os'[q] = IF q = p THEN "dead" ELSE os[q]
      /\ \A q \in Procs : self'[q] = IF q = p THEN None ELSE self[q]
      /\ \A q \in Procs : step'[q] = IF q = p THEN "idle" ELSE step[q]
      /\ \A q \in Procs : held'[q] = IF q = p THEN None ELSE held[q]
      /\ \A q \in Procs : child'[q] = IF q = p THEN None ELSE child[q]
  BY <1>0, <1>3, ProcessTypes
<1>5. \A q \in Procs : q # p => Uses(q)' = Uses(q)
  BY <1>4 DEF Uses
<1>6. os[p] = "run" /\ p \in libc /\ p \notin asked
  BY <1>0 DEF Uses, Processes
\* The blocks that go, or become zombies.
<1>7. ASSUME NEW d \in us \union {P}
      PROVE  LET D == spm.blk[d]  E == spm'.blk[d]
             IN /\ D.refs \in Nat
                /\ D.refs <= 1 => E = Free
                /\ D.refs > 1 => /\ E.st = "zombie" /\ E.refs = D.refs - 1 /\ E.pid = D.pid
                                 /\ E.parent = D.parent /\ E.for = D.for
  <2>0. d \in Blocks /\ spm.blk[d] \in Block /\ spm.blk[d].refs \in Nat
    BY <1>0, <1>1, BlockType
  <2>D. PICK D : D = IF d \in us THEN spm.blk[d] ELSE [spm.blk[d] EXCEPT !.term = FALSE]
    OBVIOUS
  <2>1. /\ D \in Block /\ D.refs = spm.blk[d].refs /\ D.pid = spm.blk[d].pid /\ D.parent = spm.blk[d].parent
        /\ D.for = spm.blk[d].for
    BY <2>0, <2>D DEF Block
  <2>2. spm'.blk[d] = Buried(D)
    <3>1. CASE d \in us
      BY <1>2, <2>D, <3>1
    <3>2. CASE d \notin us
      <4>1. d = P /\ D = [spm.blk[P] EXCEPT !.term = FALSE]
        BY <2>D, <3>2
      <4> QED
        BY <1>2, <4>1, Zenon
    <3> QED
      BY <3>1, <3>2
  <2>3. D.refs <= 1 => spm'.blk[d] = Free
    BY <2>2 DEF Buried
  <2>4. D.refs > 1 => /\ spm'.blk[d].st = "zombie" /\ spm'.blk[d].refs = D.refs - 1 /\ spm'.blk[d].pid = D.pid
                      /\ spm'.blk[d].parent = D.parent /\ spm'.blk[d].for = D.for
    BY <2>1, <2>2, BuriedType
  <2> QED
    BY <2>0, <2>1, <2>3, <2>4
<1>8. \A d \in us \union {P} : spm'.blk[d].st \in {"free", "zombie"}
  <2> SUFFICES ASSUME NEW d \in us \union {P} PROVE spm'.blk[d].st \in {"free", "zombie"}
    OBVIOUS
  <2>1. spm.blk[d].refs <= 1 \/ spm.blk[d].refs > 1
    BY <1>7
  <2> QED
    BY <1>7, <2>1, FreeType
<1>9. \A q \in Procs : held[q] \in us => q = p
  BY <1>1 DEF Good, Held, HeldOf
<1>10. Lists(spm)'
  BY <1>2 DEF Lists
<1>11. Processes'
  <2>1. /\ os' \in [Procs -> {"none", "loading", "run", "dead"}]
        /\ self' \in [Procs -> Blocks \union {None}]
        /\ step' \in [Procs -> {"idle", "embryo", "started", "named"}]
        /\ held' \in [Procs -> Blocks \union {None}]
        /\ child' \in [Procs -> Procs \union {None}]
    BY <1>0, <1>3, ProcessTypes
  <2>2. ASSUME NEW q \in Procs
        PROVE  /\ self'[q] # None => os'[q] = "run" /\ q \in libc
               /\ q \in libc => os'[q] = "dead" \/ Uses(q)'
               /\ q \in asked => os'[q] = "dead"
               /\ held'[q] = None <=> step'[q] = "idle"
               /\ child'[q] = None <=> step'[q] \in {"idle", "embryo"}
               /\ held'[q] # None => Uses(q)'
               /\ child'[q] # None => parent[child'[q]] = q /\ os'[child'[q]] # "none"
               /\ os'[q] = "none" => parent[q] = None
               /\ parent[q] # None => os'[parent[q]] = "dead" \/ Uses(parent[q])'
    <3>0. parent[q] \in Procs \union {None} /\ child'[q] \in Procs \union {None} /\ child[q] \in Procs \union {None}
      BY <1>0, <2>1, ProcessTypes
    <3>1. /\ self'[q] # None => os'[q] = "run" /\ q \in libc
          /\ q \in libc => os'[q] = "dead" \/ Uses(q)'
          /\ q \in asked => os'[q] = "dead"
          /\ os'[q] = "none" => parent[q] = None
      BY <1>0, <1>4, <1>5 DEF Processes
    <3>2. /\ held'[q] = None <=> step'[q] = "idle"
          /\ child'[q] = None <=> step'[q] \in {"idle", "embryo"}
          /\ held'[q] # None => Uses(q)'
      BY <1>0, <1>4, <1>5 DEF Processes
    <3>3. child'[q] # None => parent[child'[q]] = q /\ os'[child'[q]] # "none"
      BY <1>0, <1>4, <3>0 DEF Processes
    <3>4. parent[q] # None => os'[parent[q]] = "dead" \/ Uses(parent[q])'
      <4> SUFFICES ASSUME parent[q] # None PROVE os'[parent[q]] = "dead" \/ Uses(parent[q])'
        OBVIOUS
      <4>1. parent[q] \in Procs /\ (os[parent[q]] = "dead" \/ Uses(parent[q]))
        BY <1>0, <3>0 DEF Processes
      <4>2. CASE parent[q] = p
        BY <1>4, <4>2
      <4>3. CASE parent[q] # p
        BY <1>3, <1>4, <1>5, <4>1, <4>3
      <4> QED
        BY <4>2, <4>3
    <3> QED
      BY <3>1, <3>2, <3>3, <3>4
  <2>3. os'[Root] \in {"run", "dead"}
    BY <1>0, <1>4 DEF Processes
  <2> QED
    BY <1>0, <1>3, <2>1, <2>2, <2>3 DEF Processes
<1>12. Blks(spm)'
  <2>1. ASSUME NEW d \in Blocks, d \notin us, d # P
        PROVE  LET D == spm'.blk[d] IN
               /\ D.st = "free" => D = Free
               /\ D.st = "embryo" => EmbryoOf(spm.blk[d])'
               /\ D.st = "alive" => AliveOf(d, spm.blk[d])'
               /\ D.st = "zombie" => D.refs > 0
    <3>1. Moved(p, d, spm.blk[d], spm'.blk[d])
      BY <1>2, <2>1
    <3>2. /\ spm.blk[d].st = "free" => spm.blk[d] = Free
          /\ spm.blk[d].st = "embryo" => EmbryoOf(spm.blk[d])
          /\ spm.blk[d].st = "alive" => AliveOf(d, spm.blk[d])
          /\ spm.blk[d].st = "zombie" => spm.blk[d].refs > 0
      BY DEF Good, Blks
    <3>3. /\ spm.blk[d].parent \in Procs \union {None} /\ spm.blk[d].for \in Procs \union {None}
          /\ spm.blk[d].pid \in Procs \union {None}
      BY <1>0, BlockType
    <3>4. ASSUME spm.blk[d].st = "embryo" PROVE EmbryoOf(spm.blk[d])'
      <4>1. EmbryoOf(spm.blk[d]) /\ spm.blk[d].parent # p
        BY <1>1, <2>1, <3>2, <3>4
      <4>2. /\ spm'.blk[d].parent = spm.blk[d].parent /\ spm'.blk[d].term = spm.blk[d].term
            /\ spm'.blk[d].notes = spm.blk[d].notes /\ spm'.blk[d].pid = spm.blk[d].pid
            /\ spm'.blk[d].for = spm.blk[d].for
        BY <3>1, <3>4 DEF Moved
      <4>3. Uses(spm.blk[d].parent)'
        BY <1>5, <3>3, <4>1, <4>2 DEF EmbryoOf
      <4> QED
        BY <1>3, <1>4, <3>3, <4>1, <4>2, <4>3 DEF EmbryoOf
    <3>5. ASSUME spm.blk[d].st = "alive" PROVE AliveOf(d, spm.blk[d])'
      <4>1. AliveOf(d, spm.blk[d]) /\ spm.blk[d].pid # p
        BY <1>1, <2>1, <3>2, <3>5
      <4>2. /\ spm'.blk[d].parent = spm.blk[d].parent /\ spm'.blk[d].term = spm.blk[d].term
            /\ spm'.blk[d].pid = spm.blk[d].pid /\ spm'.blk[d].for = spm.blk[d].for
        BY <3>1 DEF Moved
      <4> QED
        BY <1>3, <1>4, <3>3, <4>1, <4>2 DEF AliveOf
    <3> QED
      BY <3>1, <3>2, <3>4, <3>5 DEF Moved
  <2>2. ASSUME NEW d \in us \union {P}
        PROVE  LET D == spm'.blk[d] IN
               /\ D.st = "free" => D = Free
               /\ D.st # "embryo" /\ D.st # "alive"
               /\ D.st = "zombie" => D.refs > 0
    <3>0. spm.blk[d].refs \in Nat
      BY <1>7
    <3>1. CASE spm.blk[d].refs <= 1
      BY <1>7, <3>1, FreeType
    <3>2. CASE spm.blk[d].refs > 1
      BY <1>7, <3>0, <3>2
    <3> QED
      BY <3>0, <3>1, <3>2
  <2>3. ASSUME NEW d \in Blocks
        PROVE  LET D == spm'.blk[d] IN
               /\ D.st = "free" => D = Free
               /\ D.st = "embryo" => EmbryoOf(spm.blk[d])'
               /\ D.st = "alive" => AliveOf(d, spm.blk[d])'
               /\ D.st = "zombie" => D.refs > 0
    <3>1. CASE d \in us \union {P}
      BY <2>2, <3>1
    <3>2. CASE d \notin us \union {P}
      BY <2>1, <3>2
    <3> QED
      BY <3>1, <3>2
  <2>4. \A d \in Blocks : spm'.blk[d].st = "embryo" =>
          spm.blk[d].st = "embryo" /\ spm'.blk[d].for = spm.blk[d].for
    BY <1>2, <2>2 DEF Moved
  <2> QED
    BY <2>3, <2>4 DEF Good, Blks
<1>13. \A q \in Procs : q # p /\ self[q] # None =>
         self[q] \in Blocks /\ self[q] \notin us /\ self[q] # P /\ spm.blk[self[q]].pid = q
         /\ spm.blk[self[q]].st = "alive"
  BY <1>0, <1>1, ProcessTypes DEF Good, Own
<1>14. Own(spm)'
  <2> SUFFICES ASSUME NEW q \in Procs, self'[q] # None
               PROVE  spm'.blk[self'[q]].st = "alive" /\ spm'.blk[self'[q]].pid = q
    BY DEF Own
  <2>1. q # p /\ self'[q] = self[q]
    BY <1>4
  <2>2. Moved(p, self[q], spm.blk[self[q]], spm'.blk[self[q]])
    BY <1>2, <1>13, <2>1
  <2> QED
    BY <1>13, <2>1, <2>2 DEF Moved
<1>15. Held(spm)'
  <2> SUFFICES ASSUME NEW q \in Procs, held'[q] # None PROVE HeldOf(q, spm.blk[held[q]])'
    BY DEF Held
  <2>1. q # p /\ held'[q] = held[q] /\ step'[q] = step[q] /\ child'[q] = child[q]
    BY <1>4
  <2>2. held[q] \in Blocks /\ HeldOf(q, spm.blk[held[q]]) /\ held[q] \notin us
    BY <1>0, <1>9, <2>1, ProcessTypes DEF Good, Held
  <2>3. CASE held[q] # P
    <3>1. Moved(p, held[q], spm.blk[held[q]], spm'.blk[held[q]])
      BY <1>2, <2>2, <2>3
    <3> QED
      BY <2>1, <2>2, <3>1 DEF HeldOf, Moved
  <2>4. CASE held[q] = P
    <3>1. CountOf(spm, P) /\ Users(spm, P) = 2
      BY <1>1, <2>4 DEF Good, Counts, Users
    <3>2. spm.blk[P].refs > 1
      BY <1>7, <3>1 DEF CountOf
    <3>3. /\ spm'.blk[P].st = "zombie" /\ spm'.blk[P].pid = spm.blk[P].pid
          /\ spm'.blk[P].parent = spm.blk[P].parent /\ spm'.blk[P].for = spm.blk[P].for
      BY <1>7, <3>2
    <3> QED
      BY <1>1, <2>1, <2>2, <2>4, <3>3 DEF HeldOf
  <2> QED
    BY <2>3, <2>4
<1>16. First(spm)'
  <2>1. \A d \in Blocks : d \notin us \union {P} => spm'.blk[d].parent = spm.blk[d].parent
    BY <1>2 DEF Moved
  <2>2. \A q \in Procs : held'[q] = held[q] \/ held'[q] = None
    BY <1>4
  <2> QED
    BY <1>0, <1>2, <2>1, <2>2, FewerFirst DEF Good
<1>17. Counts(spm)'
  <2> SUFFICES ASSUME NEW d \in Blocks PROVE CountOf(spm, d)'
    BY DEF Counts
  <2>0. CountOf(spm, d) /\ spm.blk[d].refs \in Nat
    BY <1>0, BlockType DEF Good, Counts
  <2>1. CASE d \in us
    <3>1. spm'.blk[d].st # "alive" /\ ~ \E q \in Procs : held'[q] = d
      BY <1>1, <1>4, <1>8, <1>9, <2>1
    <3>2. Users(spm, d)' = 0
      BY <3>1 DEF Users
    <3>4. CASE spm.blk[d].refs <= 1
      BY <1>7, <2>1, <3>2, <3>4, FreeType DEF CountOf
    <3>5. CASE spm.blk[d].refs > 1
      <4>1. spm'.blk[d].refs = spm.blk[d].refs - 1
        BY <1>7, <2>1, <3>5
      <4> QED
        BY <2>0, <3>2, <3>5, <4>1 DEF CountOf
    <3> QED
      BY <2>0, <3>4, <3>5
  <2>2. CASE d = P
    <3>1. spm'.blk[d].st # "alive" /\ ((\E q \in Procs : held'[q] = d) <=> (\E q \in Procs : held[q] = d))
      BY <1>1, <1>4, <1>8, <1>h, <2>2
    <3>2. Users(spm, d) = 1 + Users(spm, d)' /\ Users(spm, d)' \in {0, 1}
      BY <1>1, <2>2, <3>1 DEF Users
    <3>3. CASE spm.blk[d].refs <= 1
      <4>1. Users(spm, d)' = 0
        BY <2>0, <3>2, <3>3 DEF CountOf
      <4> QED
        BY <1>7, <2>2, <3>3, <4>1, FreeType DEF CountOf
    <3>4. CASE spm.blk[d].refs > 1
      <4>1. spm'.blk[d].refs = spm.blk[d].refs - 1
        BY <1>7, <2>2, <3>4
      <4> QED
        BY <2>0, <3>2, <4>1 DEF CountOf
    <3> QED
      BY <2>0, <3>3, <3>4
  <2>3. CASE d \notin us /\ d # P
    <3>1. Moved(p, d, spm.blk[d], spm'.blk[d])
      BY <1>2, <2>3
    <3>2. CASE d = h
      <4>1. \A q \in Procs : held'[q] # d
        <5>1. spm.blk[h].parent = p
          BY <1>h, <3>2 DEF Good, Held, HeldOf
        <5>2. \A q \in Procs : held[q] = h => q = p
          BY <3>2, <5>1 DEF Good, Held, HeldOf
        <5> QED
          BY <1>4, <3>2, <5>2
      <4>2. Users(spm, d) = 1 + Users(spm, d)' /\ Users(spm, d)' \in {0, 1}
        BY <1>h, <3>1, <3>2, <4>1 DEF Users, Moved
      <4>3. spm'.blk[d].refs = spm.blk[d].refs
        BY <1>h, <3>1, <3>2 DEF Moved
      <4> QED
        BY <2>0, <4>2, <4>3 DEF CountOf
    <3>3. CASE d # h
      <4>1. (\E q \in Procs : held'[q] = d) <=> (\E q \in Procs : held[q] = d)
        BY <1>4, <1>h, <3>3
      <4>2. Users(spm, d)' = Users(spm, d)
        BY <3>1, <4>1 DEF Users, Moved
      <4>3. spm'.blk[d].refs = spm.blk[d].refs
        BY <1>h, <3>1, <3>3 DEF Moved
      <4> QED
        BY <2>0, <4>2, <4>3 DEF CountOf
    <3> QED
      BY <3>2, <3>3
  <2> QED
    BY <2>1, <2>2, <2>3
<1>18. Loading(spm)'
  <2> SUFFICES ASSUME NEW x \in Procs, os'[x] = "loading" PROVE parent[x] # None /\ Awaited(spm, x)'
    BY <1>3 DEF Loading
  <2>1. x # p /\ os[x] = "loading"
    BY <1>4
  <2>2. parent[x] # None /\ Awaited(spm, x) /\ x # None /\ parent[x] \in Procs
    BY <1>0, <2>1, ProcessTypes DEF Good, Loading
  <2>3. CASE parent[x] = p \/ os[parent[x]] = "dead"
    <3>1. os'[parent[x]] = "dead"
      BY <1>4, <2>2, <2>3
    <3> QED
      BY <1>3, <2>2, <3>1 DEF Awaited
  <2>4. CASE parent[x] # p /\ child[parent[x]] = x /\ spm.blk[held[parent[x]]].st = "embryo"
    <3>1. held[parent[x]] \in Blocks /\ held[parent[x]] # P
      BY <1>0, <1>1, <2>2, <2>4 DEF Processes
    <3>2. held[parent[x]] \notin us
      BY <1>9, <2>2, <2>4
    <3>3. Moved(p, held[parent[x]], spm.blk[held[parent[x]]], spm'.blk[held[parent[x]]])
      BY <1>2, <3>1, <3>2
    <3>4. spm'.blk[held'[parent[x]]].st = "embryo" /\ child'[parent[x]] = x
      BY <1>4, <2>2, <2>4, <3>3 DEF Moved
    <3> QED
      BY <1>3, <2>2, <3>4 DEF Awaited
  <2>5. CASE /\ parent[x] # p
             /\ \E d \in Blocks : spm.blk[d].st = "embryo" /\ spm.blk[d].parent = parent[x] /\ spm.blk[d].pid = x
    <3>1. PICK d \in Blocks : spm.blk[d].st = "embryo" /\ spm.blk[d].parent = parent[x] /\ spm.blk[d].pid = x
      BY <2>5
    <3>2. Moved(p, d, spm.blk[d], spm'.blk[d])
      BY <1>1, <1>2, <2>5, <3>1
    <3>3. spm'.blk[d].st = "embryo" /\ spm'.blk[d].parent = parent[x] /\ spm'.blk[d].pid = x
      BY <3>1, <3>2 DEF Moved
    <3> QED
      BY <1>3, <2>2, <3>3 DEF Awaited
  <2> QED
    BY <2>2, <2>3, <2>4, <2>5 DEF Awaited
<1>19. Notes(spm)'
  <2> SUFFICES ASSUME NEW q \in Procs, self'[q] # None PROVE Noted(q, spm.blk[self[q]].notes)'
    BY DEF Notes
  <2>1. q # p /\ self'[q] = self[q] /\ self[q] # None
    BY <1>4
  <2>n. PICK n : n = spm.blk[self[q]].notes
    OBVIOUS
  <2>2. n \in Seq(Procs) /\ Noted(q, n)
    BY <1>0, <1>13, <2>1, <2>n, BlockType DEF Good, Notes
  <2>3. spm'.blk[self'[q]].notes = IF q = parent[p] /\ p \notin silent THEN Append(n, p) ELSE n
    <3>1. Moved(p, self[q], spm.blk[self[q]], spm'.blk[self[q]])
      BY <1>2, <1>13, <2>1
    <3> QED
      BY <1>13, <2>1, <2>n, <3>1 DEF Moved
  <2>4. \A x \in libc : os'[x] = IF x = p THEN "dead" ELSE os[x]
    BY <1>0, <1>4 DEF Processes
  <2>5. CASE q # parent[p] \/ p \in silent
    <3>1. spm'.blk[self'[q]].notes = n
      BY <2>3, <2>5
    <3> QED
      BY <1>3, <1>6, <2>2, <2>4, <2>5, <3>1 DEF Noted
  <2>6. CASE q = parent[p] /\ p \notin silent
    <3>m. PICK m : m = Append(n, p)
      OBVIOUS
    <3>1. p \notin Range(n)
      BY <1>6, <2>2 DEF Noted
    <3>2. IsInjective(m) /\ \A x : x \in Range(m) <=> x \in Range(n) \/ x = p
      <4>1. IsInjective(n)
        BY <2>2 DEF Noted
      <4>2. m = n \o <<p>>
        BY <2>2, <3>m
      <4>3. <<p>> \in Seq(Procs) /\ IsInjective(<<p>>) /\ Range(<<p>>) = {p}
        BY DEF IsInjective, Range
      <4>4. Joined(Procs, n, <<p>>, m)
        BY <2>2, <4>2, <4>3, ConcatRange
      <4> QED
        BY <3>1, <4>1, <4>3, <4>4 DEF Joined
    <3>3. spm'.blk[self'[q]].notes = m
      BY <2>3, <2>6, <3>m
    <3> QED
      BY <1>3, <1>6, <2>2, <2>4, <2>6, <3>2, <3>3 DEF Noted
  <2> QED
    BY <2>5, <2>6
<1> QED
  BY <1>10, <1>11, <1>12, <1>14, <1>15, <1>16, <1>17, <1>18, <1>19 DEF Good

-----------------------------------------------------------------------------
(* The theorems                                                             *)

\* Every step keeps the invariant.
LEMMA NextGood ==
    ASSUME Good(spm), NEW p \in Procs, Step(p), Spared
    PROVE  Good(spm)'
<1>1. CASE CreateEmbryo(p)
  BY <1>1, CreateEmbryoGood
<1>2. CASE SetForkHandle(p)
  BY <1>2, SetForkHandleGood
<1>3. CASE ExecFails(p)
  BY <1>3, ExecFailsGood
<1>4. CASE SetPid(p)
  BY <1>4, SetPidGood
<1>5. CASE Done(p)
  BY <1>5, DoneGood
<1>6. CASE RegisterSelf(p)
  BY <1>6, RegisterSelfGood
<1>7. CASE Foreign(p) \/ DiesUnknown(p)
  BY <1>7, ForeignGood
<1>8. CASE Cleanup(p)
  BY <1>8, CleanupGood
<1>9. CASE \E c \in Procs : Exec(p, c)
  BY <1>9, ExecGood
<1>10. CASE \E c \in Procs : ChildNotification(p, c)
  BY <1>10, ChildNotificationGood
<1>11. CASE \E c \in Procs : QueryProcess(p, c)
  BY <1>11, QueryGood
<1> QED
  BY <1>1, <1>2, <1>3, <1>4, <1>5, <1>6, <1>7, <1>8, <1>9, <1>10, <1>11 DEF Step

\* Until a zombie that a spawn holds is given away.
GoodTillRobbed == robbed \in BOOLEAN /\ (~robbed => Good(spm))

\* The invariant of the shared memory: the lists, the blocks of the processes, what a
\* spawn holds, the references and the notes agree, whatever the processes do.
THEOREM Invariant == Spec => []GoodTillRobbed
<1>1. Init => GoodTillRobbed
  BY InitGood DEF Init, GoodTillRobbed
<1>2. GoodTillRobbed /\ [Next]_spmVars => GoodTillRobbed'
  <2> SUFFICES ASSUME GoodTillRobbed, [Next]_spmVars PROVE GoodTillRobbed'
    OBVIOUS
  <2>1. CASE UNCHANGED spmVars
    <3>1. Becomes(spm) /\ robbed' = robbed
      BY <2>1 DEF spmVars, procVars, Becomes
    <3> QED
      BY <3>1, BecomesGood DEF GoodTillRobbed
  <2>2. CASE Next
    <3>1. PICK p \in Procs : Step(p)
      BY <2>2 DEF Next
    <3>2. ~robbed /\ robbed' = ~Spared
      BY <2>2 DEF Next
    <3>3. Spared \in BOOLEAN
      BY DEF Spared
    <3> QED
      BY <3>1, <3>2, <3>3, NextGood DEF GoodTillRobbed
  <2> QED
    BY <2>1, <2>2
<1> QED
  BY <1>1, <1>2, PTL DEF Spec

LEMMA GoodLists ==
    ASSUME Good(spm), robbed \in BOOLEAN
    PROVE  ListsAgree
<1>0. Lists(spm) /\ Processes
  BY DEF Good
<1>1. TypeOK
  BY <1>0 DEF TypeOK, Lists, Processes, Memory
<1>2. \A list \in {spm.embryos, spm.zombies} : IsInjective(list)
  BY <1>0 DEF Lists
<1>3. spm.embryos \in Seq(Blocks) /\ spm.zombies \in Seq(Blocks)
  BY <1>0, BlockType DEF Lists
<1>4. Range(spm.embryos) \subseteq Blocks /\ Range(spm.zombies) \subseteq Blocks
  BY <1>3, RangeType
<1>5. /\ Range(spm.embryos) = {b \in Blocks : spm.blk[b].st = "embryo"}
      /\ Range(spm.zombies) = {b \in Blocks : spm.blk[b].st = "zombie"}
  BY <1>0, <1>4 DEF Lists
<1>6. ASSUME NEW p \in Procs PROVE AliveBlock(spm, p) = IF Uses(p) THEN {self[p]} ELSE {}
  <2>1. ASSUME NEW b \in Blocks, spm.blk[b].st = "alive", spm.blk[b].pid = p PROVE Uses(p) /\ b = self[p]
    <3>1. self[p] = b /\ b # None
      BY <2>1, SPMAssumption DEF Good, Blks, AliveOf
    <3> QED
      BY <1>0, <3>1 DEF Processes, Uses
  <2>2. ASSUME Uses(p) PROVE self[p] \in Blocks /\ spm.blk[self[p]].st = "alive" /\ spm.blk[self[p]].pid = p
    <3>1. self[p] # None
      BY <2>2 DEF Uses
    <3> QED
      BY <1>0, <3>1, ProcessTypes DEF Good, Own
  <2> QED
    BY <2>1, <2>2 DEF AliveBlock
<1> QED
  BY <1>1, <1>2, <1>5, <1>6 DEF ListsAgree

\* sharedpm.c:2661, 2906, 2977: every block is in the list of its state, once, and a
\* living process has one block, whatever spawns, forks, ends and is reaped.
THEOREM ListsAgreeHold == Spec => []ListsAgree
<1>1. GoodTillRobbed => ListsAgree
  BY GoodLists DEF GoodTillRobbed, ListsAgree
<1> QED
  BY <1>1, Invariant, PTL

LEMMA GoodCounted ==
    ASSUME Good(spm)
    PROVE  Counted
<1> USE SPMAssumption
<1>0. Lists(spm) /\ Processes /\ spm \in Memory
  BY DEF Good, Lists
<1> SUFFICES ASSUME NEW b \in Blocks
             PROVE  /\ Holders(b) <= spm.blk[b].refs
                    /\ spm.blk[b].refs = 0 => spm.blk[b].st \in {"free", "embryo"}
                    /\ spm.blk[b].st = "free" => spm.blk[b].refs = 0
  BY DEF Counted
<1>1. Cardinality({p \in Procs : self[p] = b}) = IF spm.blk[b].st = "alive" THEN 1 ELSE 0
  <2>1. CASE spm.blk[b].st = "alive"
    <3>1. AliveOf(b, spm.blk[b]) /\ spm.blk[b].pid \in Procs \union {None}
      BY <1>0, <2>1, BlockType DEF Good, Blks
    <3>2. \A p \in Procs : self[p] = b <=> p = spm.blk[b].pid
      BY <3>1 DEF AliveOf, Good, Own
    <3>3. {p \in Procs : self[p] = b} = {spm.blk[b].pid}
      BY <3>1, <3>2 DEF AliveOf
    <3> QED
      BY <2>1, <3>3, FS_Singleton
  <2>2. CASE spm.blk[b].st # "alive"
    <3>1. {p \in Procs : self[p] = b} = {}
      BY <2>2 DEF Good, Own
    <3> QED
      BY <2>2, <3>1, FS_EmptySet
  <2> QED
    BY <2>1, <2>2
<1>2. Cardinality({p \in Procs : held[p] = b}) = IF \E p \in Procs : held[p] = b THEN 1 ELSE 0
  <2>1. CASE \E p \in Procs : held[p] = b
    <3>1. PICK p \in Procs : held[p] = b
      BY <2>1
    <3>2. \A q \in Procs : held[q] = b => q = spm.blk[b].parent
      BY DEF Good, Held, HeldOf
    <3>3. {q \in Procs : held[q] = b} = {p}
      BY <3>1, <3>2
    <3> QED
      BY <2>1, <3>3, FS_Singleton
  <2>2. CASE ~ \E p \in Procs : held[p] = b
    <3>1. {p \in Procs : held[p] = b} = {}
      BY <2>2
    <3> QED
      BY <2>2, <3>1, FS_EmptySet
  <2> QED
    BY <2>1, <2>2
<1>3. Holders(b) = Users(spm, b)
  BY <1>1, <1>2 DEF Holders, Users
<1>4. Users(spm, b) <= spm.blk[b].refs
  BY DEF Good, Counts, CountOf
<1>5. spm.blk[b].refs \in Nat /\ spm.blk[b].st \in {"free", "embryo", "alive", "zombie"}
  BY <1>0, BlockType DEF Block
<1>6. spm.blk[b].st = "alive" => spm.blk[b].refs > 0
  BY <1>4, <1>5 DEF Users
<1>7. spm.blk[b].st = "zombie" => spm.blk[b].refs > 0
  BY DEF Good, Blks
<1>8. spm.blk[b].st = "free" => spm.blk[b].refs = 0
  BY DEF Good, Blks, Free
<1> QED
  BY <1>3, <1>4, <1>5, <1>6, <1>7, <1>8

\* sharedpm.c:971-1009, 2744-2778: whoever has a block has a reference in its count, so
\* that no release and no end frees it under a user, and a block that is in use or a
\* zombie has one.
THEOREM ReferencesAreCounted == Spec => []Counted
<1>1. GoodTillRobbed => Counted
  BY GoodCounted DEF GoodTillRobbed, Counted
<1> QED
  BY <1>1, Invariant, PTL

LEMMA GoodNotes ==
    ASSUME Good(spm)
    PROVE  NoteReachesParent
<1> SUFFICES ASSUME NEW c \in libc, parent[c] # None, Uses(parent[c]),
                    NEW n, n = spm.blk[self[parent[c]]].notes
             PROVE  IF os[c] # "dead" \/ c \in silent THEN c \notin told /\ c \notin Range(n)
                    ELSE IF c \in asked THEN c \in told /\ c \notin Range(n)
                    ELSE \E i \in DOMAIN n : \A j \in DOMAIN n : n[j] = c <=> j = i
  BY DEF NoteReachesParent
<1>1. c \in Procs /\ parent[c] \in Procs
  BY DEF Good, Processes
<1>2. Noted(parent[c], n)
  BY <1>1 DEF Good, Notes, Uses
<1>3. CASE os[c] # "dead" \/ c \in silent
  <2>1. c \notin told
    BY <1>1, <1>3 DEF Good, Processes
  <2> QED
    BY <1>2, <1>3, <2>1 DEF Noted
<1>4. CASE os[c] = "dead" /\ c \notin silent /\ c \in asked
  BY <1>2, <1>4 DEF Noted
<1>5. CASE os[c] = "dead" /\ c \notin silent /\ c \notin asked
  <2>1. c \in Range(n) /\ IsInjective(n)
    BY <1>2, <1>5 DEF Noted
  <2>2. PICK i \in DOMAIN n : n[i] = c
    BY <2>1 DEF Range
  <2>3. \A j \in DOMAIN n : n[j] = c <=> j = i
    BY <2>1, <2>2 DEF IsInjective
  <2> QED
    BY <1>5, <2>3
<1> QED
  BY <1>3, <1>4, <1>5

\* sharedpm.c:2703-2722, 227-268: a parent that lives has one note of each child that
\* used the library, had room for a note and ended, until it asks, and is told when it
\* does; it has none of a child that had no room, or lives.
THEOREM NotesReachParents == Spec => []NoteReachesParent
<1>1. GoodTillRobbed => NoteReachesParent
  BY GoodNotes DEF GoodTillRobbed, NoteReachesParent
<1> QED
  BY <1>1, Invariant, PTL

\* sharedpm.c:2911-2921: a process registers with the embryo that was made for it or with
\* a new block, whichever of parent and child is first.
THEOREM ChildrenInheritTheirOwn == Spec => []InheritsOwn
<1>1. GoodTillRobbed => InheritsOwn
  <2> SUFFICES ASSUME Good(spm), NEW c \in Procs, c # Root, self[c] # None
               PROVE  spm.blk[self[c]].for = c
    BY DEF InheritsOwn, GoodTillRobbed
  <2>1. self[c] \in Blocks /\ spm.blk[self[c]].st = "alive" /\ spm.blk[self[c]].pid = c
    BY ProcessTypes DEF Good, Own
  <2> QED
    BY <2>1 DEF Good, Blks, AliveOf
<1> QED
  BY <1>1, Invariant, PTL
=============================================================================
