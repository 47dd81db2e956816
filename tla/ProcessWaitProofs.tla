-------------------------- MODULE ProcessWaitProofs --------------------------
(***************************************************************************)
(* What a process is told of its children, for any number of threads,       *)
(* children, groups and calls.  Told follows the end of a child from        *)
(* DosWaitChild to the caller: it is in the wait thread's hands, or in the  *)
(* queue, or was given away, or was dropped, and never in two places.       *)
(* Listed ties the list of known children to it: a child leaves the list in *)
(* the step that brings its end into the queue or drops it.                 *)
(***************************************************************************)
EXTENDS ProcessWait, FiniteSetTheorems, SequenceTheorems,
        WellFoundedInduction, TLAPS

\* The types of the variables the argument is about.
Types ==
    /\ child \in [Children -> {"unborn", "running", "dead", "reaped", "foreign"}]
    /\ fifo \in Seq(Infos)
    /\ known \subseteq Children /\ registered \subseteq Children /\ dropped \subseteq Children
    /\ collected \in [Children -> Nat]
    /\ wpc \in {"none", "loop", "call", "reaped", "alloc", "raise", "birth", "end"}
    /\ winfo \in Infos
    /\ pc \in [Threads -> {"idle", "exec", "examine", "wait", "blocked", "gone"}]
    /\ DOMAIN arg = Threads /\ DOMAIN result = Threads

\* The types of the others, and that the list of free nodes is no longer than gcWaitFree
\* says.
OtherTypes ==
    /\ gcChildren \in Nat /\ spare \in Nat
    /\ gcWaitFree \in Nat /\ free \in Nat /\ free <= gcWaitFree
    /\ giWaitPreAlloced \in 0..PreAlloced
    /\ gfNoWaitStatus \in BOOLEAN /\ gtidThread \in BOOLEAN /\ gfTerminate \in BOOLEAN
    /\ ghevWait \in {"posted", "reset", "closed"} /\ ghevBirth \in {"posted", "reset", "closed"}
    /\ fInternalTerm \in BOOLEAN /\ inExit \in BOOLEAN
    /\ how \in [Threads -> {"first", "posted", "timeout", "interrupt"}]

\* The states of a child of this process
Started == {"running", "dead", "reaped"}

\* There is at most one wait thread, and a thread that starts a child has one.
Running ==
    /\ wpc = "none" <=> gtidThread = FALSE
    /\ \A t \in Threads : pc[t] = "exec" =>
         arg[t].who \in Children /\ child[arg[t].who] \in Started

\* The end of c has arrived somewhere.
Arrived(c) == Queued(c) # {} \/ collected[c] = 1 \/ c \in dropped

\* The end of c is in one place.
Told(c) ==
    /\ \A i, j \in Queued(c) : i = j
    /\ collected[c] \in {0, 1}
    /\ Queued(c) # {} => collected[c] = 0 /\ c \notin dropped
    /\ collected[c] = 1 => c \notin dropped
    /\ child[c] # "reaped" \/ InHand(c) => ~Arrived(c)
    /\ child[c] = "reaped" /\ ~InHand(c) /\ ghevWait # "closed" => Arrived(c)
    /\ wpc = "raise" /\ winfo.pid = c => Arrived(c)

\* What is known of c is known of a child of this process, and the list of known
\* children gives c up when its end arrives.
Listed(c) ==
    /\ InHand(c) => child[c] = "reaped" /\ winfo.code = "exited"
    /\ c \in known => child[c] \in Started
    /\ \A i \in 1..Len(fifo) : fifo[i].pid = c => child[c] \in Started
    /\ c \in registered /\ c \notin known => Arrived(c)

Core == \A c \in Children : Told(c) /\ Listed(c)
-----------------------------------------------------------------------------
(* The queue                                                                *)

\* A queue in which something is found has a first place where it is.
LEMMA FirstFound ==
    ASSUME NEW r, fifo \in Seq(Infos), Found(r) # {}
    PROVE  First(r) \in 1 .. Len(fifo)
<1> DEFINE R == OpToRel(<, Nat)
<1>1. Found(r) \subseteq Nat /\ Found(r) \subseteq 1 .. Len(fifo)
  BY DEF Found
<1>2. PICK i \in Found(r) : \A j \in Found(r) : ~(<<j, i>> \in R)
  BY <1>1, NatLessThanWellFounded, WFMin
<1>3. \A j \in Found(r) : ~(j < i)
  BY <1>1, <1>2 DEF OpToRel
<1>4. \A j \in Found(r) : i <= j
  BY <1>1, <1>3
<1>5. First(r) \in Found(r)
  BY <1>2, <1>4 DEF First
<1> QED
  BY <1>1, <1>5

\* What is left of a sequence without its element i: places before i stay, those
\* after it move down by one.
LEMMA RemoveAtProperties ==
    ASSUME NEW S, NEW s \in Seq(S), NEW i \in 1 .. Len(s)
    PROVE  /\ RemoveAt(s, i) \in Seq(S)
           /\ Len(RemoveAt(s, i)) = Len(s) - 1
           /\ \A j \in 1 .. Len(s) - 1 : RemoveAt(s, i)[j] = IF j < i THEN s[j] ELSE s[j + 1]
<1> DEFINE a == SubSeq(s, 1, i - 1)
           b == SubSeq(s, i + 1, Len(s))
<1>1. Len(s) \in Nat /\ i \in Int /\ 1 <= i /\ i <= Len(s)
  OBVIOUS
<1>2. (\A j \in 1 .. i - 1 : s[j] \in S) /\ (\A j \in i + 1 .. Len(s) : s[j] \in S)
  BY <1>1
<1>3. /\ a \in Seq(S) /\ Len(a) = i - 1
      /\ \A j \in 1 .. i - 1 : a[j] = s[j]
  <2>1. /\ a \in Seq(S)
        /\ Len(a) = IF 1 <= i - 1 THEN (i - 1) - 1 + 1 ELSE 0
        /\ \A j \in 1 .. (i - 1) - 1 + 1 : a[j] = s[1 + j - 1]
    BY <1>1, <1>2, SubSeqProperties
  <2> QED
    BY <1>1, <2>1
<1>4. /\ b \in Seq(S) /\ Len(b) = Len(s) - i
      /\ \A j \in 1 .. Len(s) - i : b[j] = s[i + j]
  <2>1. /\ b \in Seq(S)
        /\ Len(b) = IF i + 1 <= Len(s) THEN Len(s) - (i + 1) + 1 ELSE 0
        /\ \A j \in 1 .. Len(s) - (i + 1) + 1 : b[j] = s[(i + 1) + j - 1]
    BY <1>1, <1>2, SubSeqProperties
  <2> QED
    BY <1>1, <2>1
<1> HIDE DEF a, b
<1>5. /\ a \o b \in Seq(S) /\ Len(a \o b) = Len(a) + Len(b)
      /\ \A j \in 1 .. Len(a) + Len(b) :
           (a \o b)[j] = IF j <= Len(a) THEN a[j] ELSE b[j - Len(a)]
  BY <1>3, <1>4, ConcatProperties
<1>6. Len(a \o b) = Len(s) - 1
  BY <1>1, <1>3, <1>4, <1>5
<1>7. ASSUME NEW j \in 1 .. Len(s) - 1
      PROVE  (a \o b)[j] = IF j < i THEN s[j] ELSE s[j + 1]
  <2>1. (a \o b)[j] = IF j <= i - 1 THEN a[j] ELSE b[j - (i - 1)]
    BY <1>1, <1>3, <1>4, <1>5
  <2>2. CASE j <= i - 1
    BY <1>1, <1>3, <2>1, <2>2
  <2>3. CASE j > i - 1
    <3>1. j - (i - 1) \in 1 .. Len(s) - i /\ i + (j - (i - 1)) = j + 1
      BY <1>1, <2>3
    <3>2. b[j - (i - 1)] = s[i + (j - (i - 1))]
      BY <1>4, <3>1
    <3> QED
      BY <1>1, <2>1, <2>3, <3>1, <3>2
  <2>4. j <= i - 1 \/ j > i - 1
    BY <1>1
  <2> QED
    BY <2>2, <2>3, <2>4
<1> QED
  BY <1>5, <1>6, <1>7 DEF RemoveAt, a, b

\* The queue after a status was added at its end.
LEMMA AppendQueued ==
    ASSUME fifo \in Seq(Infos), NEW info \in Infos, fifo' = Append(fifo, info), NEW c
    PROVE  /\ fifo' \in Seq(Infos) /\ fifo' # fifo
           /\ Queued(c)' = IF info.pid = c /\ info.code = "exited"
                           THEN Queued(c) \union {Len(fifo) + 1} ELSE Queued(c)
           /\ \A i \in 1 .. Len(fifo') :
                fifo'[i] = info \/ \E j \in 1 .. Len(fifo) : fifo'[i] = fifo[j]
<1>1. /\ fifo' \in Seq(Infos) /\ Len(fifo') = Len(fifo) + 1
      /\ \A i \in 1 .. Len(fifo) : fifo'[i] = fifo[i]
      /\ fifo'[Len(fifo) + 1] = info
  BY AppendProperties
<1>2. Len(fifo) \in Nat
  OBVIOUS
<1>3. 1 .. Len(fifo') = (1 .. Len(fifo)) \union {Len(fifo) + 1}
  BY <1>1, <1>2
<1>4. fifo' # fifo
  BY <1>1, <1>2
<1>5. Queued(c)' = IF info.pid = c /\ info.code = "exited"
                   THEN Queued(c) \union {Len(fifo) + 1} ELSE Queued(c)
  BY <1>1, <1>3 DEF Queued
<1> QED
  BY <1>1, <1>3, <1>4, <1>5

\* The queue after the status i was unlinked: the ends that were in it are in it
\* once, but for the one at i.
LEMMA RemoveQueued ==
    ASSUME fifo \in Seq(Infos), NEW i \in 1 .. Len(fifo), fifo' = RemoveAt(fifo, i), NEW c,
           \A j, k \in Queued(c) : j = k
    PROVE  /\ fifo' \in Seq(Infos)
           /\ \A j, k \in Queued(c)' : j = k
           /\ i \in Queued(c) => Queued(c)' = {}
           /\ i \notin Queued(c) => (Queued(c)' = {} <=> Queued(c) = {})
           /\ \A j \in 1 .. Len(fifo') : \E k \in 1 .. Len(fifo) : fifo'[j] = fifo[k]
<1> DEFINE at(j) == IF j < i THEN j ELSE j + 1
<1>1. /\ fifo' \in Seq(Infos) /\ Len(fifo') = Len(fifo) - 1 /\ Len(fifo) \in Nat
      /\ \A j \in 1 .. Len(fifo) - 1 : fifo'[j] = fifo[at(j)]
  <2>1. /\ fifo' \in Seq(Infos) /\ Len(fifo') = Len(fifo) - 1
        /\ \A j \in 1 .. Len(fifo) - 1 : fifo'[j] = IF j < i THEN fifo[j] ELSE fifo[j + 1]
    BY RemoveAtProperties
  <2> QED
    BY <2>1
<1>2. \A j \in 1 .. Len(fifo') : at(j) \in 1 .. Len(fifo) /\ at(j) # i
  BY <1>1
<1>3. \A j, k \in 1 .. Len(fifo') : at(j) = at(k) => j = k
  BY <1>1
<1>4. \A k \in 1 .. Len(fifo) : k # i => \E j \in 1 .. Len(fifo') : at(j) = k
  <2> SUFFICES ASSUME NEW k \in 1 .. Len(fifo), k # i
               PROVE  \E j \in 1 .. Len(fifo') : at(j) = k
    OBVIOUS
  <2>1. CASE k < i
    <3>1. k \in 1 .. Len(fifo') /\ at(k) = k
      BY <1>1, <2>1
    <3> QED
      BY <3>1
  <2>2. CASE k > i
    <3>1. k - 1 \in 1 .. Len(fifo') /\ at(k - 1) = k
      BY <1>1, <2>2
    <3> QED
      BY <3>1
  <2>3. k < i \/ k > i
    BY <1>1
  <2> QED
    BY <2>1, <2>2, <2>3
<1>5. \A j \in 1 .. Len(fifo') : fifo'[j] = fifo[at(j)]
  BY <1>1
<1> HIDE DEF at
<1>6. \A j \in 1 .. Len(fifo') : j \in Queued(c)' <=> at(j) \in Queued(c)
  BY <1>2, <1>5 DEF Queued
<1>7. Queued(c)' \subseteq 1 .. Len(fifo') /\ Queued(c) \subseteq 1 .. Len(fifo)
  BY DEF Queued
<1>8. \A j, k \in Queued(c)' : j = k
  BY <1>3, <1>6, <1>7
<1>9. i \in Queued(c) => Queued(c)' = {}
  BY <1>2, <1>6, <1>7
<1>10. i \notin Queued(c) => (Queued(c)' = {} <=> Queued(c) = {})
  BY <1>4, <1>6, <1>7
<1> QED
  BY <1>1, <1>2, <1>5, <1>8, <1>9, <1>10

-----------------------------------------------------------------------------
(* Types                                                                    *)

\* A post of ghevWait, or its close, readies callers that were blocked and moves no
\* other.
LEMMA WakeTypes ==
    ASSUME Types, OtherTypes, NEW label \in {"posted", "closed"},
           Wake(label) \/ UNCHANGED <<ghevWait, pc, how>>
    PROVE  /\ pc' \in [Threads -> {"idle", "exec", "examine", "wait", "blocked", "gone"}]
           /\ how' \in [Threads -> {"first", "posted", "timeout", "interrupt"}]
           /\ ghevWait' \in {"posted", "reset", "closed"}
           /\ \A t \in Threads : pc'[t] = "exec" => pc[t] = "exec"
           /\ \A t \in Threads : pc'[t] = "idle" => pc[t] = "idle"
  BY DEF Types, OtherTypes, Wake

Typed == Types /\ OtherTypes /\ Running

\* A status that gets one of the library's own nodes is the last of the queue.
LEMMA OwnNodeTypes ==
    ASSUME Types, OtherTypes, NEW info \in Infos, OwnNode(info)
    PROVE  /\ fifo' = fifo \/ fifo' = Append(fifo, info)
           /\ fifo' \in Seq(Infos)
           /\ gcWaitFree' \in Nat /\ free' \in Nat /\ free' <= gcWaitFree'
           /\ giWaitPreAlloced' \in 0 .. PreAlloced
<1>1. fifo' = fifo \/ fifo' = Append(fifo, info)
  BY DEF OwnNode
<1>2. fifo' \in Seq(Infos)
  BY <1>1, AppendProperties DEF Types
<1>3. /\ gcWaitFree' \in Nat /\ free' \in Nat /\ free' <= gcWaitFree'
      /\ giWaitPreAlloced' \in 0 .. PreAlloced
  BY BoundAssumption DEF OtherTypes, OwnNode
<1> QED
  BY <1>1, <1>2, <1>3

\* A status is made of a child, a group and a kind.
LEMMA InfoTypes ==
    /\ NoInfo \in Infos
    /\ \A c \in Children, g \in Groups, k \in Kinds : [pid |-> c, pgrp |-> g, code |-> k] \in Infos
    /\ \A c \in Children : Group[c] \in Groups
<1>1. (CHOOSE c \in Children : TRUE) \in Children
  BY GroupAssumption
<1>2. \A c \in Children : Group[c] \in Groups
  BY GroupAssumption
<1>3. (CHOOSE g \in Groups : TRUE) \in Groups
  BY <1>1, <1>2
<1> QED
  BY <1>1, <1>2, <1>3 DEF NoInfo, Infos, Kinds

\* The variables have their types when the process starts.
LEMMA InitTyped == Init => Typed
<1> SUFFICES ASSUME Init PROVE Typed
  OBVIOUS
<1>1. Types
  BY InfoTypes DEF Init, Types
<1>2. OtherTypes
  <2>1. /\ gcChildren = 0 /\ spare = 0 /\ gcWaitFree = 0 /\ free = 0 /\ giWaitPreAlloced = 0
        /\ ghevWait = "posted" /\ ghevBirth = "reset" /\ how = [t \in Threads |-> "first"]
    BY DEF Init
  <2>2. /\ gfNoWaitStatus \in BOOLEAN /\ gtidThread \in BOOLEAN /\ gfTerminate \in BOOLEAN
        /\ fInternalTerm \in BOOLEAN /\ inExit \in BOOLEAN
    BY Zenon DEF Init
  <2> QED
    BY <2>1, <2>2, BoundAssumption DEF OtherTypes
<1>3. Running
  BY DEF Init, Running
<1> QED
  BY <1>1, <1>2, <1>3 DEF Typed

\* Children start, end and are followed into a fork.
LEMMA ChildrenTyped ==
    ASSUME Typed,
           \/ \E c \in Children : Die(c)
           \/ \E t \in Threads, c \in Children : Exec(t, c)
           \/ \E t \in Threads : NotifyExec(t) \/ Fork(t)
    PROVE  Typed'
<1> USE DEF Typed, Started
<1>1. ASSUME NEW c \in Children, Die(c) PROVE Typed'
  BY <1>1 DEF Die, Types, OtherTypes, Running, shared, events, thread, callers, history
<1>2. ASSUME NEW t \in Threads, NEW c \in Children, Exec(t, c) PROVE Typed'
  <2>1. Types' /\ OtherTypes'
    BY <1>2 DEF Exec, Types, OtherTypes, shared, events, thread, history
  <2>2. Running'
    BY <1>2 DEF Exec, Types, Running, thread
  <2> QED
    BY <2>1, <2>2
<1>3. ASSUME NEW t \in Threads, NotifyExec(t) PROVE Typed'
  <2>1. Types'
    BY <1>3 DEF NotifyExec, Types, Running
  <2>2. OtherTypes'
    <3>1. gcChildren' \in Nat /\ spare' \in Nat
      BY <1>3 DEF NotifyExec, OtherTypes
    <3>2. gtidThread' \in BOOLEAN /\ gfTerminate' \in BOOLEAN
      BY <1>3, Zenon DEF NotifyExec, OtherTypes
    <3>3. ghevBirth' \in {"posted", "reset", "closed"}
      BY <1>3 DEF NotifyExec
    <3> QED
      BY <1>3, <3>1, <3>2, <3>3 DEF NotifyExec, OtherTypes
  <2>3. Running'
    BY <1>3 DEF NotifyExec, Types, OtherTypes, Running
  <2> QED
    BY <2>1, <2>2, <2>3
<1>4. ASSUME NEW t \in Threads, Fork(t) PROVE Typed'
  <2>1. Types'
    BY <1>4, InfoTypes DEF Fork, Types
  <2>2. OtherTypes'
    <3>1. gcChildren' \in Nat /\ spare' \in Nat /\ free' \in Nat /\ free' <= gcWaitFree'
      BY <1>4 DEF Fork, OtherTypes
    <3>2. gtidThread' \in BOOLEAN /\ gfTerminate' \in BOOLEAN /\ fInternalTerm' \in BOOLEAN
      BY <1>4, Zenon DEF Fork
    <3>3. how' \in [Threads -> {"first", "posted", "timeout", "interrupt"}]
      BY <1>4 DEF Fork
    <3> QED
      BY <1>4, <3>1, <3>2, <3>3 DEF Fork, OtherTypes, events
  <2>3. Running'
    BY <1>4 DEF Fork, Types, Running
  <2> QED
    BY <2>1, <2>2, <2>3
<1> QED
  BY <1>1, <1>2, <1>3, <1>4

\* The end of a child is recorded.
LEMMA RecordTyped ==
    ASSUME Typed, wpc \in {"reaped", "alloc"}, Record,
           fifo' \in Seq(Infos), gcWaitFree' \in Nat, free' \in Nat, free' <= gcWaitFree',
           giWaitPreAlloced' \in 0 .. PreAlloced
    PROVE  Typed'
<1> USE DEF Typed, Started
<1>1. /\ pc' \in [Threads -> {"idle", "exec", "examine", "wait", "blocked", "gone"}]
      /\ how' \in [Threads -> {"first", "posted", "timeout", "interrupt"}]
      /\ ghevWait' \in {"posted", "reset", "closed"}
      /\ \A t \in Threads : pc'[t] = "exec" => pc[t] = "exec"
  BY WakeTypes DEF Record, PostWait
<1>2. winfo.pid \in Children
  BY DEF Types, Infos
<1>3. Types'
  BY <1>1, <1>2 DEF Record, Types
<1>4. gcChildren' \in Nat /\ spare' \in Nat
  BY DEF Record, OtherTypes
<1>5. fInternalTerm' \in BOOLEAN
  BY Zenon DEF Record, OtherTypes
<1>6. OtherTypes'
  BY <1>1, <1>4, <1>5 DEF Record, OtherTypes
<1>7. Running'
  BY <1>1 DEF Record, Running
<1> QED
  BY <1>3, <1>6, <1>7

\* The wait thread's steps
LEMMA WaitThreadTyped ==
    ASSUME Typed, WaitThread
    PROVE  Typed'
<1> USE DEF Typed, Started
<1>1. ASSUME WaitLoop PROVE Typed'
  BY <1>1 DEF WaitLoop, Types, OtherTypes, Running, shared, events, callers, history
<1>2. ASSUME NEW c \in Children, Reap(c) PROVE Typed'
  <2>1. winfo' \in Infos
    BY <1>2, InfoTypes DEF Reap, Kinds
  <2>2. Types'
    BY <1>2, <2>1 DEF Reap, Types, shared, events, callers, history
  <2>3. OtherTypes' /\ Running'
    BY <1>2 DEF Reap, Types, OtherTypes, Running, shared, events, callers
  <2> QED
    BY <2>2, <2>3
<1>3. ASSUME NoChild PROVE Typed'
  BY <1>3 DEF NoChild, Types, OtherTypes, Running, shared, events, callers, history
<1>4. ASSUME Birth PROVE Typed'
  BY <1>4 DEF Birth, Types, OtherTypes, Running, shared, callers, history
<1>5. ASSUME Insert PROVE Typed'
  <2>1. winfo \in Infos /\ fifo \in Seq(Infos)
    BY DEF Types
  <2>2. CASE gfNoWaitStatus /\ UNCHANGED <<fifo, free, gcWaitFree, giWaitPreAlloced>> /\ Record
    BY <1>5, <2>1, <2>2, RecordTyped DEF Insert, OtherTypes
  <2>3. CASE OwnNode(winfo) /\ Record
    BY <1>5, <2>1, <2>3, RecordTyped, OwnNodeTypes DEF Insert
  <2>4. CASE /\ wpc' = "alloc"
             /\ UNCHANGED <<child, shared, events, gtidThread, gfTerminate, winfo, fInternalTerm,
                            inExit, callers, history>>
    BY <1>5, <2>4 DEF Insert, Types, OtherTypes, Running, shared, events, callers, history
  <2> QED
    BY <1>5, <2>2, <2>3, <2>4 DEF Insert
<1>6. ASSUME InsertNode PROVE Typed'
  <2>1. winfo \in Infos /\ fifo \in Seq(Infos)
    BY DEF Types
  <2>2. CASE fifo' = Append(fifo, winfo) /\ UNCHANGED <<free, gcWaitFree, giWaitPreAlloced>>
    <3>1. fifo' \in Seq(Infos)
      BY <2>1, <2>2, AppendProperties
    <3> QED
      BY <1>6, <2>2, <3>1, RecordTyped DEF InsertNode, OtherTypes
  <2>3. CASE OwnNode(winfo)
    BY <1>6, <2>1, <2>3, RecordTyped, OwnNodeTypes DEF InsertNode
  <2> QED
    BY <1>6, <2>2, <2>3 DEF InsertNode
<1>7. ASSUME Raise PROVE Typed'
  BY <1>7 DEF Raise, Types, OtherTypes, Running, shared, events, callers, history
<1>8. ASSUME End PROVE Typed'
  <2>1. /\ pc' \in [Threads -> {"idle", "exec", "examine", "wait", "blocked", "gone"}]
        /\ how' \in [Threads -> {"first", "posted", "timeout", "interrupt"}]
        /\ ghevWait' \in {"posted", "reset", "closed"}
        /\ \A t \in Threads : pc'[t] = "exec" => pc[t] = "exec"
    BY <1>8, WakeTypes DEF End
  <2>2. Types' /\ Running'
    BY <1>8, <2>1 DEF End, Types, Running, shared, history
  <2>3. OtherTypes'
    BY <1>8, <2>1 DEF End, OtherTypes, shared
  <2> QED
    BY <2>2, <2>3
<1> QED
  BY <1>1, <1>2, <1>3, <1>4, <1>5, <1>6, <1>7, <1>8 DEF WaitThread

\* The callers' steps
LEMMA CallersTyped ==
    ASSUME Typed, NEW t \in Threads,
           \/ Caller(t) \/ TimeOut(t) \/ Interrupt(t) \/ MutexInterrupted(t)
           \/ \E r \in Requests : ProcessWait(t, r)
    PROVE  Typed'
<1> USE DEF Typed, Started
<1>1. ASSUME Examine(t) PROVE Typed'
  <2>1. /\ UNCHANGED <<child, known, wpc, winfo, arg, registered, dropped, gcChildren, spare,
                       giWaitPreAlloced, gfNoWaitStatus, ghevBirth, thread, inExit, how>>
        /\ ghevWait' \in {"posted", "reset", "closed"}
        /\ pc[t] = "examine"
    BY <1>1 DEF Examine, OtherTypes, thread
  <2>2. /\ \E where \in {"idle", "wait"} : pc' = [pc EXCEPT ![t] = where]
        /\ DOMAIN result' = Threads
    BY <1>1 DEF Examine, Types, Collect, Return
  <2>3. /\ fifo' \in Seq(Infos) /\ collected' \in [Children -> Nat]
        /\ gcWaitFree' \in Nat /\ free' \in Nat /\ free' <= gcWaitFree'
    <3>1. CASE UNCHANGED <<fifo, free, gcWaitFree, collected>>
      BY <3>1 DEF Types, OtherTypes
    <3>2. CASE Found(arg[t]) # {} /\ Collect(t) /\ ~arg[t].nowait
      <4> DEFINE i == First(arg[t])
      <4>0. fifo \in Seq(Infos) /\ i \in 1 .. Len(fifo)
        BY <3>2, FirstFound DEF Types
      <4>2. /\ fifo' = RemoveAt(fifo, i)
            /\ free' = free + 1 /\ gcWaitFree' = gcWaitFree + 1
            /\ collected' = IF fifo[i].code = "exited"
                            THEN [collected EXCEPT ![fifo[i].pid] = @ + 1] ELSE collected
        BY <3>2 DEF Collect
      <4> HIDE DEF i
      <4>1. i \in 1 .. Len(fifo) /\ fifo[i].pid \in Children
        <5>1. fifo[i] \in Infos
          BY <4>0
        <5> QED
          BY <4>0, <5>1 DEF Infos
      <4>3. fifo' \in Seq(Infos)
        BY <4>1, <4>2, RemoveAtProperties DEF Types
      <4> QED
        BY <4>1, <4>2, <4>3 DEF Types, OtherTypes
    <3> QED
      BY <1>1, <3>1, <3>2 DEF Examine, Collect
  <2>4. Types'
    BY <2>1, <2>2, <2>3 DEF Types
  <2>5. OtherTypes'
    BY <2>1, <2>3 DEF OtherTypes, thread
  <2>6. Running'
    BY <2>1, <2>2 DEF Running, Types, thread
  <2> QED
    BY <2>4, <2>5, <2>6
<1>2. ASSUME WaitEvent(t) PROVE Typed'
  <2>1. Types' /\ Running'
    BY <1>2 DEF WaitEvent, Return, Types, Running, shared, events, thread, history
  <2>2. OtherTypes'
    BY <1>2 DEF WaitEvent, OtherTypes, shared, events, thread
  <2> QED
    BY <2>1, <2>2
<1>3. ASSUME NEW why \in {"timeout", "interrupt"}, WakeUp(t, why) PROVE Typed'
  <2>1. Types' /\ Running'
    BY <1>3 DEF WakeUp, Types, Running, shared, events, thread, history
  <2>2. OtherTypes'
    BY <1>3 DEF WakeUp, OtherTypes, shared, events, thread
  <2> QED
    BY <2>1, <2>2
<1>4. ASSUME MutexInterrupted(t) PROVE Typed'
  <2>1. Types' /\ Running'
    BY <1>4 DEF MutexInterrupted, Return, Types, Running, shared, events, thread, history
  <2>2. OtherTypes'
    BY <1>4 DEF MutexInterrupted, OtherTypes, shared, events, thread
  <2> QED
    BY <2>1, <2>2
<1>5. ASSUME NEW r \in Requests, ProcessWait(t, r) PROVE Typed'
  <2>1. Types' /\ Running'
    BY <1>5 DEF ProcessWait, Types, Running, shared, events, thread, history
  <2>2. OtherTypes'
    BY <1>5 DEF ProcessWait, OtherTypes, shared, events, thread
  <2> QED
    BY <2>1, <2>2
<1> QED
  BY <1>1, <1>2, <1>3, <1>4, <1>5 DEF Caller, TimeOut, Interrupt

\* The notifications
LEMMA NotificationsTyped ==
    ASSUME Typed,
           \/ \E c \in Children, code \in {"stopped", "continued"} : NotifyChild(c, code)
           \/ NotifyNoWait \/ StartExit \/ NotifyTerm
    PROVE  Typed'
<1> USE DEF Typed, Started
<1>1. ASSUME NEW c \in Children, NEW code \in {"stopped", "continued"}, NotifyChild(c, code)
      PROVE  Typed'
  <2>1. [pid |-> c, pgrp |-> Group[c], code |-> code] \in Infos
    BY InfoTypes DEF Kinds
  <2>2. /\ fifo' \in Seq(Infos)
        /\ gcWaitFree' \in Nat /\ free' \in Nat /\ free' <= gcWaitFree'
        /\ giWaitPreAlloced' \in 0 .. PreAlloced
    BY <1>1, <2>1, OwnNodeTypes DEF NotifyChild
  <2>3. /\ pc' \in [Threads -> {"idle", "exec", "examine", "wait", "blocked", "gone"}]
        /\ how' \in [Threads -> {"first", "posted", "timeout", "interrupt"}]
        /\ ghevWait' \in {"posted", "reset", "closed"}
        /\ \A t \in Threads : pc'[t] = "exec" => pc[t] = "exec"
    BY <1>1, WakeTypes DEF NotifyChild, PostWait
  <2>4. Types' /\ Running'
    BY <1>1, <2>2, <2>3 DEF NotifyChild, Types, Running, thread, history
  <2>5. OtherTypes'
    BY <1>1, <2>2, <2>3 DEF NotifyChild, OtherTypes, thread
  <2> QED
    BY <2>4, <2>5
<1>2. ASSUME NotifyNoWait PROVE Typed'
  <2>1. gfNoWaitStatus' \in BOOLEAN
    BY <1>2, Zenon DEF NotifyNoWait
  <2> QED
    BY <1>2, <2>1 DEF NotifyNoWait, Types, OtherTypes, Running, events, thread, callers, history
<1>3. ASSUME StartExit PROVE Typed'
  BY <1>3 DEF StartExit, Types, OtherTypes, Running, shared, events, thread, callers, history
<1>4. ASSUME NotifyTerm PROVE Typed'
  <2>1. /\ pc' \in [Threads -> {"idle", "exec", "examine", "wait", "blocked", "gone"}]
        /\ how' \in [Threads -> {"first", "posted", "timeout", "interrupt"}]
        /\ ghevWait' \in {"posted", "reset", "closed"}
        /\ \A t \in Threads : pc'[t] = "exec" => pc[t] = "exec"
    BY <1>4, WakeTypes DEF NotifyTerm
  <2>2. Types' /\ Running'
    BY <1>4, <2>1 DEF NotifyTerm, Types, OtherTypes, Running, shared, history
  <2>3. OtherTypes'
    BY <1>4, <2>1 DEF NotifyTerm, OtherTypes, shared
  <2> QED
    BY <2>2, <2>3
<1> QED
  BY <1>1, <1>2, <1>3, <1>4

\* Every step keeps the types.
LEMMA StepTyped == Typed /\ [Next]_vars => Typed'
<1> SUFFICES ASSUME Typed, [Next]_vars PROVE Typed'
  OBVIOUS
<1>1. CASE UNCHANGED vars
  BY <1>1 DEF vars, Typed, Types, OtherTypes, Running, shared, events, thread, callers, history
<1>2. CASE Next
  BY <1>2, ChildrenTyped, WaitThreadTyped, CallersTyped, NotificationsTyped DEF Next
<1> QED
  BY <1>1, <1>2

-----------------------------------------------------------------------------
(* What is told of a child                                                  *)

\* Nothing has happened when the process starts.
LEMMA InitCore == Init => Core
<1> SUFFICES ASSUME Init, NEW c \in Children PROVE Told(c) /\ Listed(c)
  BY DEF Core
<1>1. /\ Queued(c) = {} /\ collected[c] = 0 /\ dropped = {} /\ registered = {} /\ known = {}
      /\ child[c] = "unborn" /\ wpc = "none" /\ Len(fifo) = 0
  BY DEF Init, Queued
<1>2. ~Arrived(c) /\ ~InHand(c)
  BY <1>1 DEF Arrived, InHand
<1> QED
  BY <1>1, <1>2 DEF Told, Listed

\* A step that leaves the queue alone and strikes no child off: it may start a child,
\* put one that has started on the list, close the event, and end the wait thread with
\* the event.
LEMMA QuietStep ==
    ASSUME Core, UNCHANGED <<fifo, collected, dropped>>,
           \A c \in Children :
             /\ child'[c] = "reaped" <=> child[c] = "reaped"
             /\ child[c] \in Started => child'[c] \in Started
             /\ c \in known' => c \in known \/ child'[c] \in Started
             /\ c \in registered' /\ c \notin known' => c \in registered /\ c \notin known
             /\ InHand(c)' => InHand(c) /\ winfo' = winfo
             /\ InHand(c) => InHand(c)' \/ ghevWait' = "closed",
           ghevWait = "closed" => ghevWait' = "closed",
           wpc' = "raise" => wpc = "raise" /\ winfo' = winfo
    PROVE  Core'
<1> SUFFICES ASSUME NEW c \in Children PROVE Told(c)' /\ Listed(c)'
  BY DEF Core
<1>1. Queued(c)' = Queued(c) /\ (Arrived(c)' <=> Arrived(c))
  BY DEF Queued, Arrived
<1>2. Told(c) /\ Listed(c)
  BY DEF Core
<1>3. Told(c)'
  BY <1>1, <1>2 DEF Told, Listed
<1>4. Listed(c)'
  BY <1>1, <1>2 DEF Listed
<1> QED
  BY <1>3, <1>4

\* DosWaitChild gives the wait thread a child: its end is in its hands.
LEMMA ReapCore ==
    ASSUME Typed, Core, NEW d \in Children, Reap(d)
    PROVE  Core'
<1> SUFFICES ASSUME NEW c \in Children PROVE Told(c)' /\ Listed(c)'
  BY DEF Core
<1>1. /\ UNCHANGED <<fifo, known, registered, collected, dropped, ghevWait>>
      /\ child[d] = "dead" /\ child' = [child EXCEPT ![d] = "reaped"]
      /\ winfo'.pid = d /\ winfo'.code = "exited" /\ wpc = "call" /\ wpc' = "reaped"
  BY DEF Reap, shared, events, history
<1>2. Queued(c)' = Queued(c) /\ (Arrived(c)' <=> Arrived(c))
  BY <1>1 DEF Queued, Arrived
<1>3. Told(c) /\ Listed(c) /\ ~InHand(c) /\ (InHand(c)' <=> c = d)
  BY <1>1 DEF Core, InHand
<1>4. child'[c] = IF c = d THEN "reaped" ELSE child[c]
  BY <1>1 DEF Typed, Types
<1>5. Told(c)'
  BY <1>1, <1>2, <1>3, <1>4 DEF Told
<1>6. Listed(c)'
  BY <1>1, <1>2, <1>3, <1>4 DEF Listed, Started
<1> QED
  BY <1>5, <1>6

\* The end in the wait thread's hands is queued, or dropped, and the child struck off.
LEMMA RecordCore ==
    ASSUME Typed, Core, wpc \in {"reaped", "alloc"}, Record,
           fifo' = fifo \/ fifo' = Append(fifo, winfo)
    PROVE  Core'
<1> DEFINE p == winfo.pid
<1> SUFFICES ASSUME NEW c \in Children PROVE Told(c)' /\ Listed(c)'
  BY DEF Core
<1>1. winfo \in Infos /\ p \in Children /\ fifo \in Seq(Infos)
  BY DEF Typed, Types, Infos
<1>2. /\ UNCHANGED <<child, winfo, registered, collected>>
      /\ known' = known \ {p} /\ wpc' = "raise"
      /\ dropped' = IF fifo' = fifo THEN dropped \union {p} ELSE dropped
      /\ ghevWait = "closed" => ghevWait' = "closed"
  BY DEF Record, PostWait
<1>3. InHand(p) /\ ~InHand(c)'
  BY <1>2 DEF InHand
<1>4. /\ child[p] = "reaped" /\ winfo.code = "exited" /\ ~Arrived(p)
      /\ Queued(p) = {} /\ collected[p] = 0 /\ p \notin dropped
  <2>1. Told(p) /\ Listed(p)
    BY <1>1 DEF Core
  <2>2. ~Arrived(p) /\ child[p] = "reaped" /\ winfo.code = "exited" /\ collected[p] \in {0, 1}
    BY <1>3, <2>1 DEF Told, Listed
  <2> QED
    BY <2>2 DEF Arrived
<1>5. Told(c) /\ Listed(c)
  BY DEF Core
<1>6. CASE fifo' = fifo
  <2>1. Queued(c)' = Queued(c) /\ dropped' = dropped \union {p}
    BY <1>2, <1>6 DEF Queued
  <2>2. CASE c = p
    <3>1. Arrived(c)' /\ Queued(c)' = {} /\ collected'[c] = 0
      BY <1>2, <1>4, <2>1, <2>2 DEF Arrived
    <3>2. Told(c)'
      BY <1>2, <1>3, <1>4, <2>2, <3>1 DEF Told
    <3>3. Listed(c)'
      BY <1>2, <1>3, <1>4, <1>6, <2>2, <3>1 DEF Listed, Started
    <3> QED
      BY <3>2, <3>3
  <2>3. CASE c # p
    <3>1. (Arrived(c)' <=> Arrived(c)) /\ ~InHand(c)
      BY <1>2, <2>1, <2>3 DEF Arrived, InHand
    <3>2. Told(c)'
      BY <1>2, <1>3, <1>5, <2>1, <2>3, <3>1 DEF Told
    <3>3. Listed(c)'
      BY <1>2, <1>3, <1>5, <1>6, <2>3, <3>1 DEF Listed
    <3> QED
      BY <3>2, <3>3
  <2> QED
    BY <2>2, <2>3
<1>7. CASE fifo' = Append(fifo, winfo)
  <2>1. /\ fifo' # fifo
        /\ Queued(c)' = IF p = c THEN Queued(c) \union {Len(fifo) + 1} ELSE Queued(c)
        /\ \A i \in 1 .. Len(fifo') :
             fifo'[i] = winfo \/ \E j \in 1 .. Len(fifo) : fifo'[i] = fifo[j]
    BY <1>1, <1>4, <1>7, AppendQueued
  <2>2. dropped' = dropped
    BY <1>2, <2>1
  <2>3. \A i \in 1 .. Len(fifo') : fifo'[i].pid = c => child'[c] \in Started
    BY <1>2, <1>4, <1>5, <2>1 DEF Listed, Started
  <2>4. CASE c = p
    <3>1. Arrived(c)' /\ Queued(c)' = {Len(fifo) + 1} /\ collected'[c] = 0
      BY <1>2, <1>4, <2>1, <2>4 DEF Arrived
    <3>2. Told(c)'
      BY <1>2, <1>3, <1>4, <2>2, <2>4, <3>1 DEF Told
    <3>3. Listed(c)'
      BY <1>2, <1>3, <1>4, <2>3, <2>4, <3>1 DEF Listed, Started
    <3> QED
      BY <3>2, <3>3
  <2>5. CASE c # p
    <3>1. Queued(c)' = Queued(c) /\ (Arrived(c)' <=> Arrived(c)) /\ ~InHand(c)
      BY <1>2, <2>1, <2>2, <2>5 DEF Arrived, InHand
    <3>2. Told(c)'
      BY <1>2, <1>3, <1>5, <2>2, <2>5, <3>1 DEF Told
    <3>3. Listed(c)'
      BY <1>2, <1>3, <1>5, <2>3, <2>5, <3>1 DEF Listed
    <3> QED
      BY <3>2, <3>3
  <2> QED
    BY <2>4, <2>5
<1> QED
  BY <1>6, <1>7

\* A caller takes a status: if it is the end of a child, it was the only one of it.
LEMMA CollectCore ==
    ASSUME Typed, Core, NEW t \in Threads, Examine(t), Found(arg[t]) # {}, Collect(t),
           ~arg[t].nowait
    PROVE  Core'
<1> DEFINE i == First(arg[t])
           p == fifo[i].pid
<1> SUFFICES ASSUME NEW c \in Children PROVE Told(c)' /\ Listed(c)'
  BY DEF Core
<1>1. fifo \in Seq(Infos) /\ i \in 1 .. Len(fifo)
  BY FirstFound DEF Typed, Types
<1>2. /\ fifo' = RemoveAt(fifo, i)
      /\ collected' = IF fifo[i].code = "exited"
                      THEN [collected EXCEPT ![p] = @ + 1] ELSE collected
  BY DEF Collect
<1>3. /\ UNCHANGED <<child, known, registered, dropped, wpc, winfo>>
      /\ ghevWait = "closed" => ghevWait' = "closed"
  BY DEF Examine, thread
<1> HIDE DEF i
<1>4. Told(c) /\ Listed(c) /\ (InHand(c)' <=> InHand(c))
  BY <1>3 DEF Core, InHand
<1>5. \A j, k \in Queued(c) : j = k
  BY <1>4 DEF Told
<1>6. /\ \A j, k \in Queued(c)' : j = k
      /\ i \in Queued(c) => Queued(c)' = {}
      /\ i \notin Queued(c) => (Queued(c)' = {} <=> Queued(c) = {})
      /\ \A j \in 1 .. Len(fifo') : \E k \in 1 .. Len(fifo) : fifo'[j] = fifo[k]
  BY <1>1, <1>2, <1>5, RemoveQueued
<1>7. \A j \in 1 .. Len(fifo') : fifo'[j].pid = c => child'[c] \in Started
  BY <1>3, <1>4, <1>6 DEF Listed
<1>8. collected \in [Children -> Nat]
  BY DEF Typed, Types
<1>9. CASE i \in Queued(c)
  <2>1. fifo[i].code = "exited" /\ p = c
    BY <1>9 DEF Queued
  <2>2. Queued(c) # {} /\ Arrived(c) /\ collected[c] = 0 /\ c \notin dropped
    BY <1>4, <1>9 DEF Told, Arrived
  <2>3. child[c] = "reaped" /\ ~InHand(c)
    BY <1>4, <2>2 DEF Told
  <2>4. Queued(c)' = {} /\ collected'[c] = 1
    BY <1>2, <1>6, <1>8, <1>9, <2>1, <2>2
  <2>5. Arrived(c)'
    BY <2>4 DEF Arrived
  <2>6. Told(c)'
    BY <1>3, <1>4, <2>2, <2>3, <2>4, <2>5 DEF Told
  <2>7. Listed(c)'
    BY <1>3, <1>4, <1>7, <2>3, <2>5 DEF Listed
  <2> QED
    BY <2>6, <2>7
<1>10. CASE i \notin Queued(c)
  <2>1. ~(fifo[i].code = "exited" /\ p = c)
    BY <1>1, <1>10 DEF Queued
  <2>2. collected'[c] = collected[c]
    BY <1>2, <1>8, <2>1
  <2>3. Arrived(c)' <=> Arrived(c)
    BY <1>3, <1>6, <1>10, <2>2 DEF Arrived
  <2>4. Told(c)'
    BY <1>3, <1>4, <1>6, <1>10, <2>2, <2>3 DEF Told
  <2>5. Listed(c)'
    BY <1>3, <1>4, <1>7, <2>3 DEF Listed
  <2> QED
    BY <2>4, <2>5
<1> QED
  BY <1>9, <1>10

\* A child that has stopped or goes on is running, and its status is not an end.
LEMMA NotifyChildCore ==
    ASSUME Typed, Core, NEW d \in Children, NEW code \in {"stopped", "continued"},
           NotifyChild(d, code)
    PROVE  Core'
<1> DEFINE info == [pid |-> d, pgrp |-> Group[d], code |-> code]
<1> SUFFICES ASSUME NEW c \in Children PROVE Told(c)' /\ Listed(c)'
  BY DEF Core
<1>1. info \in Infos /\ fifo \in Seq(Infos) /\ info.pid = d /\ info.code # "exited"
  BY InfoTypes DEF Kinds, Typed, Types
<1>2. /\ UNCHANGED <<child, known, registered, collected, dropped, wpc, winfo>>
      /\ child[d] = "running"
      /\ ghevWait = "closed" => ghevWait' = "closed"
      /\ fifo' = fifo \/ fifo' = Append(fifo, info)
  BY DEF NotifyChild, PostWait, OwnNode, thread, history
<1> HIDE DEF info
<1>3. Told(c) /\ Listed(c) /\ (InHand(c)' <=> InHand(c))
  BY <1>2 DEF Core, InHand
<1>4. /\ Queued(c)' = Queued(c)
      /\ \A i \in 1 .. Len(fifo') : fifo'[i].pid = c => child'[c] \in Started
  <2>1. CASE fifo' = fifo
    BY <1>2, <1>3, <2>1 DEF Queued, Listed
  <2>2. CASE fifo' = Append(fifo, info)
    BY <1>1, <1>2, <1>3, <2>2, AppendQueued DEF Listed, Started
  <2> QED
    BY <1>2, <2>1, <2>2
<1>5. Arrived(c)' <=> Arrived(c)
  BY <1>2, <1>4 DEF Arrived
<1>6. Told(c)'
  BY <1>2, <1>3, <1>4, <1>5 DEF Told
<1>7. Listed(c)'
  BY <1>2, <1>3, <1>4, <1>5 DEF Listed
<1> QED
  BY <1>6, <1>7

\* The child of a fork starts with nothing.
LEMMA ForkCore ==
    ASSUME Typed, Core, NEW t \in Threads, Fork(t)
    PROVE  Core'
<1> SUFFICES ASSUME NEW c \in Children PROVE Told(c)' /\ Listed(c)'
  BY DEF Core
<1>1. /\ fifo' = <<>> /\ known' = {} /\ registered' = {} /\ dropped' = {}
      /\ collected'[c] = 0 /\ child'[c] \in {"unborn", "foreign"} /\ wpc' = "none"
  BY DEF Fork
<1>2. Queued(c)' = {} /\ Len(fifo') = 0
  BY <1>1 DEF Queued
<1>3. ~Arrived(c)' /\ ~InHand(c)'
  BY <1>1, <1>2 DEF Arrived, InHand
<1> QED
  BY <1>1, <1>2, <1>3 DEF Told, Listed

\* Every step of Next but those of the lemmas above is a quiet one.
LEMMA StepCore == Typed /\ Core /\ [Next]_vars => Core'
<1> SUFFICES ASSUME Typed, Core, [Next]_vars PROVE Core'
  OBVIOUS
<1> DEFINE Still == UNCHANGED <<fifo, known, registered, collected, dropped, winfo>>
           Alive == ghevWait = "closed" => ghevWait' = "closed"
<1>0. ASSUME Still, Alive, UNCHANGED child, wpc' = wpc PROVE Core'
  <2>1. \A c \in Children : InHand(c)' <=> InHand(c)
    BY <1>0 DEF InHand
  <2> QED
    BY <1>0, <2>1, QuietStep
<1>a. ASSUME Still, Alive, UNCHANGED child, wpc' # "raise",
             wpc \in {"reaped", "alloc"} <=> wpc' \in {"reaped", "alloc"}
      PROVE  Core'
  <2>1. \A c \in Children : InHand(c)' <=> InHand(c)
    BY <1>a DEF InHand
  <2> QED
    BY <1>a, <2>1, QuietStep
<1>1. CASE UNCHANGED vars
  BY <1>0, <1>1 DEF vars, shared, events, thread, history
<1>2. ASSUME NEW d \in Children, Die(d) PROVE Core'
  <2>1. Still /\ Alive /\ wpc' = wpc /\ child[d] = "running" /\ child' = [child EXCEPT ![d] = "dead"]
    BY <1>2 DEF Die, shared, events, thread, history
  <2>2. \A c \in Children : /\ child'[c] = IF c = d THEN "dead" ELSE child[c]
                            /\ InHand(c)' <=> InHand(c)
    BY <2>1 DEF Typed, Types, InHand
  <2> QED
    BY <2>1, <2>2, QuietStep DEF Started
<1>3. ASSUME NEW t \in Threads, NEW d \in Children, Exec(t, d) PROVE Core'
  <2>1. /\ Still /\ Alive /\ wpc' = wpc
        /\ child[d] = "unborn" /\ child' = [child EXCEPT ![d] = "running"]
    BY <1>3 DEF Exec, shared, events, thread, history
  <2>2. \A c \in Children : /\ child'[c] = IF c = d THEN "running" ELSE child[c]
                            /\ InHand(c)' <=> InHand(c)
    BY <2>1 DEF Typed, Types, InHand
  <2> QED
    BY <2>1, <2>2, QuietStep DEF Started
<1>4. ASSUME NEW t \in Threads, NotifyExec(t) PROVE Core'
  <2>1. /\ UNCHANGED <<child, fifo, collected, dropped, ghevWait, winfo>>
        /\ wpc' = wpc \/ (wpc = "none" /\ wpc' = "loop")
        /\ \/ UNCHANGED <<known, registered>>
           \/ known' = known \union {arg[t].who} /\ registered' = registered \union {arg[t].who}
    BY <1>4 DEF NotifyExec, Typed, OtherTypes, Running
  <2>2. arg[t].who \in Children /\ child[arg[t].who] \in Started
    BY <1>4 DEF NotifyExec, Typed, Running
  <2>3. \A c \in Children : InHand(c)' <=> InHand(c)
    BY <2>1 DEF InHand
  <2>4. wpc' = "raise" => wpc = "raise"
    BY <2>1
  <2> QED
    BY <2>1, <2>2, <2>3, <2>4, QuietStep
<1>5. ASSUME NEW t \in Threads, Examine(t) PROVE Core'
  <2>1. CASE Found(arg[t]) # {} /\ Collect(t) /\ ~arg[t].nowait
    BY <1>5, <2>1, CollectCore
  <2>2. CASE UNCHANGED <<fifo, collected>>
    BY <1>0, <1>5, <2>2 DEF Examine, thread
  <2> QED
    BY <1>5, <2>1, <2>2 DEF Examine, Collect
<1>6. ASSUME NEW t \in Threads,
             \/ WaitEvent(t) \/ TimeOut(t) \/ Interrupt(t) \/ MutexInterrupted(t)
             \/ \E r \in Requests : ProcessWait(t, r)
      PROVE  Core'
  BY <1>0, <1>6 DEF WaitEvent, TimeOut, Interrupt, WakeUp, MutexInterrupted, ProcessWait,
                    shared, events, thread, history
<1>7. ASSUME WaitLoop \/ NoChild \/ Birth \/ Raise PROVE Core'
  BY <1>a, <1>7 DEF WaitLoop, NoChild, Birth, Raise, shared, events, history
<1>8. ASSUME Insert PROVE Core'
  <2>1. CASE /\ wpc' = "alloc"
             /\ UNCHANGED <<child, shared, events, gtidThread, gfTerminate, winfo, fInternalTerm,
                            inExit, callers, history>>
    BY <1>a, <1>8, <2>1 DEF Insert, shared, events, history
  <2>2. CASE Record /\ (fifo' = fifo \/ OwnNode(winfo))
    BY <1>8, <2>2, RecordCore DEF Insert, OwnNode
  <2> QED
    BY <1>8, <2>1, <2>2 DEF Insert
<1>9. ASSUME InsertNode PROVE Core'
  BY <1>9, RecordCore DEF InsertNode, OwnNode
<1>10. ASSUME End PROVE Core'
  BY <1>a, <1>10 DEF End, Wake, shared, history
<1>11. ASSUME NotifyNoWait \/ StartExit PROVE Core'
  BY <1>0, <1>11 DEF NotifyNoWait, StartExit, shared, events, thread, history
<1>12. ASSUME NotifyTerm PROVE Core'
  <2>1. Still /\ UNCHANGED child /\ ghevWait' = "closed" /\ wpc' \in {wpc, "none"}
    BY <1>12 DEF NotifyTerm, Wake, shared, history
  <2>2. \A c \in Children : InHand(c)' => InHand(c)
    BY <2>1 DEF InHand
  <2>3. wpc' = "raise" => wpc = "raise"
    BY <2>1
  <2> QED
    BY <2>1, <2>2, <2>3, QuietStep
<1> QED
  BY <1>1, <1>2, <1>3, <1>4, <1>5, <1>6, <1>7, <1>8, <1>9, <1>10, <1>11, <1>12,
     ReapCore, ForkCore, NotifyChildCore DEF Next, WaitThread, Caller

-----------------------------------------------------------------------------
(* The theorems                                                             *)

PWInv == Typed /\ Core

\* Every state of the process has the types, and the end of each child in one place.
LEMMA PWInvHolds == Spec => []PWInv
<1>1. Init => PWInv
  BY InitTyped, InitCore DEF PWInv
<1>2. PWInv /\ [Next]_vars => PWInv'
  BY StepTyped, StepCore DEF PWInv
<1> QED
  BY <1>1, <1>2, PTL DEF Spec

\* The end of a child that was reaped is in one place: the wait thread has it, it is
\* once in the queue, one caller was given it, or it was dropped (waitAllocInsert and
\* the queue of __libc_Back_processWait), for any number of threads and children.
THEOREM ToldOnceHolds == Spec => []ToldOnce
<1>1. PWInv => ToldOnce
  <2> SUFFICES ASSUME PWInv PROVE ToldOnce
    OBVIOUS
  <2>1. TypeOK
    <3>1. \A i \in 1 .. Len(fifo) : fifo[i] \in Infos
      BY DEF PWInv, Typed, Types
    <3> QED
      BY <3>1 DEF PWInv, Typed, Types, OtherTypes, TypeOK
  <2>2. ASSUME NEW c \in Children, child[c] = "reaped", ghevWait # "closed"
        PROVE  IF InHand(c) THEN Queued(c) = {} /\ collected[c] = 0 /\ c \notin dropped
               ELSE Cardinality(Queued(c)) + collected[c] + (IF c \in dropped THEN 1 ELSE 0) = 1
    <3>1. Told(c)
      BY DEF PWInv, Core
    <3>2. CASE InHand(c)
      BY <3>1, <3>2 DEF Told, Arrived
    <3>3. CASE ~InHand(c)
      <4>1. Arrived(c)
        BY <2>2, <3>1, <3>3 DEF Told
      <4>2. CASE Queued(c) = {}
        BY <3>1, <3>3, <4>1, <4>2, FS_EmptySet DEF Told, Arrived
      <4>3. CASE Queued(c) # {}
        <5>1. PICK i : Queued(c) = {i}
          BY <3>1, <4>3 DEF Told
        <5>2. Cardinality(Queued(c)) = 1
          BY <5>1, FS_Singleton
        <5> QED
          BY <3>1, <3>3, <4>3, <5>2 DEF Told
      <4> QED
        BY <4>2, <4>3
    <3> QED
      BY <3>2, <3>3
  <2> QED
    BY <2>1, <2>2 DEF ToldOnce
<1> QED
  BY <1>1, PWInvHolds, PTL

\* When SIGCHLD is raised for the end of a child, a wait in the handler finds it,
\* unless it was taken already or not queued (b_processWait.c, the order of
\* waitAllocInsert and the signal).
THEOREM HandlerFindsHolds == Spec => []HandlerFinds
<1>1. PWInv => HandlerFinds
  BY DEF PWInv, Typed, Types, Infos, Core, Told, Arrived, HandlerFinds
<1> QED
  BY <1>1, PWInvHolds, PTL

\* After a fork the new process is told nothing of the children of its parent
\* (processWaitForkChildHook).
THEOREM ForgetsParentHolds == Spec => []ForgetsParent
<1>1. PWInv => ForgetsParent
  <2> SUFFICES ASSUME PWInv, NEW c \in Children, child[c] = "foreign"
               PROVE  c \notin known /\ ~InHand(c) /\ \A i \in 1 .. Len(fifo) : fifo[i].pid # c
    BY DEF ForgetsParent
  <2>1. Listed(c)
    BY DEF PWInv, Core
  <2> QED
    BY <2>1 DEF Listed, Started
<1> QED
  BY <1>1, PWInvHolds, PTL

\* A caller leaves the loop with ECHILD only where it has found no status and no
\* child on the list.
LEMMA OnlyExamineDenies ==
    ASSUME Typed, [Next]_vars, NEW t \in Threads,
           result'[t].rc = "ECHILD", pc[t] = "examine", pc'[t] = "idle"
    PROVE  Found(arg[t]) = {} /\ NoneLeft(arg[t])
<1> USE DEF Typed, Types
<1>1. CASE UNCHANGED vars
  BY <1>1 DEF vars, callers
<1>2. ASSUME NEW c \in Children, Die(c) PROVE FALSE
  BY <1>2 DEF Die, callers
<1>3. ASSUME NEW u \in Threads, NEW c \in Children, Exec(u, c) PROVE FALSE
  BY <1>3 DEF Exec
<1>4. ASSUME NEW u \in Threads, NotifyExec(u) \/ Fork(u) PROVE FALSE
  BY <1>4 DEF NotifyExec, Fork
<1>5. ASSUME NEW u \in Threads, Examine(u) PROVE Found(arg[t]) = {} /\ NoneLeft(arg[t])
  <2>1. u = t
    BY <1>5 DEF Examine, Collect, Return
  <2>2. ~Collect(t)
    BY DEF Collect
  <2>3. ASSUME NEW rc, Return(t, rc) PROVE rc = "ECHILD"
    BY <2>3 DEF Return
  <2>4. pc' # [pc EXCEPT ![t] = "wait"]
    OBVIOUS
  <2> QED
    BY <1>5, <2>1, <2>2, <2>3, <2>4 DEF Examine
<1>6. ASSUME NEW u \in Threads, WaitEvent(u) \/ TimeOut(u) \/ Interrupt(u) PROVE FALSE
  BY <1>6 DEF WaitEvent, TimeOut, Interrupt, WakeUp, Return
<1>7. ASSUME NEW u \in Threads, MutexInterrupted(u) PROVE FALSE
  BY <1>7 DEF MutexInterrupted, Return
<1>8. ASSUME NEW u \in Threads, NEW r \in Requests, ProcessWait(u, r) PROVE FALSE
  BY <1>8 DEF ProcessWait
<1>9. ASSUME NEW label \in {"posted", "closed"}, Wake(label) \/ UNCHANGED <<ghevWait, pc, how>>
      PROVE  FALSE
  BY <1>9, WakeTypes
<1>10. ASSUME NEW c \in Children, NEW code \in {"stopped", "continued"}, NotifyChild(c, code)
       PROVE  FALSE
  BY <1>9, <1>10 DEF NotifyChild, PostWait
<1>11. ASSUME WaitThread PROVE FALSE
  <2>1. ASSUME Record \/ End PROVE FALSE
    BY <1>9, <2>1 DEF Record, End, PostWait
  <2> QED
    BY <1>11, <2>1 DEF WaitThread, WaitLoop, Reap, NoChild, Birth, Insert, InsertNode, Raise, callers
<1>12. ASSUME NotifyNoWait \/ StartExit \/ NotifyTerm PROVE FALSE
  BY <1>9, <1>12 DEF NotifyNoWait, StartExit, NotifyTerm, callers
<1> QED
  BY <1>1, <1>2, <1>3, <1>4, <1>5, <1>6, <1>7, <1>8, <1>10, <1>11, <1>12 DEF Next, Caller

\* A wait by pid or for any child does not answer ECHILD while the end of such a child
\* is still to come: a child leaves the list in the step that brings its end into the
\* queue (waitAllocInsert), and the caller looks at both under the mutex.
THEOREM NoFalseEchildHolds == Spec => NoFalseEchild
<1> DEFINE Denied(t) ==
             /\ result'[t].rc = "ECHILD" /\ pc[t] = "examine" /\ pc'[t] = "idle"
             /\ "exited" \in arg[t].want
           Right(t) == \/ arg[t].by = "pid" /\ ~Owed(arg[t].who)
                       \/ arg[t].by = "all" /\ ~\E c \in Children : Owed(c)
                       \/ arg[t].by = "pgid"
<1>1. PWInv /\ [Next]_vars => \A t \in Threads : Denied(t) => Right(t)
  <2> SUFFICES ASSUME PWInv, [Next]_vars, NEW t \in Threads, Denied(t) PROVE Right(t)
    OBVIOUS
  <2>1. Found(arg[t]) = {} /\ NoneLeft(arg[t])
    BY OnlyExamineDenies DEF PWInv
  <2>2. ASSUME NEW c \in Children, Owed(c), c \notin known
        PROVE  \E i \in 1 .. Len(fifo) : fifo[i].pid = c /\ fifo[i].code \in arg[t].want
    <3>1. Arrived(c)
      BY <2>2 DEF PWInv, Core, Listed, Owed
    <3>2. Queued(c) # {}
      BY <2>2, <3>1 DEF Arrived, Owed
    <3> QED
      BY <3>2 DEF Queued
  <2>3. \A i \in 1 .. Len(fifo) : ~Matches(arg[t], fifo[i])
    BY <2>1 DEF Found
  <2>4. CASE arg[t].by = "all" /\ known = {}
    BY <2>2, <2>3, <2>4 DEF Matches
  <2>5. CASE arg[t].by = "pid" /\ arg[t].who \notin known
    <3>1. Owed(arg[t].who) => arg[t].who \in Children
      BY DEF PWInv, Typed, Types, Owed
    <3> QED
      BY <2>2, <2>3, <2>5, <3>1 DEF Matches
  <2> QED
    BY <2>1, <2>4, <2>5 DEF NoneLeft
<1>2. PWInv /\ [Next]_vars => [\A t \in Threads : Denied(t) => Right(t)]_vars
  BY <1>1
<1> QED
  BY <1>2, PWInvHolds, PTL DEF Spec, NoFalseEchild
=============================================================================
