------------------------------ MODULE SharedPM ------------------------------
(***************************************************************************)
(* Shared process management, lib/sys/sharedpm.c: the process blocks all    *)
(* processes that use the library share, and the steps of spawn             *)
(* (sys/__spawnve.c) and fork (sys/libcfork.c) that use them.  A block is   *)
(* made as an embryo by the parent, becomes the block of the child when     *)
(* the child registers, and a zombie when the child ends while others have  *)
(* references.  Every operation runs under the SPM mutex and is one action; *)
(* the steps of a spawn interleave with everything else.                    *)
(* Process ids are not used again; a child that is still loading registers  *)
(* before its embryo is old enough to be reaped, a fork does not time out   *)
(* while its child loads, and a process that gets no block leaves the       *)
(* shared memory alone.  When memory is exhausted a zombie is used again,   *)
(* whatever references it has (sharedpm.c:3088-3105).  If a spawn has one,  *)
(* two processes work on the block from then on: the specification ends     *)
(* there (robbed).                                                          *)
(***************************************************************************)
EXTENDS Integers, FiniteSets, SequencesExt

CONSTANTS Procs,        \* processes, and process ids
          Root,         \* the process that is there at first
          Blocks,       \* room for process blocks in the shared memory
          None,         \* NULL, and the process id -1
          MaxFails,     \* bound: spawns for which DosExecPgm or spmAllocChildNotify fails
          MaxQueries    \* bound: calls of __libc_spmQueryProcess

ASSUME SPMAssumption ==
    /\ Root \in Procs /\ None \notin Procs /\ None \notin Blocks
    /\ Blocks # {} /\ MaxFails \in Nat /\ MaxQueries \in Nat

VARIABLES
    spm,       \* the shared memory: the blocks and the lists whose order matters
    os,        \* what the system knows of each process
    parent,    \* the process that started it
    self,      \* gpSPMSelf
    step,      \* where each process is in a spawn or a fork
    held,      \* pEmbryo, pProcessChild: the block the spawn has a reference to
    child,     \* the process id DosExecPgm returned
    libc,      \* the processes that have registered
    silent,    \* the ones that have no structure for the note of their end
    asked,     \* the children the parent has asked __libc_spmQueryChildNotification for
    told,      \* the ones it got a notification for
    fails, queries,
    robbed     \* a zombie that a spawn has a reference to was given to a new process

procVars == <<os, parent, self, step, held, child, libc, silent>>
spmVars  == <<spm, procVars, asked, told, fails, queries, robbed>>

\* A block: st is enmState, refs cReferences, fork whether pvForkHandle is set, term
\* whether pTerm is there and notes the list at pChildNotifyHead.  For the properties,
\* "for" is the process the embryo was made for.
Block == [st : {"free", "embryo", "alive", "zombie"}, refs : Nat,
          pid : Procs \union {None}, parent : Procs \union {None}, fork : BOOLEAN,
          term : BOOLEAN, notes : Seq(Procs), for : Procs \union {None}]

Free == [st |-> "free", refs |-> 0, pid |-> None, parent |-> None, fork |-> FALSE,
         term |-> FALSE, notes |-> <<>>, for |-> None]

\* The library is in use in one process.
Init ==
    LET b == CHOOSE x \in Blocks : TRUE IN
        /\ spm = [blk |-> [x \in Blocks |->
                             IF x = b THEN [Free EXCEPT !.st = "alive", !.refs = 1,
                                                        !.pid = Root, !.term = TRUE]
                                      ELSE Free],
                  embryos |-> <<>>, zombies |-> <<>>]
        /\ os = [p \in Procs |-> IF p = Root THEN "run" ELSE "none"]
        /\ parent = [p \in Procs |-> None]
        /\ self = [p \in Procs |-> IF p = Root THEN b ELSE None]
        /\ step = [p \in Procs |-> "idle"]
        /\ held = [p \in Procs |-> None]
        /\ child = [p \in Procs |-> None]
        /\ libc = {Root} /\ silent = {}
        /\ asked = {} /\ told = {} /\ fails = 0 /\ queries = 0 /\ robbed = FALSE

-----------------------------------------------------------------------------
(* The internal workers.  S is the shared memory before, the value the one  *)
(* after.                                                                   *)

\* The blocks of a list that are in bs, in their order.
Among(list, bs) ==
    LET F[i \in 0 .. Len(list)] ==
          IF i = 0 THEN <<>>
          ELSE IF list[i] \in bs THEN Append(F[i - 1], list[i]) ELSE F[i - 1]
    IN F[Len(list)]

Without(list, bs) == Among(list, Range(list) \ bs)

\* Mutant of FreeProcess: the block is not taken off the list of embryos.
FreeProcessStaysListed(S, bs) ==
    [blk |-> [b \in Blocks |-> IF b \in bs THEN Free ELSE S.blk[b]],
     embryos |-> S.embryos, zombies |-> Without(S.zombies, bs)]

\* spmFreeProcess, for each of the blocks bs.
FreeProcess(S, bs) ==
    [blk |-> [b \in Blocks |-> IF b \in bs THEN Free ELSE S.blk[b]],
     embryos |-> Without(S.embryos, bs), zombies |-> Without(S.zombies, bs)]

\* The embryos nobody refers to that may be old enough to be reaped.
Old(S) == {b \in Blocks : /\ S.blk[b].st = "embryo" /\ S.blk[b].refs = 0
                          /\ S.blk[b].for # None => os[S.blk[b].for] # "loading"}

\* spmAllocProcess: the shared memory and the block that is returned.  Which free block
\* it is makes no difference.  When there is none, spmAlloc reaps embryos; the memory of
\* those that are very old is used again.  Else younger ones may go too, but the
\* allocation is not tried again, and the oldest zombie is taken.
AllocProcess(S) ==
    LET free   == {b \in Blocks : S.blk[b].st = "free"}
        zombie == IF S.zombies = <<>> THEN None ELSE Last(S.zombies)
    IN IF free # {} THEN {[mem |-> S, blk |-> CHOOSE b \in free : TRUE]}
       ELSE UNION {{[mem |-> FreeProcess(S, old), blk |-> b] : b \in old \union {zombie}} :
                     old \in SUBSET Old(S)}

\* spmAllocChildNotify: the structure is there or not, and when memory is low spmAlloc
\* has reaped embryos.
AllocChildNotify(S) == [mem : {FreeProcess(S, old) : old \in SUBSET Old(S)}, made : BOOLEAN]

\* Mutant of ZombieOrFree: the block is freed whatever references there are.
ZombieOrFreeFrees(S, list) == FreeProcess(S, Range(list))

\* spmZombieOrFree, of one block of list after the other: a block goes with its last
\* reference, else to the head of the list of zombies.
ZombieOrFree(S, list) ==
    LET gone == {b \in Range(list) : S.blk[b].refs <= 1}
        T    == FreeProcess(S, Range(list))
    IN [T EXCEPT
          !.blk = [b \in Blocks |->
                     IF b \in Range(list) \ gone
                     THEN [S.blk[b] EXCEPT !.refs = @ - 1, !.st = "zombie", !.notes = <<>>]
                     ELSE @[b]],
          !.zombies = Reverse(Without(list, gone)) \o @]

\* __libc_spmRelease, of a block that is not the caller's own: an embryo stays, unless
\* it is that of a failed fork.
Release(S, b) ==
    LET B == [S.blk[b] EXCEPT !.refs = @ - 1]
    IN IF B.refs = 0 /\ (B.st # "embryo" \/ B.fork) THEN FreeProcess(S, {b})
       ELSE [S EXCEPT !.blk[b] = B]

\* The embryos of process p, and those that have the id of process c.
Unborn(S, p) == Among(S.embryos, {b \in Blocks : S.blk[b].parent = p})
Named(S, c)  == Among(S.embryos, {b \in Blocks : S.blk[b].pid = c})

-----------------------------------------------------------------------------
(* spawn and fork.  __libc_gmtxExec is held throughout: one at a time per   *)
(* process.                                                                 *)

Uses(p) == os[p] = "run" /\ self[p] # None

\* __libc_spmCreateEmbryo: reap what is old, then make a new block, unless memory is
\* exhausted.  The block may be without the structure for the note.
CreateEmbryo(p) ==
    /\ Uses(p) /\ step[p] = "idle"
    /\ \E old \in SUBSET {b \in Old(spm) : spm.blk[b].parent = p} :
       \E new \in AllocProcess(FreeProcess(spm, old)) :
         LET b == new.blk
         IN \/ /\ b = None
               /\ spm' = new.mem /\ UNCHANGED <<step, held, fails>>
            \/ /\ b # None
               /\ \E term \in AllocChildNotify(new.mem) :
                    LET S == term.mem
                    IN /\ spm' = [blk |-> [S.blk EXCEPT ![b] =
                                             [Free EXCEPT !.st = "embryo", !.refs = 1,
                                                          !.parent = p, !.term = term.made]],
                                  embryos |-> <<b>> \o S.embryos,
                                  zombies |-> Without(S.zombies, {b})]
                       /\ \/ term.made /\ UNCHANGED fails
                          \/ ~term.made /\ fails < MaxFails /\ fails' = fails + 1
               /\ held' = [held EXCEPT ![p] = b]
               /\ step' = [step EXCEPT ![p] = "embryo"]
    /\ UNCHANGED <<os, parent, self, child, libc, silent, asked, told, queries>>

\* forkParExec: the fork handle is put into the block, without the mutex.
SetForkHandle(p) ==
    /\ step[p] = "embryo" /\ ~spm.blk[held[p]].fork
    /\ spm' = [spm EXCEPT !.blk[held[p]].fork = TRUE]
    /\ UNCHANGED <<procVars, asked, told, fails, queries>>

\* DosExecPgm succeeds: process c exists.
Exec(p, c) ==
    /\ step[p] = "embryo" /\ os[c] = "none"
    /\ os' = [os EXCEPT ![c] = "loading"]
    /\ parent' = [parent EXCEPT ![c] = p]
    /\ child' = [child EXCEPT ![p] = c]
    /\ spm' = [spm EXCEPT !.blk[held[p]].for = c]
    /\ step' = [step EXCEPT ![p] = "started"]
    /\ UNCHANGED <<self, held, libc, silent, asked, told, fails, queries>>

\* Done with the block: it is released.
Finish(p) ==
    /\ spm' = Release(spm, held[p])
    /\ step' = [step EXCEPT ![p] = "idle"]
    /\ held' = [held EXCEPT ![p] = None]
    /\ child' = [child EXCEPT ![p] = None]
    /\ UNCHANGED <<os, parent, self, libc, silent, asked, told, queries>>

\* DosExecPgm fails.
ExecFails(p) ==
    step[p] = "embryo" /\ fails < MaxFails /\ fails' = fails + 1 /\ Finish(p)

\* The process id is put into the block of a spawn, without the mutex, if the child has
\* not done so.  A fork compares with a value that is never there.
SetPid(p) ==
    /\ step[p] = "started"
    /\ LET b == held[p]
       IN spm' = IF spm.blk[b].pid = None /\ ~spm.blk[b].fork
                 THEN [spm EXCEPT !.blk[b].pid = child[p]] ELSE spm
    /\ step' = [step EXCEPT ![p] = "named"]
    /\ UNCHANGED <<os, parent, self, held, child, libc, silent, asked, told, fails, queries>>

\* A spawn has waited for the child, and a fork gone on with it.
Done(p) ==
    /\ step[p] = "named"
    /\ spm.blk[held[p]].fork => os[child[p]] # "loading"
    /\ Finish(p) /\ UNCHANGED fails

-----------------------------------------------------------------------------
(* The child.                                                               *)

\* Mutant of MyEmbryo: the first embryo of the parent.
MyEmbryoFirst(c) ==
    LET mine == Unborn(spm, parent[c])
    IN IF mine # <<>> THEN Head(mine) ELSE None

\* The embryo process c takes: the one with its id, else the first one of its parent.
MyEmbryo(c) ==
    LET mine  == Unborn(spm, parent[c])
        named == Among(mine, Range(Named(spm, c)))
    IN IF named # <<>> THEN Head(named) ELSE IF mine # <<>> THEN Head(mine) ELSE None

\* What spmRegisterSelf makes of the shared memory, and the block it finds: the embryo,
\* or else a new one, or none when memory is exhausted.
Registered(c) ==
    LET e == MyEmbryo(c)
        NewBlock(t) == [Free EXCEPT !.st = "alive", !.refs = 1, !.pid = c, !.parent = parent[c],
                                  !.term = t, !.for = c]
        Made(new, term) ==
            [mem |-> [term.mem EXCEPT !.blk[new.blk] = NewBlock(term.made),
                                      !.zombies = Without(@, {new.blk})],
             blk |-> new.blk]
    IN IF e # None
       THEN {[mem |-> [spm EXCEPT !.blk[e].refs = @ + 1, !.blk[e].pid = c,
                                  !.blk[e].st = "alive", !.embryos = Without(@, {e})],
              blk |-> e]}
       ELSE UNION {IF new.blk = None THEN {new}
                   ELSE {Made(new, term) : term \in AllocChildNotify(new.mem)} :
                      new \in AllocProcess(spm)}

\* spmRegisterSelf, whose result is not looked at: without a block the process goes on
\* as one the library does not know.
RegisterSelf(c) ==
    /\ os[c] = "loading"
    /\ \E r \in Registered(c) :
         /\ spm' = r.mem
         /\ self' = [self EXCEPT ![c] = r.blk]
         /\ os' = [os EXCEPT ![c] = "run"]
         /\ libc' = IF r.blk = None THEN libc ELSE libc \union {c}
         /\ silent' = IF r.blk = None \/ r.mem.blk[r.blk].term THEN silent ELSE silent \union {c}
    /\ UNCHANGED <<parent, step, held, child, asked, told, fails, queries>>

\* The program does not use the library.  A forked child always does.
Foreign(c) ==
    /\ os[c] = "loading"
    /\ ~(step[parent[c]] # "idle" /\ child[parent[c]] = c /\ spm.blk[held[parent[c]]].fork)
    /\ os' = [os EXCEPT ![c] = "run"]
    /\ UNCHANGED <<spm, parent, self, step, held, child, libc, silent, asked, told, fails, queries>>

\* A process the library does not know of in this life ends.
DiesUnknown(c) ==
    /\ os[c] \in {"loading", "run"} /\ self[c] = None
    /\ os' = [os EXCEPT ![c] = "dead"]
    /\ UNCHANGED <<spm, parent, self, step, held, child, libc, silent, asked, told, fails, queries>>

-----------------------------------------------------------------------------
(* The end of a process, and its parent.                                    *)

\* The block of a living process.
AliveBlock(S, p) == {b \in Blocks : S.blk[b].st = "alive" /\ S.blk[b].pid = p}

\* Mutant of SendNote: the structure is not taken from the block, or not sent.
SendNoteToNobody(S, b) == [S EXCEPT !.blk[b].term = FALSE]

\* The termination note goes to the parent if that lives.
SendNote(S, b) ==
    LET to == AliveBlock(S, S.blk[b].parent)
        T  == [S EXCEPT !.blk[b].term = FALSE]
    IN IF S.blk[b].term /\ to # {}
       THEN [T EXCEPT !.blk[CHOOSE x \in to : TRUE].notes = Append(@, S.blk[b].pid)] ELSE T

\* spmCleanup, from the exit list: unborn children go, then the process itself.  A
\* reference the process had to a child that lives stays in the count, for ever.
Cleanup(p) ==
    /\ Uses(p)
    /\ spm' = ZombieOrFree(SendNote(ZombieOrFree(spm, Unborn(spm, p)), self[p]), <<self[p]>>)
    /\ os' = [os EXCEPT ![p] = "dead"]
    /\ self' = [self EXCEPT ![p] = None]
    /\ step' = [step EXCEPT ![p] = "idle"]
    /\ held' = [held EXCEPT ![p] = None]
    /\ child' = [child EXCEPT ![p] = None]
    /\ UNCHANGED <<parent, libc, silent, asked, told, fails, queries>>

\* __libc_spmQueryChildNotification, asked once for a child that has ended: its note,
\* or else its embryo is disposed of.
ChildNotification(p, c) ==
    /\ Uses(p) /\ parent[c] = p /\ os[c] = "dead" /\ c \notin asked
    /\ asked' = asked \union {c}
    /\ LET notes == spm.blk[self[p]].notes
           named == Named(spm, c)
       IN IF c \in Range(notes)
          THEN /\ spm' = [spm EXCEPT !.blk[self[p]].notes = RemoveFirst(@, c)]
               /\ told' = told \union {c}
          ELSE /\ spm' = IF named = <<>> THEN spm
                         ELSE LET e == Head(named)
                              IN IF spm.blk[e].refs = 0 THEN FreeProcess(spm, {e})
                                 ELSE ZombieOrFree([spm EXCEPT !.blk[e].refs = @ + 1], <<e>>)
               /\ told' = told
    /\ UNCHANGED <<procVars, fails, queries>>

\* __libc_spmQueryProcess: the search goes on after a block is found, so that only a
\* zombie is returned (and released by the caller); the others keep the reference.
QueryProcess(p, q) ==
    /\ Uses(p) /\ q # p
    /\ queries < MaxQueries /\ queries' = queries + 1
    /\ spm' = [spm EXCEPT !.blk = [b \in Blocks |->
                 LET B == spm.blk[b]
                 IN IF B.pid = q /\ B.st \in {"embryo", "alive"}
                    THEN [B EXCEPT !.refs = @ + 1] ELSE B]]
    /\ UNCHANGED <<procVars, asked, told, fails>>

\* No zombie a spawn has is taken for a new process.
Spared ==
    \A p \in Procs : held[p] # None /\ spm.blk[held[p]].st = "zombie" =>
        spm'.blk[held[p]].st \in {"zombie", "free"}

Step(p) ==
    \/ CreateEmbryo(p) \/ SetForkHandle(p)
    \/ ExecFails(p) \/ SetPid(p) \/ Done(p)
    \/ RegisterSelf(p) \/ Foreign(p) \/ DiesUnknown(p) \/ Cleanup(p)
    \/ \E c \in Procs : Exec(p, c) \/ ChildNotification(p, c) \/ QueryProcess(p, c)

Next == ~robbed /\ (\E p \in Procs : Step(p)) /\ robbed' = ~Spared

Spec == Init /\ [][Next]_spmVars

-----------------------------------------------------------------------------
(* Properties.                                                              *)

\* Type correctness of the process blocks and of what is known of the processes.
TypeOK ==
    /\ spm \in [blk : [Blocks -> Block], embryos : Seq(Blocks), zombies : Seq(Blocks)]
    /\ os \in [Procs -> {"none", "loading", "run", "dead"}]
    /\ parent \in [Procs -> Procs \union {None}]
    /\ {self, held} \subseteq [Procs -> Blocks \union {None}]
    /\ step \in [Procs -> {"idle", "embryo", "started", "named"}]
    /\ child \in [Procs -> Procs \union {None}]
    /\ silent \subseteq libc /\ libc \subseteq Procs /\ told \subseteq asked
    /\ fails \in 0 .. MaxFails /\ queries \in 0 .. MaxQueries /\ robbed \in BOOLEAN

\* sharedpm.c:2661, 2906, 2977: a block is in the list of its state, once, and a living
\* process has one block.  The type invariant is part of it.
ListsAgree ==
    ~robbed =>
        /\ TypeOK
        /\ \A list \in {spm.embryos, spm.zombies} : IsInjective(list)
        /\ Range(spm.embryos) = {b \in Blocks : spm.blk[b].st = "embryo"}
        /\ Range(spm.zombies) = {b \in Blocks : spm.blk[b].st = "zombie"}
        /\ \A p \in Procs : AliveBlock(spm, p) = IF Uses(p) THEN {self[p]} ELSE {}

\* How many have block b: as their own, or for a spawn.
Holders(b) == Cardinality({p \in Procs : self[p] = b}) + Cardinality({p \in Procs : held[p] = b})

\* sharedpm.c:971-1009, 2744-2778: nobody has a block without a reference of his own
\* in its count, whatever ends, asks and releases come in between, so that it is not
\* freed under its process or a spawn; a block with no reference is not kept, unless it
\* waits for a child.  Searches and deaths leave counts too high (776, 2724).
Counted ==
    ~robbed => \A b \in Blocks :
        LET B == spm.blk[b]
        IN /\ Holders(b) <= B.refs
           /\ B.refs = 0 => B.st \in {"free", "embryo"}
           /\ B.st = "free" => B.refs = 0

\* sharedpm.c:2703-2722, 227-268: a parent that lives is told of the end of each child
\* that used the library and had room for a note, when it asks, and once; of the
\* others never, nor of one that has not ended.
NoteReachesParent ==
    ~robbed => \A c \in libc :
        parent[c] # None /\ Uses(parent[c]) =>
            LET notes == spm.blk[self[parent[c]]].notes
            IN IF os[c] # "dead" \/ c \in silent
               THEN c \notin told /\ c \notin Range(notes)
               ELSE IF c \in asked THEN c \in told /\ c \notin Range(notes)
               ELSE \E i \in DOMAIN notes : \A j \in DOMAIN notes : notes[j] = c <=> j = i

\* sharedpm.c:2911-2921: a process registers with the embryo its parent made for it, or
\* a new block, never with one that was made for another child or left by a spawn
\* that failed, although it may do so before its parent has put its id there.
InheritsOwn ==
    ~robbed => \A c \in Procs \ {Root} : self[c] # None => spm.blk[self[c]].for = c

-----------------------------------------------------------------------------
(* What the code's own words say and the code does not do: TLC finds these  *)
(* violated (MCSharedPMZombie.cfg, MCSharedPMQuery.cfg).                    *)

\* sharedpm.h:371: "A process is not actually free till the reference count reaches 0."
\* The block a spawn or a fork holds stays the one of its child.  It does not when
\* memory is so low that the oldest zombie is taken, whatever references it has.
HeldIsKept ==
    \A p \in Procs : held[p] # None =>
        LET B == spm.blk[held[p]]
        IN /\ B.st # "free" /\ B.parent = p
           /\ child[p] # None => B.for = child[p] /\ B.pid \in {None, child[p]}

\* sharedpm.c:2663, 2908: an embryo has at most one reference.  A search leaves another
\* one there (sharedpm.c:776).
EmbryoRefs == \A b \in Blocks : spm.blk[b].st = "embryo" => spm.blk[b].refs <= 1
=============================================================================
