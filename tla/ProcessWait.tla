---------------------------- MODULE ProcessWait ----------------------------
(***************************************************************************)
(* How a process learns of its children: lib/sys/b_processWait.c.  A thread *)
(* of its own reaps the children from OS/2 and queues their status; the     *)
(* callers of __libc_Back_processWait look through the queue and sleep on   *)
(* an event until there is something for them.                              *)
(*                                                                          *)
(* What runs under gmtxWait is one action; waitAllocInsert lets go of it to *)
(* allocate a node, so the wait thread's part is two.  The rest is read and *)
(* written without it: gfNoWaitStatus, gfTerminate, gtidThread, the events. *)
(* Node addresses, times and user ids are left out, as is the status word:  *)
(* a status is the child, its process group and the kind of event.          *)
(*                                                                          *)
(* External: the children, DosWaitChild, the event semaphores (a post       *)
(* readies all waiting threads and is remembered until a reset), signals,   *)
(* and the SPM, which knows the group of a child that uses this library.    *)
(***************************************************************************)
EXTENDS Integers, Sequences, FiniteSets, SequencesExt

CONSTANTS
    Threads,        \* threads that spawn and wait
    Children,       \* pids
    NonLibc,        \* children whose programs do not use this library
    Groups,
    Group,          \* process group of each child
    Requests,       \* calls of processWait: who, want, nohang, nowait
    PreAlloced,     \* nodes of gaWaitPreAlloced, 128 in the code
    MaxNoMem,       \* bound: allocations that fail
    MaxStops,       \* bound: SIGCHLD of children that stop or go on
    MaxCalls,       \* bound: calls of processWait
    MaxForks,       \* bound: forks followed into the child
    MaxToggles,     \* bound: changes of the SIGCHLD action
    MayExit         \* whether the process may end

ASSUME GroupAssumption ==
    Group \in [Children -> Groups] /\ NonLibc \subseteq Children /\ Children # {}
ASSUME BoundAssumption ==
    /\ PreAlloced \in Nat /\ MaxNoMem \in Nat /\ MaxStops \in Nat
    /\ MaxCalls \in Nat /\ MaxForks \in Nat /\ MaxToggles \in Nat /\ MayExit \in BOOLEAN

VARIABLES
    child,          \* unborn, running, dead, reaped; or foreign, another process's
    known,          \* gpChildrenHead: the known children
    gcChildren,
    spare,          \* length of gpChildrenFree
    fifo,           \* gpWaitHead: the queued status
    gcWaitFree,
    free,           \* length of the list gpWaitFree
    giWaitPreAlloced,
    gfNoWaitStatus,
    ghevWait, ghevBirth,    \* posted, reset or closed
    gtidThread,     \* whether there is one
    gfTerminate,
    wpc,            \* the wait thread
    winfo,          \* its Wait
    fInternalTerm,
    inExit,         \* fibIsInExit, pib_flstatus
    pc,             \* the callers
    arg,            \* their request, or the child they have started
    how,            \* what the last DosWaitEventSem returned
    result,         \* what the last processWait returned
    bounds,         \* use of the bounds
    registered,     \* history: children put on the list of known children
    collected,      \* history: ends of each child given to callers for good
    dropped         \* history: children whose end was not queued

shared == <<known, gcChildren, spare, fifo, gcWaitFree, free, giWaitPreAlloced, gfNoWaitStatus>>
events == <<ghevWait, ghevBirth>>
thread == <<gtidThread, gfTerminate, wpc, winfo, fInternalTerm>>
callers == <<pc, arg, how, result>>
history == <<registered, collected, dropped>>
vars == <<child, shared, events, thread, inExit, callers, bounds, history>>

Kinds == {"exited", "stopped", "continued"}
Infos == [pid : Children, pgrp : Groups, code : Kinds]
NoInfo == [pid |-> CHOOSE c \in Children : TRUE, pgrp |-> CHOOSE g \in Groups : TRUE,
           code |-> "exited"]
NoResult == [rc |-> "none", info |-> NoInfo]
Limits == [nomem |-> MaxNoMem, stops |-> MaxStops, calls |-> MaxCalls,
           forks |-> MaxForks, toggles |-> MaxToggles]

\* waitInit
Init ==
    /\ child = [c \in Children |-> "unborn"]
    /\ known = {} /\ gcChildren = 0 /\ spare = 0 /\ fifo = <<>>
    /\ gcWaitFree = 0 /\ free = 0 /\ giWaitPreAlloced = 0 /\ gfNoWaitStatus = FALSE
    /\ ghevWait = "posted" /\ ghevBirth = "reset"
    /\ gtidThread = FALSE /\ gfTerminate = FALSE
    /\ wpc = "none" /\ winfo = NoInfo /\ fInternalTerm = FALSE
    /\ inExit = FALSE
    /\ pc = [t \in Threads |-> "idle"]
    /\ arg = [t \in Threads |-> [who |-> NoInfo.pid]]
    /\ how = [t \in Threads |-> "first"]
    /\ result = [t \in Threads |-> NoResult]
    /\ bounds = [b \in DOMAIN Limits |-> 0]
    /\ registered = {} /\ collected = [c \in Children |-> 0] /\ dropped = {}

Use(b) == bounds[b] < Limits[b] /\ bounds' = [bounds EXCEPT ![b] = @ + 1]

\* DosPostEventSem(ghevWait): the threads blocked on it are readied.
Wake(label) ==
    /\ ghevWait' = label
    /\ pc' = [t \in Threads |-> IF pc[t] = "blocked" THEN "examine" ELSE pc[t]]
    /\ how' = [t \in Threads |-> IF pc[t] = "blocked" THEN "posted" ELSE how[t]]
PostWait ==
    IF ghevWait = "closed" THEN UNCHANGED <<ghevWait, pc, how>> ELSE Wake("posted")

\* External: a child ends.
Die(c) ==
    /\ child[c] = "running"
    /\ child' = [child EXCEPT ![c] = "dead"]
    /\ UNCHANGED <<shared, events, thread, inExit, callers, bounds, history>>

-----------------------------------------------------------------------------
(* Starting a child                                                         *)

\* DosExecPgm, under the exec mutex
Exec(t, c) ==
    /\ pc[t] = "idle" /\ \A u \in Threads : pc[u] # "exec"
    /\ child[c] = "unborn"
    /\ child' = [child EXCEPT ![c] = "running"]
    /\ pc' = [pc EXCEPT ![t] = "exec"]
    /\ arg' = [arg EXCEPT ![t] = [who |-> c]]
    /\ UNCHANGED <<shared, events, thread, inExit, how, result, bounds, history>>

\* __libc_back_processWaitNotifyExec.  Without memory for a node the child is
\* counted and not listed.
NotifyExec(t) ==
    /\ pc[t] = "exec"
    /\ spare' = IF spare > 0 THEN spare - 1 ELSE 0
    /\ \/ /\ known' = known \union {arg[t].who}
          /\ registered' = registered \union {arg[t].who}
          /\ UNCHANGED bounds
       \/ spare = 0 /\ Use("nomem") /\ UNCHANGED <<known, registered>>
    /\ gcChildren' = gcChildren + 1
    /\ ghevBirth' = IF ghevBirth = "closed" THEN "closed" ELSE "posted"
    /\ IF gtidThread THEN UNCHANGED <<gtidThread, gfTerminate, wpc>>
       ELSE gtidThread' = TRUE /\ gfTerminate' = FALSE /\ wpc' = "loop"
    /\ pc' = [pc EXCEPT ![t] = "idle"]
    /\ UNCHANGED <<child, fifo, gcWaitFree, free, giWaitPreAlloced, gfNoWaitStatus,
                   ghevWait, winfo, fInternalTerm, inExit, arg, how, result, collected, dropped>>

-----------------------------------------------------------------------------
(* The wait thread                                                          *)

WaitLoop ==
    /\ wpc = "loop" /\ ~gfTerminate
    /\ fInternalTerm' = inExit
    /\ wpc' = "call"
    /\ UNCHANGED <<child, shared, events, gtidThread, gfTerminate, winfo, inExit,
                   callers, bounds, history>>

\* Mutant of Reap: SIGCHLD is raised before the status is queued.
ReapRaises(c) ==
    /\ wpc = "call" /\ child[c] = "dead"
    /\ child' = [child EXCEPT ![c] = "reaped"]
    /\ winfo' = [pid |-> c, pgrp |-> Group[c], code |-> "exited"]
    /\ wpc' = "raise"
    /\ UNCHANGED <<shared, events, gtidThread, gfTerminate, fInternalTerm, inExit,
                   callers, bounds, history>>

\* waitChild: DosWaitChild has a child.  pgrp is not set for a child that the
\* SPM has no notification from.
Reap(c) ==
    /\ wpc = "call" /\ child[c] = "dead"
    /\ child' = [child EXCEPT ![c] = "reaped"]
    /\ \E g \in IF c \in NonLibc THEN Groups ELSE {Group[c]} :
         winfo' = [pid |-> c, pgrp |-> g, code |-> "exited"]
    /\ wpc' = "reaped"
    /\ UNCHANGED <<shared, events, gtidThread, gfTerminate, fInternalTerm, inExit,
                   callers, bounds, history>>

\* waitChild: there are no children, or none has ended and it must not wait.
NoChild ==
    /\ wpc = "call"
    /\ \A c \in Children : child[c] # "dead"
    /\ fInternalTerm \/ \A c \in Children : child[c] # "running"
    /\ wpc' = IF fInternalTerm \/ gfTerminate THEN "end"
              ELSE IF inExit THEN "loop" ELSE "birth"
    /\ UNCHANGED <<child, shared, events, gtidThread, gfTerminate, winfo, fInternalTerm,
                   inExit, callers, bounds, history>>

\* DosWaitEventSem(ghevBirth), which gives up after 5 s, and the reset
Birth ==
    /\ wpc = "birth"
    /\ ghevBirth' = IF ghevBirth = "closed" THEN "closed" ELSE "reset"
    /\ wpc' = "loop"
    /\ UNCHANGED <<child, shared, ghevWait, gtidThread, gfTerminate, winfo, fInternalTerm,
                   inExit, callers, bounds, history>>

\* A node from gpWaitFree or gaWaitPreAlloced: the queue with info added, or
\* as it is when there is none.
OwnNode(info) ==
    \/ /\ free > 0
       /\ free' = free - 1 /\ gcWaitFree' = gcWaitFree - 1
       /\ fifo' = Append(fifo, info)
       /\ UNCHANGED giWaitPreAlloced
    \/ /\ free = 0 /\ giWaitPreAlloced < PreAlloced
       /\ giWaitPreAlloced' = giWaitPreAlloced + 1
       /\ fifo' = Append(fifo, info)
       /\ UNCHANGED <<free, gcWaitFree>>
    \/ /\ free = 0 /\ giWaitPreAlloced = PreAlloced
       /\ UNCHANGED <<fifo, free, gcWaitFree, giWaitPreAlloced>>

\* The rest of the section: the child is struck off, the callers are woken.
Record ==
    /\ dropped' = IF fifo' = fifo THEN dropped \union {winfo.pid} ELSE dropped
    /\ known' = known \ {winfo.pid}
    /\ spare' = IF winfo.pid \in known THEN spare + 1 ELSE spare
    /\ gcChildren' = IF winfo.pid \in known /\ gcChildren > 0 THEN gcChildren - 1 ELSE gcChildren
    /\ PostWait
    /\ fInternalTerm' = (fInternalTerm \/ ghevWait = "closed")
    /\ wpc' = "raise"
    /\ UNCHANGED <<child, gfNoWaitStatus, ghevBirth, gtidThread, gfTerminate, winfo,
                   inExit, arg, result, registered, collected>>

\* Mutant of Insert: the child is struck off before the node is allocated.
InsertStrikesOff ==
    /\ wpc = "reaped"
    /\ wpc' = "alloc"
    /\ known' = known \ {winfo.pid}
    /\ UNCHANGED <<child, gcChildren, spare, fifo, gcWaitFree, free, giWaitPreAlloced,
                   gfNoWaitStatus, events, gtidThread, gfTerminate, winfo, fInternalTerm,
                   inExit, callers, bounds, history>>

\* The mutex is taken and, to allocate a node, let go of again.
Insert ==
    /\ wpc = "reaped"
    /\ \/ /\ gfNoWaitStatus
          /\ UNCHANGED <<fifo, free, gcWaitFree, giWaitPreAlloced>>
          /\ Record
       \/ /\ ~gfNoWaitStatus /\ gcWaitFree >= PreAlloced
          /\ OwnNode(winfo)
          /\ Record
       \/ /\ ~gfNoWaitStatus /\ gcWaitFree < PreAlloced
          /\ wpc' = "alloc"
          /\ UNCHANGED <<child, shared, events, gtidThread, gfTerminate, winfo, fInternalTerm,
                         inExit, callers, history>>
    /\ UNCHANGED bounds

\* The mutex is taken again, with the node or without.
InsertNode ==
    /\ wpc = "alloc"
    /\ \/ /\ fifo' = Append(fifo, winfo)
          /\ UNCHANGED <<free, gcWaitFree, giWaitPreAlloced, bounds>>
       \/ Use("nomem") /\ OwnNode(winfo)
    /\ Record

\* SIGCHLD is raised.
Raise ==
    /\ wpc = "raise"
    /\ wpc' = IF fInternalTerm THEN "end" ELSE "loop"
    /\ UNCHANGED <<child, shared, events, gtidThread, gfTerminate, winfo, fInternalTerm,
                   inExit, callers, bounds, history>>

\* The thread ends.
End ==
    /\ wpc = "end" \/ (wpc = "loop" /\ gfTerminate)
    /\ wpc' = "none"
    /\ gtidThread' = FALSE
    /\ IF ghevWait = "closed" THEN UNCHANGED <<ghevWait, pc, how>> ELSE Wake("closed")
    /\ UNCHANGED <<child, shared, ghevBirth, gfTerminate, winfo, fInternalTerm, inExit,
                   arg, result, bounds, history>>

-----------------------------------------------------------------------------
(* __libc_Back_processWait                                                  *)

ProcessWait(t, r) ==
    /\ pc[t] = "idle"
    /\ Use("calls")
    /\ pc' = [pc EXCEPT ![t] = "examine"]
    /\ arg' = [arg EXCEPT ![t] = r]
    /\ how' = [how EXCEPT ![t] = "first"]
    /\ result' = [result EXCEPT ![t] = NoResult]
    /\ UNCHANGED <<child, shared, events, thread, inExit, history>>

\* The status i of the queue is what r asks for.
Matches(r, info) ==
    /\ info.code \in r.want
    /\ \/ r.by = "all"
       \/ r.by = "pid" /\ info.pid = r.who
       \/ r.by = "pgid" /\ info.pgrp = r.who
Found(r) == {i \in 1..Len(fifo) : Matches(r, fifo[i])}
First(r) == CHOOSE i \in Found(r) : \A j \in Found(r) : i <= j

\* __libc_spmValidPGrp: a child that uses this library is alive in the group.
ValidPGrp(g) == \E c \in Children \ NonLibc : child[c] = "running" /\ Group[c] = g

\* There is nothing r could wait for.
NoneLeft(r) ==
    \/ r.by = "all" /\ gcChildren = 0 /\ known = {}
    \/ r.by = "pid" /\ r.who \notin known
    \/ r.by = "pgid" /\ ~ValidPGrp(r.who)

Return(t, rc) ==
    /\ pc' = [pc EXCEPT ![t] = "idle"]
    /\ result' = [result EXCEPT ![t] = [rc |-> rc, info |-> NoInfo]]

\* Mutant of Collect: the status is never unlinked.
CollectPeeks(t) ==
    LET info == fifo[First(arg[t])]
    IN  /\ pc' = [pc EXCEPT ![t] = "idle"]
        /\ result' = [result EXCEPT ![t] = [rc |-> "found", info |-> info]]
        /\ collected' = [collected EXCEPT ![info.pid] = @ + 1]
        /\ UNCHANGED <<fifo, free, gcWaitFree>>

\* The status is copied and, unless WNOWAIT, unlinked and its node freed.
Collect(t) ==
    LET r == arg[t]
        i == First(r)
    IN  /\ pc' = [pc EXCEPT ![t] = "idle"]
        /\ result' = [result EXCEPT ![t] = [rc |-> "found", info |-> fifo[i]]]
        /\ IF r.nowait THEN UNCHANGED <<fifo, free, gcWaitFree, collected>>
           ELSE /\ fifo' = RemoveAt(fifo, i)
                /\ free' = free + 1 /\ gcWaitFree' = gcWaitFree + 1
                /\ collected' = IF fifo[i].code = "exited"
                                THEN [collected EXCEPT ![fifo[i].pid] = @ + 1] ELSE collected

\* One pass of the loop, up to the release of the mutex and what follows it
Examine(t) ==
    /\ pc[t] = "examine"
    /\ ghevWait' = IF how[t] = "posted" /\ ghevWait = "posted" THEN "reset" ELSE ghevWait
    /\ \/ Found(arg[t]) # {} /\ Collect(t)
       \/ /\ Found(arg[t]) = {}
          /\ \/ NoneLeft(arg[t]) /\ Return(t, "ECHILD")
             \/ /\ ~NoneLeft(arg[t])
                /\ \/ arg[t].nohang /\ Return(t, "nothing")
                   \/ ~arg[t].nohang /\ how[t] = "interrupt" /\ Return(t, "EINTR")
                   \/ /\ ~arg[t].nohang /\ how[t] # "interrupt"
                      /\ IF how[t] # "first" /\ inExit THEN Return(t, "EDEADLK")
                         ELSE pc' = [pc EXCEPT ![t] = "wait"] /\ UNCHANGED result
          /\ UNCHANGED <<fifo, free, gcWaitFree, collected>>
    /\ UNCHANGED <<child, known, gcChildren, spare, giWaitPreAlloced, gfNoWaitStatus, ghevBirth,
                   thread, inExit, arg, how, bounds, registered, dropped>>

\* Mutant of WaitEvent: the error of a closed semaphore is taken for a
\* time-out.
WaitEventRetries(t) ==
    /\ pc[t] = "wait"
    /\ pc' = [pc EXCEPT ![t] = IF ghevWait = "reset" THEN "blocked" ELSE "examine"]
    /\ how' = [how EXCEPT ![t] = IF ghevWait = "posted" THEN "posted" ELSE "timeout"]
    /\ UNCHANGED <<child, shared, events, thread, inExit, arg, result, bounds, history>>

\* DosWaitEventSem(ghevWait)
WaitEvent(t) ==
    /\ pc[t] = "wait"
    /\ \/ ghevWait = "closed" /\ Return(t, "EDEADLK") /\ UNCHANGED how
       \/ /\ ghevWait = "posted"
          /\ pc' = [pc EXCEPT ![t] = "examine"]
          /\ how' = [how EXCEPT ![t] = "posted"]
          /\ UNCHANGED result
       \/ /\ ghevWait = "reset"
          /\ pc' = [pc EXCEPT ![t] = "blocked"]
          /\ UNCHANGED <<how, result>>
    /\ UNCHANGED <<child, shared, events, thread, inExit, arg, bounds, history>>

\* Its 30 s are over, or a signal comes.
WakeUp(t, why) ==
    /\ pc[t] = "blocked"
    /\ pc' = [pc EXCEPT ![t] = "examine"]
    /\ how' = [how EXCEPT ![t] = why]
    /\ UNCHANGED <<child, shared, events, thread, inExit, arg, result, bounds, history>>
\* Mutant of TimeOut: the wait is indefinite.
TimeOutNever(t) == FALSE /\ WakeUp(t, "timeout")
TimeOut(t) == WakeUp(t, "timeout")
Interrupt(t) == WakeUp(t, "interrupt")

\* A signal comes while the caller waits for the mutex, which it does not then
\* get.
MutexInterrupted(t) ==
    /\ pc[t] = "examine"
    /\ Return(t, "EINTR")
    /\ UNCHANGED <<child, shared, events, thread, inExit, arg, how, bounds, history>>

-----------------------------------------------------------------------------
(* Notifications                                                            *)

\* __libc_back_processWaitNotifyChild: a running child has stopped or goes on.
NotifyChild(c, code) ==
    /\ child[c] = "running" /\ c \notin NonLibc
    /\ Use("stops")
    /\ OwnNode([pid |-> c, pgrp |-> Group[c], code |-> code])
    /\ IF fifo' = fifo THEN UNCHANGED <<ghevWait, pc, how>> ELSE PostWait
    /\ UNCHANGED <<child, known, gcChildren, spare, gfNoWaitStatus, ghevBirth, thread, inExit,
                   arg, result, history>>

\* __libc_back_processWaitNotifyNoWait
NotifyNoWait ==
    /\ Use("toggles")
    /\ gfNoWaitStatus' = ~gfNoWaitStatus
    /\ UNCHANGED <<child, known, gcChildren, spare, fifo, gcWaitFree, free, giWaitPreAlloced,
                   events, thread, inExit, callers, history>>

StartExit ==
    /\ MayExit /\ ~inExit
    /\ inExit' = TRUE
    /\ UNCHANGED <<child, shared, events, thread, callers, bounds, history>>

\* __libc_back_processWaitNotifyTerm
NotifyTerm ==
    /\ MayExit
    /\ gfTerminate' = TRUE
    /\ gtidThread' = FALSE
    /\ wpc' = IF gtidThread THEN "none" ELSE wpc
    /\ ghevBirth' = "closed"
    /\ IF ghevWait = "closed" THEN UNCHANGED <<ghevWait, pc, how>> ELSE Wake("closed")
    /\ UNCHANGED <<child, shared, winfo, fInternalTerm, inExit, arg, result, bounds, history>>

\* Mutant of Fork: the queue of the parent is kept.
ForkKeeps(t) ==
    /\ pc[t] = "idle" /\ \A u \in Threads : pc[u] # "exec"
    /\ Use("forks")
    /\ known' = {} /\ gcChildren' = 0 /\ gtidThread' = FALSE /\ wpc' = "none"
    /\ child' = [c \in Children |-> IF child[c] = "unborn" THEN "unborn" ELSE "foreign"]
    /\ pc' = [u \in Threads |-> IF u = t THEN "idle" ELSE "gone"]
    /\ registered' = {} /\ dropped' = {} /\ collected' = [c \in Children |-> 0]
    /\ UNCHANGED <<spare, fifo, free, gcWaitFree, giWaitPreAlloced, gfNoWaitStatus, events,
                   gfTerminate, winfo, fInternalTerm, inExit, arg, how, result>>

\* fork(), called by t: from here on the process is the child, in which t is the
\* only thread (processWaitForkChildHook).
Fork(t) ==
    /\ pc[t] = "idle" /\ \A u \in Threads : pc[u] # "exec"
    /\ Use("forks")
    /\ fifo' = <<>>
    /\ free' = IF fifo = <<>> THEN free ELSE 0
    /\ known' = {} /\ gcChildren' = 0
    /\ spare' = IF known = {} THEN spare ELSE spare + 1
    /\ gtidThread' = FALSE /\ gfTerminate' = FALSE /\ wpc' = "none"
    /\ child' = [c \in Children |-> IF child[c] = "unborn" THEN "unborn" ELSE "foreign"]
    /\ pc' = [u \in Threads |-> IF u = t THEN "idle" ELSE "gone"]
    /\ registered' = {} /\ dropped' = {} /\ collected' = [c \in Children |-> 0]
    /\ winfo' = NoInfo /\ fInternalTerm' = FALSE
    /\ how' = [u \in Threads |-> "first"]
    /\ UNCHANGED <<gcWaitFree, giWaitPreAlloced, gfNoWaitStatus, events, inExit, arg, result>>

-----------------------------------------------------------------------------
WaitThread == WaitLoop \/ (\E c \in Children : Reap(c)) \/ NoChild \/ Birth
              \/ Insert \/ InsertNode \/ Raise \/ End
Caller(t) == Examine(t) \/ WaitEvent(t)

Next ==
    \/ \E c \in Children : Die(c)
    \/ \E t \in Threads, c \in Children : Exec(t, c)
    \/ \E t \in Threads : NotifyExec(t) \/ Caller(t) \/ TimeOut(t) \/ Interrupt(t)
                          \/ MutexInterrupted(t) \/ Fork(t)
    \/ \E t \in Threads, r \in Requests : ProcessWait(t, r)
    \/ \E c \in Children, code \in {"stopped", "continued"} : NotifyChild(c, code)
    \/ WaitThread
    \/ NotifyNoWait \/ StartExit \/ NotifyTerm

Spec == Init /\ [][Next]_vars

\* Fairness: the wait thread and the callers run on, DosWaitEventSem ends after
\* its 30 s, and a thread that has started a child registers it.  No child has
\* to end and no signal has to come.
FairSpec ==
    /\ Spec
    /\ WF_vars(WaitThread)
    /\ \A t \in Threads : WF_vars(Caller(t)) /\ WF_vars(TimeOut(t)) /\ WF_vars(NotifyExec(t))

-----------------------------------------------------------------------------
TypeOK ==
    /\ child \in [Children -> {"unborn", "running", "dead", "reaped", "foreign"}]
    /\ known \subseteq Children /\ gcChildren \in Nat /\ spare \in Nat
    /\ \A i \in 1..Len(fifo) : fifo[i] \in Infos
    /\ gcWaitFree \in Nat /\ free \in Nat /\ giWaitPreAlloced \in 0..PreAlloced
    /\ gfNoWaitStatus \in BOOLEAN /\ gtidThread \in BOOLEAN /\ gfTerminate \in BOOLEAN
    /\ ghevWait \in {"posted", "reset", "closed"} /\ ghevBirth \in {"posted", "reset", "closed"}
    /\ wpc \in {"none", "loop", "call", "reaped", "alloc", "raise", "birth", "end"}
    /\ winfo \in Infos /\ fInternalTerm \in BOOLEAN /\ inExit \in BOOLEAN
    /\ pc \in [Threads -> {"idle", "exec", "examine", "wait", "blocked", "gone"}]
    /\ how \in [Threads -> {"first", "posted", "timeout", "interrupt"}]

\* The ends of c in the queue
Queued(c) == {i \in 1..Len(fifo) : fifo[i].pid = c /\ fifo[i].code = "exited"}

\* The wait thread has reaped c and not recorded it yet.
InHand(c) == wpc \in {"reaped", "alloc"} /\ winfo.pid = c

\* No end of a child is lost or told twice: until the process itself ends, what
\* the wait thread has reaped is in its hands, once in the queue, given to one
\* caller, or was not wanted or without a node (b_processWait.c:343-354, 586-629,
\* 918-952).  The mutex is let go of between the reaping and the queue.  The queue
\* and the lists have their types.
ToldOnce ==
    /\ TypeOK
    /\ \A c \in Children : child[c] = "reaped" /\ ghevWait # "closed" =>
        IF InHand(c) THEN Queued(c) = {} /\ collected[c] = 0 /\ c \notin dropped
        ELSE Cardinality(Queued(c)) + collected[c] + (IF c \in dropped THEN 1 ELSE 0) = 1

\* "It's important to raise the signal *after* we've added WAITINFO to the list
\* of zombies to guarantee that a wait[pid] call in a SIGCHLD handler always
\* succeeds with this child's pid" (b_processWait.c:398-399): when SIGCHLD is
\* raised the status is in the queue, unless it was taken or not queued at all.
HandlerFinds ==
    wpc = "raise" =>
        \/ Queued(winfo.pid) # {} \/ collected[winfo.pid] = 1 \/ winfo.pid \in dropped

\* A caller still has the end of c to come.
Owed(c) == c \in registered /\ collected[c] = 0 /\ c \notin dropped

\* A wait by pid or for any child does not answer ECHILD while there is a child
\* it should wait for: the list of known children and the queue are never both
\* without it (b_processWait.c:353-383, 961-993).
NoFalseEchild ==
    [][\A t \in Threads :
         /\ result'[t].rc = "ECHILD" /\ pc[t] = "examine" /\ pc'[t] = "idle"
         /\ "exited" \in arg[t].want
         => \/ arg[t].by = "pid" /\ ~Owed(arg[t].who)
            \/ arg[t].by = "all" /\ ~\E c \in Children : Owed(c)
            \/ arg[t].by = "pgid"]_vars

\* The child of a fork is told nothing of the children of its parent: neither
\* the queue nor the list of known children has one, and no thread is about to
\* add one (b_processWait.c:1084-1113).
ForgetsParent ==
    \A c \in Children : child[c] = "foreign" =>
        c \notin known /\ ~InHand(c) /\ \A i \in 1..Len(fifo) : fifo[i].pid # c

\* The end of a child reaches the caller that waits for it, although another
\* caller may reset the event before this one is blocked on it: it returns, or
\* another one was given the status (b_processWait.c:344-395, 1032-1051).
EndReported ==
    \A t \in Threads, c \in Children :
        (/\ pc[t] \in {"examine", "wait", "blocked"} /\ arg[t].by = "pid" /\ arg[t].who = c
         /\ "exited" \in arg[t].want /\ child[c] = "dead" /\ c \in registered)
            ~> (pc[t] \in {"idle", "gone"} \/ collected[c] = 1 \/ c \in dropped)

\* A process that ends does not leave a thread in processWait: once the events
\* are closed every caller returns (b_processWait.c:196-223, 1032-1039).
TermFreesWaiters ==
    \A t \in Threads :
        ghevWait = "closed" /\ pc[t] \in {"examine", "wait", "blocked"} ~> pc[t] \in {"idle", "gone"}

\* "It's enough to know that there are children around" (b_processWait.c:964),
\* without any "ECHILD is the correct reply" (717): a wait for any child of a
\* process that has none left, and no status either, returns.
ChildlessWaitReturns ==
    \A t \in Threads :
        (/\ pc[t] \in {"examine", "wait", "blocked"} /\ arg[t].by = "all"
         /\ fifo = <<>> /\ \A c \in Children : child[c] \in {"unborn", "reaped"} /\ ~InHand(c)
         /\ \A u \in Threads : pc[u] # "exec")
            ~> (pc[t] \in {"idle", "gone"} \/ \E u \in Threads : pc[u] = "exec")
=============================================================================
