------------------------------ MODULE SysVSem ------------------------------
(***************************************************************************)
(* System V semaphores: lib/sys/sysv_sem.c.  The sets live in shared memory *)
(* in one pool of semaphores, each set with a mutex and an event (SafeEv),  *)
(* and a global mutex guards the undo structures and semget.                *)
(*                                                                          *)
(* What a call does while it holds a set's mutex is one action, except that *)
(* IPC_RMID, which changes the pool of all sets under the mutex of its own, *)
(* is four, and SETALL, which lets go of the mutex to read its argument, is *)
(* two.  semget takes the global mutex only and is two: SEM_ALLOC, which    *)
(* the calls on the set look at, and the rest.  The undo structures are     *)
(* changed under the global mutex; a call that needs it waits before the    *)
(* action in which it takes it.  Permissions, times, keys and the calls     *)
(* that only read (GETVAL, IPC_STAT...) are left out.  A process is one     *)
(* thread here.                                                             *)
(***************************************************************************)
EXTENDS SafeEv, Integers, Sequences

CONSTANTS
    SEMMNS, SEMMNU, SEMUME, SEMVMX, SEMAEM,     \* struct seminfo
    SeqMod,         \* sem_perm.seq is kept modulo this, 0x8000 in the code
    CountMod,       \* semncnt and semzcnt are u_short: 2^16 in the code
    Sizes,          \* nsems given to semget
    Vectors,        \* sops given to semop
    Values,         \* values given to SETVAL and SETALL
    Commands,       \* semctl commands used
    MaxGets,        \* bound: sets created in a slot
    MaxCalls        \* bound: semop and semctl calls

ASSUME LimitAssumption ==
    /\ SEMMNS \in Nat /\ SEMMNU \in Nat /\ SEMUME \in Nat /\ SEMVMX \in Nat
    /\ SEMAEM \in Nat /\ SeqMod \in Nat \ {0} /\ CountMod \in Nat \ {0}
    /\ MaxGets \in Nat /\ MaxCalls \in Nat
ASSUME EvsAssumption == Evs \subseteq Nat

\* struct sembuf
Sops == [num : Nat, op : Int, flg : SUBSET {"SEM_UNDO", "IPC_NOWAIT"}]
ASSUME InputAssumption ==
    /\ Sizes \subseteq Nat /\ Values \subseteq Nat
    /\ \A sops \in Vectors : sops \in Seq(Sops)

VARIABLES
    sema,       \* the sets: SEM_ALLOC (of a set that is made), seq, sem_nsems, sem_base
    sem,        \* the pool: semval, semncnt, semzcnt
    semtot,     \* semaphores of the pool in use
    undo,       \* un_ent of each process's sem_undo
    semu,       \* semu_list: the processes that have a sem_undo
    pc,
    req,        \* the call in progress: slot, handle, sops, waited count
    calls,
    panic,      \* "rollback"; "exit" and "astray", after which nothing is modelled
    inst,       \* history: sets created so far in each slot
    ledger,     \* history: what each semaphore should hold
    owed,       \* history: what each process should undo
    passed,     \* history: the semaphores SETVAL set while the process had undo entries
                \* for them and for others of the set
    foreign     \* history: a call changed a set its handle did not name

semVars == <<sema, sem, semtot, undo, semu>>
history == <<inst, ledger, owed, passed, foreign>>
vars == <<evVars, semVars, pc, req, calls, panic, history>>

Pool == 0..(SEMMNS - 1)
NoReq == [ix |-> CHOOSE e \in Evs : TRUE, k |-> 0, sops |-> <<>>, num |-> 0, cnt |-> "ncnt"]

\* seminit: shared memory starts zeroed.
Init ==
    /\ EvInit
    /\ sema = [e \in Evs |-> [alloc |-> FALSE, seq |-> 0, nsems |-> 0, base |-> 0]]
    /\ sem = [i \in Pool |-> [val |-> 0, ncnt |-> 0, zcnt |-> 0]]
    /\ semtot = 0
    /\ undo = [p \in Threads |-> <<>>]
    /\ semu = <<>>
    /\ pc = [p \in Threads |-> "idle"]
    /\ req = [p \in Threads |-> NoReq]
    /\ calls = 0
    /\ panic = "none"
    /\ inst = [e \in Evs |-> 0]
    /\ ledger = [e \in Evs |-> [i \in Pool |-> 0]]
    /\ owed = [p \in Threads |-> [e \in Evs |-> [i \in Pool |-> 0]]]
    /\ passed = [p \in Threads |-> [e \in Evs |-> {}]]
    /\ foreign = FALSE

Goto(p, label) == pc' = [pc EXCEPT ![p] = label]
Call == calls < MaxCalls /\ calls' = calls + 1

\* The handle of the k-th set created in a slot carries IPCID_TO_SEQ k % SeqMod.
Valid(ix, k) == sema[ix].alloc /\ sema[ix].seq = k % SeqMod

\* gpGlobals->mtx, which no action but the first of semget keeps
GlobalFree == \A q \in Threads : pc[q] # "semget"

\* semget has set SEM_ALLOC in the slot, and nothing else yet.
InTheMaking(ix) == \E q \in Threads : pc[q] = "semget" /\ req[q].ix = ix

\* A handle of the set that was removed is valid again.
Stale(ix, k) == InTheMaking(ix) /\ sema[ix].seq = k % SeqMod

-----------------------------------------------------------------------------
(* The undo structures                                                      *)

\* A structure taken off semu_list and freed
Unlink(list, i) == [j \in 1..(Len(list) - 1) |-> list[IF j < i THEN j ELSE j + 1]]

\* semu_alloc: a free structure, or the first empty one of another process.
SemuAlloc(p) ==
    LET empty == {i \in 1..Len(semu) : undo[semu[i]] = <<>>}
        first == CHOOSE i \in empty : \A j \in empty : i <= j
    IN  IF \E i \in 1..Len(semu) : semu[i] = p THEN [ok |-> TRUE, list |-> semu]
        ELSE IF Len(semu) < SEMMNU THEN [ok |-> TRUE, list |-> <<p>> \o semu]
        ELSE IF empty # {} THEN [ok |-> TRUE, list |-> <<p>> \o Unlink(semu, first)]
        ELSE [ok |-> FALSE, list |-> semu]

Entry(un, ix, num) == {i \in 1..Len(un) : un[i].id = ix /\ un[i].num = num}

\* The last entry takes the place of a deleted one.
Delete(un, i) ==
    [j \in 1..(Len(un) - 1) |-> IF j = i THEN un[Len(un)] ELSE un[j]]

\* semundo_adjust of one entry
Adjust(un, ix, num, adjval) ==
    IF Entry(un, ix, num) # {}
    THEN LET i == CHOOSE j \in Entry(un, ix, num) : TRUE
             v == un[i].adj + adjval
         IN  IF v > SEMAEM \/ v < -SEMAEM THEN [ok |-> FALSE, un |-> un]
             ELSE IF v = 0 THEN [ok |-> TRUE, un |-> Delete(un, i)]
             ELSE [ok |-> TRUE, un |-> [un EXCEPT ![i].adj = v]]
    ELSE IF adjval > SEMAEM \/ adjval < -SEMAEM \/ Len(un) = SEMUME
         THEN [ok |-> FALSE, un |-> un]
         ELSE [ok |-> TRUE,
               un |-> Append(un, [id |-> ix, num |-> num, adj |-> adjval])]

IsUndo(sop) == "SEM_UNDO" \in sop.flg /\ sop.op # 0

\* What of a vector is to be undone (for the history)
UndoPart(sops) ==
    [i \in 1..Len(sops) |-> IF IsUndo(sops[i]) THEN sops[i] ELSE [sops[i] EXCEPT !.op = 0]]

\* The undo loop of semop, operation by operation: at is the first one whose
\* adjustment failed.
AdjustAll(un0, ix, sops) ==
    LET f[i \in 0..Len(sops)] ==
            IF i = 0 THEN [un |-> un0, at |-> 0]
            ELSE IF f[i - 1].at # 0 \/ ~IsUndo(sops[i]) THEN f[i - 1]
            ELSE LET a == Adjust(f[i - 1].un, ix, sops[i].num, -sops[i].op)
                 IN  [un |-> a.un, at |-> IF a.ok THEN 0 ELSE i]
    IN  f

\* Mutant of Readjust: the adjustments are rolled back in the order applied.
ReadjustForward(un0, ix, sops, at) ==
    LET g[j \in 0..(at - 1)] ==
            IF j = 0 THEN [un |-> un0, ok |-> TRUE]
            ELSE IF ~IsUndo(sops[j]) THEN g[j - 1]
            ELSE LET a == Adjust(g[j - 1].un, ix, sops[j].num, sops[j].op)
                 IN  [un |-> a.un, ok |-> g[j - 1].ok /\ a.ok]
    IN  g

\* Its rollback, in the reverse order.
Readjust(un0, ix, sops, at) ==
    LET g[j \in 0..(at - 1)] ==
            IF j = 0 THEN [un |-> un0, ok |-> TRUE]
            ELSE IF ~IsUndo(sops[at - j]) THEN g[j - 1]
            ELSE LET a == Adjust(g[j - 1].un, ix, sops[at - j].num, sops[at - j].op)
                 IN  [un |-> a.un, ok |-> g[j - 1].ok /\ a.ok]
    IN  g

OfSet(un, ix) == {i \in 1..Len(un) : un[i].id = ix}
FirstOf(un, ix) == CHOOSE i \in OfSet(un, ix) : \A j \in OfSet(un, ix) : i <= j

\* The loop of semundo_clear for a whole set: the first n entries deleted
ClearAll(un, ix) ==
    LET f[n \in 0..Len(un)] ==
            IF n = 0 THEN un
            ELSE IF OfSet(f[n - 1], ix) = {} THEN f[n - 1]
            ELSE Delete(f[n - 1], FirstOf(f[n - 1], ix))
    IN  f

\* semundo_clear of one structure (num = -1: all semaphores of the set).  For a
\* single semaphore the loop ends at the first entry of the set, whichever
\* semaphore that is for.
Clear(un, ix, num) ==
    IF num = -1 THEN ClearAll(un, ix)[Len(un)]
    ELSE IF OfSet(un, ix) = {} \/ un[FirstOf(un, ix)].num # num THEN un
    ELSE Delete(un, FirstOf(un, ix))

-----------------------------------------------------------------------------
(* semop                                                                    *)

Vals(ix) == [n \in 0..(sema[ix].nsems - 1) |-> sem[sema[ix].base + n].val]

\* The values after each prefix of the operations, or of their inverses.
Applied(vals, sops, sign) ==
    LET f[i \in 0..Len(sops)] ==
            IF i = 0 THEN vals
            ELSE [f[i - 1] EXCEPT ![sops[i].num] = @ + sign * sops[i].op]
    IN  f

CanDo(val, op) ==
    \/ op < 0 /\ val + op >= 0
    \/ op = 0 /\ val = 0
    \/ op > 0 /\ val + op <= SEMVMX

\* The first operation that cannot be done, Len(sops) + 1 if all can.
Stop(vals, sops) ==
    LET stuck == {i \in 1..Len(sops) :
                    ~CanDo(Applied(vals, sops, 1)[i - 1][sops[i].num], sops[i].op)}
    IN  IF stuck = {} THEN Len(sops) + 1
        ELSE CHOOSE i \in stuck : \A j \in stuck : i <= j

\* Mutant of Rollback: the operation that failed is taken back too.
RollbackOne(vals, sops, stop) ==
    LET done == Applied(vals, sops, 1)[stop - 1]
        last == IF stop <= Len(sops) THEN stop ELSE Len(sops)
    IN  Applied(done, sops, -1)[last]

\* The values after a rollback of the operations before stop
Rollback(vals, sops, stop) ==
    Applied(Applied(vals, sops, 1)[stop - 1], sops, -1)[stop - 1]

\* Mutant of DoWakeup: only ups wake.
DoWakeupUps(ix, sops) ==
    \E i \in 1..Len(sops) :
        sops[i].op > 0 /\ sem[sema[ix].base + sops[i].num].ncnt > 0

\* do_wakeup after the whole vector
DoWakeup(ix, sops) ==
    \E i \in 1..Len(sops) :
        LET s == sem[sema[ix].base + sops[i].num] IN
        \/ sops[i].op > 0 /\ s.ncnt > 0
        \/ /\ sops[i].op < 0 /\ s.zcnt > 0
           /\ Applied(Vals(ix), sops, 1)[i][sops[i].num] = 0

\* The pool with the values of a set replaced
Store(ix, vals) ==
    [i \in Pool |->
        IF i - sema[ix].base \in DOMAIN vals
        THEN [sem[i] EXCEPT !.val = vals[i - sema[ix].base]] ELSE sem[i]]

\* done: the undo entries, then the wake-up; or, when they do not fit, everything
\* is taken back.
SemopDone(p, ix, sops) ==
    LET n == Len(sops)
        final == Applied(Vals(ix), sops, 1)[n]
        undos == \E i \in 1..n : IsUndo(sops[i])
        alloc == SemuAlloc(p)
        first == CHOOSE i \in 1..n : IsUndo(sops[i]) /\ \A j \in 1..(i - 1) : ~IsUndo(sops[j])
        adj == IF ~undos THEN [un |-> undo[p], at |-> 0]
               ELSE IF alloc.ok THEN AdjustAll(undo[p], ix, sops)[n]
               ELSE [un |-> undo[p], at |-> first]
        back == Readjust(adj.un, ix, sops, adj.at)[adj.at - 1]
    IN  /\ undos => GlobalFree
        /\ semu' = IF undos THEN alloc.list ELSE semu
        /\ IF adj.at = 0
           THEN /\ sem' = Store(ix, final)
                /\ undo' = [undo EXCEPT ![p] = adj.un]
                /\ ledger' = [ledger EXCEPT ![ix] = Applied(@, sops, 1)[n]]
                /\ owed' = [owed EXCEPT ![p][ix] = Applied(@, UndoPart(sops), -1)[n]]
                /\ foreign' = (foreign \/ inst[ix] # req[p].k)
                /\ IF DoWakeup(ix, sops) THEN EvWakeup(ix) ELSE UNCHANGED <<posted, spc>>
                /\ UNCHANGED panic
           ELSE /\ sem' = Store(ix, Rollback(Vals(ix), sops, n + 1))
                /\ undo' = [undo EXCEPT ![p] = back.un]
                /\ panic' = IF back.ok THEN panic ELSE "rollback"
                /\ UNCHANGED <<posted, spc, ledger, owed, foreign>>
        /\ Goto(p, "idle")
        /\ MtxUnlock(p, ix)
        /\ UNCHANGED <<on, fDone, rc, req>>

\* The operations before stop are taken back: ERANGE, EAGAIN, or to sleep.
SemopStuck(p, ix, sops) ==
    LET stop == Stop(Vals(ix), sops)
        sop == sops[stop]
        back == Store(ix, Rollback(Vals(ix), sops, stop))
        i == sema[ix].base + sop.num
        cnt == IF sop.op = 0 THEN "zcnt" ELSE "ncnt"
    IN  /\ IF sop.op > 0 \/ "IPC_NOWAIT" \in sop.flg
           THEN /\ sem' = back
                /\ MtxUnlock(p, ix)
                /\ Goto(p, "idle")
                /\ UNCHANGED <<posted, spc, on, fDone, rc, req>>
           ELSE /\ sem' = [back EXCEPT ![i][cnt] = (@ + 1) % CountMod]
                /\ EvSleep(p, ix)
                /\ req' = [req EXCEPT ![p].num = i, ![p].cnt = cnt]
                /\ Goto(p, "asleep")
        /\ UNCHANGED <<undo, semu, panic, ledger, owed, foreign>>

\* One pass of the for (;;) loop of semop
Attempt(p) ==
    LET ix == req[p].ix
        sops == req[p].sops
    IN  /\ IF Stop(Vals(ix), sops) > Len(sops)
           THEN SemopDone(p, ix, sops)
           ELSE SemopStuck(p, ix, sops)
        /\ UNCHANGED <<sema, semtot, inst, passed>>

\* Unlock and return with an error
Fail(p) ==
    /\ MtxUnlock(p, req[p].ix)
    /\ Goto(p, "idle")
    /\ UNCHANGED <<posted, spc, on, fDone, rc, semVars, req, panic, history>>

Semop(p, ix, k, sops) ==
    /\ pc[p] = "idle"
    /\ Call
    /\ MtxLock(p, ix)
    /\ Goto(p, "semop")
    /\ req' = [req EXCEPT ![p] =
                 [ix |-> ix, k |-> k, sops |-> sops, num |-> 0, cnt |-> "ncnt"]]
    /\ UNCHANGED <<posted, spc, on, fDone, rc, semVars, panic, history>>

\* EINVAL and EFBIG, or the first pass
SemopBody(p) ==
    /\ pc[p] = "semop" /\ ~Stale(req[p].ix, req[p].k)
    /\ IF /\ Valid(req[p].ix, req[p].k)
          /\ \A i \in 1..Len(req[p].sops) : req[p].sops[i].num < sema[req[p].ix].nsems
       THEN Attempt(p) ELSE Fail(p)
    /\ UNCHANGED calls

\* Mutant of SemopAwake: the sequence number is not compared again.
SemopAwakeNoSeq(p) ==
    /\ pc[p] = "asleep" /\ spc[p] = "out"
    /\ IF sema[req[p].ix].alloc /\ rc[p] = "ok" THEN Attempt(p) ELSE Fail(p)
    /\ UNCHANGED calls

\* After the sleep: EIDRM, EINTR, or another pass
SemopAwake(p) ==
    /\ pc[p] = "asleep" /\ spc[p] = "out"
    /\ Stale(req[p].ix, req[p].k) => rc[p] # "ok"
    /\ IF Valid(req[p].ix, req[p].k) /\ rc[p] = "ok" THEN Attempt(p) ELSE Fail(p)
    /\ UNCHANGED calls

\* SleepDone, which is given the index of the set where it expects the handle:
\* IPCID_TO_SEQ of an index is 0.
SleepDone(p) ==
    LET ix == req[p].ix IN
    sem' = IF (sema[ix].alloc \/ InTheMaking(ix)) /\ sema[ix].seq = 0
           THEN [sem EXCEPT ![req[p].num][req[p].cnt] = (@ - 1) % CountMod]
           ELSE sem

\* The steps of safesemEvSleep (SafeEv)
SleepStep(p) ==
    /\ pc[p] = "asleep"
    /\ \/ (EvCheck(p) \/ EvWait(p) \/ EvInterrupt(p)) /\ UNCHANGED sem
       \/ EvSignal(p) /\ SleepDone(p)
       \/ EvReturn(p) /\ IF p \in fDone THEN UNCHANGED sem ELSE SleepDone(p)
    /\ UNCHANGED <<sema, semtot, undo, semu, pc, req, calls, panic, history>>

-----------------------------------------------------------------------------
(* semget and semctl                                                        *)

\* semget of a new set, under the global mutex: a free slot, and SEM_ALLOC ...
SemgetAlloc(p, ix, nsems) ==
    /\ pc[p] = "idle" /\ GlobalFree
    /\ inst[ix] < MaxGets
    /\ ~sema[ix].alloc /\ \A e \in Evs : e < ix => sema[e].alloc
    /\ nsems <= SEMMNS - semtot
    /\ Goto(p, "semget")
    /\ req' = [req EXCEPT ![p] = [NoReq EXCEPT !.ix = ix, !.num = nsems]]
    /\ UNCHANGED <<evVars, semVars, calls, panic, history>>

\* ... and the sequence number, the size, the place in the pool, and zeros.
Semget(p) ==
    /\ pc[p] = "semget"
    /\ LET ix == req[p].ix
           nsems == req[p].num
       IN  /\ sema' = [sema EXCEPT ![ix] = [alloc |-> TRUE, seq |-> (@.seq + 1) % SeqMod,
                                            nsems |-> nsems, base |-> semtot]]
           /\ semtot' = semtot + nsems
           /\ sem' = [i \in Pool |-> IF i \in semtot..(semtot + nsems - 1)
                                     THEN [val |-> 0, ncnt |-> 0, zcnt |-> 0] ELSE sem[i]]
           /\ inst' = [inst EXCEPT ![ix] = @ + 1]
           /\ ledger' = [ledger EXCEPT ![ix] = [i \in Pool |-> 0]]
    /\ Goto(p, "idle")
    /\ UNCHANGED <<evVars, undo, semu, req, calls, panic, owed, passed, foreign>>

\* In between a call with the handle of the set that was removed from the slot gets past
\* the check of the handle, with the size and the place of that set.  What it does to
\* the pool is not followed.
Astray(p) ==
    /\ \/ \E ix \in Evs : \E k \in 1..inst[ix] :
            /\ pc[p] = "idle" /\ Commands # {} /\ mtx[ix] = NoThread /\ Call
            /\ Stale(ix, k)
       \/ /\ \/ pc[p] = "semop"
             \/ pc[p] = "asleep" /\ spc[p] = "out" /\ rc[p] = "ok"
             \/ pc[p] = "setall" /\ mtx[req[p].ix] = NoThread
          /\ Stale(req[p].ix, req[p].k)
          /\ UNCHANGED calls
    /\ panic' = "astray"
    /\ UNCHANGED <<evVars, semVars, pc, req, history>>

\* The undo entries of a set, or of one semaphore of it (num), are cleared, under the
\* global mutex.
ClearUndo(ix, num) ==
    /\ GlobalFree
    /\ undo' = [q \in Threads |-> Clear(undo[q], ix, num)]
    /\ owed' = [q \in Threads |-> [owed[q] EXCEPT ![ix] =
                   [i \in Pool |-> IF num \in {-1, i} THEN 0 ELSE @[i]]]]
    /\ passed' = [q \in Threads |-> [passed[q] EXCEPT ![ix] =
                     IF num = -1 THEN {}
                     ELSE IF Entry(undo[q], ix, num) \in {{}, OfSet(undo[q], ix)}
                     THEN @ \ {num} ELSE @ \union {num}]]

SetVal(p, ix, k, num, val) ==
    /\ "SETVAL" \in Commands
    /\ pc[p] = "idle" /\ mtx[ix] = NoThread
    /\ Call
    /\ Valid(ix, k) /\ num < sema[ix].nsems /\ val <= SEMVMX
    /\ sem' = [sem EXCEPT ![sema[ix].base + num].val = val]
    /\ ledger' = [ledger EXCEPT ![ix][num] = val]
    /\ ClearUndo(ix, num)
    /\ EvWakeup(ix)
    /\ foreign' = (foreign \/ inst[ix] # k)
    /\ UNCHANGED <<mtx, on, fDone, rc, sema, semtot, semu, pc, req, panic, inst>>

\* SETALL reads sem_nsems and lets go of the mutex ...
SetAllRead(p, ix, k) ==
    /\ "SETALL" \in Commands
    /\ pc[p] = "idle" /\ mtx[ix] = NoThread
    /\ Call
    /\ Valid(ix, k)
    /\ Goto(p, "setall")
    /\ req' = [req EXCEPT ![p] = [NoReq EXCEPT !.ix = ix, !.k = k, !.num = sema[ix].nsems]]
    /\ UNCHANGED <<evVars, semVars, panic, history>>

\* ... and takes it again to write the values, up to the first above SEMVMX.  A
\* set of another size sends it back.
SetAllWrite(p, array) ==
    /\ pc[p] = "setall" /\ mtx[req[p].ix] = NoThread
    /\ ~Stale(req[p].ix, req[p].k)
    /\ LET ix == req[p].ix
           bad == {i \in DOMAIN array : i < sema[ix].nsems /\ array[i] > SEMVMX}
           written == {i \in 0..(sema[ix].nsems - 1) : \A j \in bad : i < j}
       IN  IF ~Valid(ix, req[p].k)
           THEN /\ Goto(p, "idle")
                /\ UNCHANGED <<evVars, semVars, req, history>>
           ELSE IF req[p].num # sema[ix].nsems
           THEN /\ req' = [req EXCEPT ![p].num = sema[ix].nsems]
                /\ UNCHANGED <<evVars, semVars, pc, history>>
           ELSE /\ sem' = Store(ix, [i \in written |-> array[i]])
                /\ ledger' = [ledger EXCEPT ![ix] =
                      [i \in Pool |-> IF i \in written THEN array[i] ELSE @[i]]]
                /\ ClearUndo(ix, -1)
                /\ EvWakeup(ix)
                /\ foreign' = (foreign \/ inst[ix] # req[p].k)
                /\ Goto(p, "idle")
                /\ UNCHANGED <<mtx, on, fDone, rc, sema, semtot, semu, req, inst>>
    /\ UNCHANGED <<calls, panic>>

\* IPC_RMID, under the mutex of the set: semtot, ...
RmidTotal(p, ix, k) ==
    /\ "IPC_RMID" \in Commands
    /\ pc[p] = "idle"
    /\ Call
    /\ Valid(ix, k)
    /\ MtxLock(p, ix)
    /\ semtot' = semtot - sema[ix].nsems
    /\ Goto(p, "rmid_shift")
    /\ req' = [req EXCEPT ![p] = [NoReq EXCEPT !.ix = ix, !.k = k]]
    /\ UNCHANGED <<posted, spc, on, fDone, rc, sema, sem, undo, semu, panic, history>>

\* ... the pool moved down over the set's semaphores, ...
RmidShift(p) ==
    /\ pc[p] = "rmid_shift"
    /\ LET s == sema[req[p].ix] IN
         sem' = [i \in Pool |-> IF i \in s.base..(semtot - 1) /\ i + s.nsems \in Pool
                                THEN sem[i + s.nsems] ELSE sem[i]]
    /\ Goto(p, "rmid_bases")
    /\ UNCHANGED <<evVars, sema, semtot, undo, semu, req, calls, panic, history>>

\* ... the sem_base of the sets above it, and SEM_ALLOC, ...
RmidBases(p) ==
    /\ pc[p] = "rmid_bases"
    /\ LET s == sema[req[p].ix] IN
         sema' = [e \in Evs |->
                    IF e = req[p].ix THEN [s EXCEPT !.alloc = FALSE]
                    ELSE IF sema[e].alloc /\ sema[e].base > s.base
                         THEN [sema[e] EXCEPT !.base = @ - s.nsems] ELSE sema[e]]
    /\ Goto(p, "rmid_clear")
    /\ UNCHANGED <<evVars, sem, semtot, undo, semu, req, calls, panic, history>>

\* Mutant of RmidClear: the undo entries are left.
RmidClearKeepsUndo(p) ==
    /\ pc[p] = "rmid_clear" /\ GlobalFree
    /\ EvWakeup(req[p].ix)
    /\ MtxUnlock(p, req[p].ix)
    /\ Goto(p, "idle")
    /\ owed' = [q \in Threads |-> [owed[q] EXCEPT ![req[p].ix] = [i \in Pool |-> 0]]]
    /\ passed' = [q \in Threads |-> [passed[q] EXCEPT ![req[p].ix] = {}]]
    /\ UNCHANGED <<on, fDone, rc, sema, sem, semtot, undo, semu, req, calls, panic, inst, ledger, foreign>>

\* ... the undo entries, and the sleepers.
RmidClear(p) ==
    /\ pc[p] = "rmid_clear"
    /\ ClearUndo(req[p].ix, -1)
    /\ EvWakeup(req[p].ix)
    /\ MtxUnlock(p, req[p].ix)
    /\ Goto(p, "idle")
    /\ UNCHANGED <<on, fDone, rc, sema, sem, semtot, semu, req, calls, panic, inst, ledger, foreign>>

\* semexit_myhook.  With entries to apply it releases the mutex of the set, where
\* it should take it, and panics; without, the structure is freed.
Exit(p) ==
    /\ pc[p] = "idle" /\ GlobalFree
    /\ Goto(p, "dead")
    /\ panic' = IF undo[p] # <<>> THEN "exit" ELSE panic
    /\ LET mine == {i \in 1..Len(semu) : semu[i] = p} IN
         semu' = IF undo[p] # <<>> \/ mine = {} THEN semu
                 ELSE Unlink(semu, CHOOSE i \in mine : TRUE)
    /\ UNCHANGED <<evVars, sema, sem, semtot, undo, req, calls, history>>

-----------------------------------------------------------------------------
Arrays == [0..(SEMMNS - 1) -> Values]

Next ==
    /\ panic \notin {"exit", "astray"}
    /\ \E p \in Threads :
         \/ \E ix \in Evs, n \in Sizes : SemgetAlloc(p, ix, n)
         \/ Semget(p) \/ Astray(p)
         \/ \E ix \in Evs : \E k \in 1..inst[ix] :
              \/ \E sops \in Vectors : Semop(p, ix, k, sops)
              \/ \E num \in Pool, val \in Values : SetVal(p, ix, k, num, val)
              \/ SetAllRead(p, ix, k)
              \/ RmidTotal(p, ix, k)
         \/ SemopBody(p) \/ SleepStep(p) \/ SemopAwake(p)
         \/ \E array \in Arrays : SetAllWrite(p, array)
         \/ RmidShift(p) \/ RmidBases(p) \/ RmidClear(p)
         \/ Exit(p)

Spec == Init /\ [][Next]_vars

-----------------------------------------------------------------------------
TypeOK ==
    /\ EvTypeOK
    /\ \A e \in Evs : sema[e] \in
         [alloc : BOOLEAN, seq : 0..(SeqMod - 1), nsems : 0..SEMMNS, base : 0..SEMMNS]
    /\ sem \in [Pool -> [val : 0..SEMVMX, ncnt : 0..(CountMod - 1), zcnt : 0..(CountMod - 1)]]
    /\ semtot \in 0..SEMMNS
    /\ Len(semu) <= SEMMNU
    /\ \A p \in Threads : Len(undo[p]) <= SEMUME
    /\ calls \in 0..MaxCalls

\* A set whose pool entries no IPC_RMID is moving
Settled(ix) ==
    /\ sema[ix].alloc
    /\ \A p \in Threads : pc[p] \notin {"rmid_shift", "rmid_bases"}

\* "This ensures that from the perspective of other tasks, a set of requests is
\* atomic (never partially satisfied)" (sysv_sem.c:1046-1047): a semaphore holds
\* what the calls that succeeded made of it, whatever calls were rolled back for
\* want of a value, of undo space or of patience in between.  The types are part
\* of it.
Ledger ==
    /\ TypeOK
    /\ \A ix \in Evs : Settled(ix) =>
         \A n \in 0..(sema[ix].nsems - 1) : Vals(ix)[n] = ledger[ix][n]

\* What the undo structure un would put back into a semaphore
Adj(un, ix, num) ==
    IF Entry(un, ix, num) = {} THEN 0 ELSE un[CHOOSE i \in Entry(un, ix, num) : TRUE].adj

\* The undo structures hold, for every process, the inverse of the SEM_UNDO
\* operations it did since the semaphore was last set, and nothing for a set
\* that is gone, once IPC_RMID has come to them (sysv_sem.c:450-548, 1153-1203).
\* Left out are the semaphores that SETVAL set while the process had entries for
\* others of the set too: semundo_clear may stop at one of those (542-543), and
\* the old entry stays (UndoExact).
UndoLedger ==
    \A p \in Threads, ix \in Evs :
        /\ \A n \in Pool \ passed[p][ix] : owed[p][ix][n] = Adj(undo[p], ix, n)
        /\ \/ sema[ix].alloc \/ \E q \in Threads : pc[q] = "rmid_clear" /\ req[q].ix = ix
           \/ OfSet(undo[p], ix) = {}

\* SETVAL clears the undo entries of its semaphore in all structures (sysv_sem.c:749-752).
\* TLC finds it violated (MCSysVSemSetVal.cfg).
UndoExact ==
    \A p \in Threads, ix \in Evs, n \in Pool : owed[p][ix][n] = Adj(undo[p], ix, n)

\* "This guarantees that we won't run out of space as we roll things back out"
\* (sysv_sem.c:1177-1180): semop never meets "semop - can't undo undos".
RollbackFits == panic # "rollback"

\* A call never changes a set other than the one its handle named, although the
\* slot may have been removed and created again while it slept or had let go of
\* the mutex (sysv_sem.c:1128-1135, 767-775), once the new set has its sequence
\* number; before that an old handle is valid again (HandlesExpire).
NoForeignChange == ~foreign

\* semvalid (sysv_sem.c:550-558) fails for the handle of a set that was removed.  TLC
\* finds it violated, since semget sets SEM_ALLOC before the sequence number, without
\* the mutex of the set (890-891, MCSysVSemStale.cfg).
HandlesExpire == panic # "astray"

\* The call of a sleeping process could now be done.
Ready(p) ==
    /\ Valid(req[p].ix, req[p].k)
    /\ Stop(Vals(req[p].ix), req[p].sops) > Len(req[p].sops)

\* The operation that stops it is one that it is counted for as waiting.
CountedFor(p) ==
    LET sops == req[p].sops
        stop == Stop(Vals(req[p].ix), sops)
    IN  /\ stop <= Len(sops) /\ sops[stop].op <= 0
        /\ req[p].num = sema[req[p].ix].base + sops[stop].num
        /\ req[p].cnt = IF sops[stop].op = 0 THEN "zcnt" ELSE "ncnt"

\* "we go to sleep until some other process wakes us up" (sysv_sem.c:1042-1044):
\* the step that makes it possible for a sleeper to go on posts the event, by
\* do_wakeup in semop, always in SETVAL and SETALL (sysv_sem.c:1065-1088,
\* 1213-1221, 753, 789).  A sleeper whose event another has reset may by now be
\* stopped by an operation that it is not counted for; nobody knows of that one.
WokenWhenReady ==
    [][\A p \in Threads :
         /\ pc[p] = "asleep" /\ spc[p] \in {"unlocked", "checked", "blocked"}
         /\ p \notin fDone'
         /\ CountedFor(p) /\ Ready(p)'
         => req[p].ix \in posted']_vars

\* "Mutex protecting the undo list and other global sem stuff"
\* (sysv_sem.c:75): the sets have semaphores of their own in the pool.
PoolDisjoint ==
    \A e, f \in Evs : e # f /\ Settled(e) /\ Settled(f) =>
        \/ sema[e].base + sema[e].nsems <= sema[f].base
        \/ sema[f].base + sema[f].nsems <= sema[e].base
=============================================================================
