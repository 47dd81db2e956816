-------------------------------- MODULE TLS --------------------------------
(***************************************************************************)
(* Thread-local storage, lib/process/tls.c: slots given out through a       *)
(* counter and a bitmap that are updated with separate atomic instructions, *)
(* a value per thread and slot, a destructor per slot.  The callback that   *)
(* runs the destructors is registered by the first __libc_TLSDestructor     *)
(* under a simple mutex, so this module EXTENDS SMutex: the request and the *)
(* release of smtxInit are SMutex's steps.                                  *)
(* The application is assumed to free a slot once, and not while another    *)
(* thread gives it a destructor (thread.h:554).                             *)
(***************************************************************************)
EXTENDS SMutex, FiniteSets

CONSTANTS Max,        \* __LIBC_TLS_MAX
          WordBits,   \* ENTRY_BITS
          ByteBits,   \* 8
          MaxKills,   \* bound: threads killed
          MaxSets,    \* bound: values stored
          MaxEnds     \* bound: threads that end normally

ASSUME TLSAssumption ==
    /\ Max \in Nat \ {0} /\ MaxKills \in Nat /\ MaxSets \in Nat /\ MaxEnds \in Nat
    /\ ByteBits \in Nat \ {0} /\ WordBits \in Nat \ {0}
    /\ Max % WordBits = 0
    /\ IsFiniteSet(Threads)

Slots == 0 .. Max - 1

VARIABLES
    gcTLSAllocated,
    gauBitmap,          \* the slots whose bit is set
    gapfnDestructors,   \* the slots that have a destructor
    apvTLS,             \* per thread, the slots with a value that is not NULL
    fInited,            \* of __libc_TLSDestructor
    registered,         \* how often gThrdTermRegRec was registered
    tpc,                \* where each thread is in this module
    at,                 \* the bit a thread in TLSAlloc looks at next
    want,               \* the slot a thread in TLSDestructor is about
    keys,               \* the slots the application has and may use
    gaveUp,             \* TLSAlloc failed although it had counted a slot
    missed,             \* an ended thread left a value a destructor was there for
    sets, ends

tlsVars == <<gcTLSAllocated, gauBitmap, gapfnDestructors, apvTLS, fInited, registered,
             tpc, at, want, keys, gaveUp, missed, sets, ends>>
allVars == <<vars, tlsVars>>

TLSInit ==
    /\ Init
    /\ gcTLSAllocated = 0
    /\ gauBitmap = {} /\ gapfnDestructors = {} /\ keys = {}
    /\ apvTLS = [t \in Threads |-> {}]
    /\ fInited = FALSE /\ registered = 0
    /\ tpc = [t \in Threads |-> "idle"]
    /\ at = [t \in Threads |-> 0]
    /\ want = [t \in Threads |-> 0]
    /\ gaveUp = FALSE /\ missed = FALSE
    /\ sets = 0 /\ ends = 0

TPCs == {"idle", "scan", "count", "init", "done", "store"}

In(t, label) == t \in alive /\ tpc[t] = label
Idle(t) == In(t, "idle") /\ pc[t] = "idle"
Move(t, label) == tpc' = [tpc EXCEPT ![t] = label]

-----------------------------------------------------------------------------
(* __libc_TLSAlloc and __libc_TLSFree                                       *)

\* __atomic_increment_max; at the limit the call fails with ENOMEM.
Reserve(t) ==
    /\ Idle(t)
    /\ gcTLSAllocated < Max
    /\ gcTLSAllocated' = gcTLSAllocated + 1
    /\ Move(t, "scan")
    /\ UNCHANGED <<vars, gauBitmap, gapfnDestructors, apvTLS, fInited, registered, at, want,
                   keys, gaveUp, missed, sets, ends>>

Word(k) == {i \in Slots : i \div WordBits = k \div WordBits}

\* Mutant of NextBits: a word is left after the first bit that is set.
NextBitsSkip(k) == {(k \div WordBits) * WordBits + WordBits}

\* The bits to look at after k.  After the last bit of a word the word is read once
\* more: it is left if it is full by then, and gone through again otherwise.
NextBits(k) ==
    IF k + 1 \in Word(k) THEN {k + 1} ELSE {k + 1, (k \div WordBits) * WordBits}

\* Mutant of Probe: the bit is set without looking whether it was set before.
ProbeBlind(t) ==
    /\ In(t, "scan")
    /\ gauBitmap' = gauBitmap \union {at[t]}
    /\ gapfnDestructors' = gapfnDestructors \ {at[t]}
    /\ keys' = keys \union {at[t]}
    /\ Move(t, "idle")
    /\ at' = [at EXCEPT ![t] = 0]
    /\ UNCHANGED <<vars, gcTLSAllocated, apvTLS, fInited, registered, want, gaveUp,
                   missed, sets, ends>>

\* __atomic_set_bit of the next bit: a bit that was clear is the result, after the
\* last bit the scan gives up (the code scans 32 times).
Probe(t) ==
    /\ In(t, "scan")
    /\ \/ /\ at[t] \notin gauBitmap
          /\ gauBitmap' = gauBitmap \union {at[t]}
          /\ gapfnDestructors' = gapfnDestructors \ {at[t]}
          /\ keys' = keys \union {at[t]}
          /\ Move(t, "idle")
          /\ at' = [at EXCEPT ![t] = 0]
          /\ UNCHANGED gaveUp
       \/ /\ at[t] \in gauBitmap
          /\ \E k \in NextBits(at[t]) :
                IF k \in Slots
                THEN at' = [at EXCEPT ![t] = k] /\ UNCHANGED <<tpc, gaveUp>>
                ELSE gaveUp' = TRUE /\ Move(t, "idle") /\ at' = [at EXCEPT ![t] = 0]
          /\ UNCHANGED <<gauBitmap, gapfnDestructors, keys>>
    /\ UNCHANGED <<vars, gcTLSAllocated, apvTLS, fInited, registered, want, missed, sets,
                   ends>>

\* Mutant of Free: the count is lowered before the bit is cleared.
FreeCountFirst(t, k) ==
    /\ Idle(t) /\ k \in keys
    /\ \A u \in Threads : tpc[u] \in {"init", "done", "store"} => want[u] # k
    /\ keys' = keys \ {k}
    /\ gapfnDestructors' = gapfnDestructors \ {k}
    /\ gcTLSAllocated' = gcTLSAllocated - 1
    /\ Move(t, "count")
    /\ UNCHANGED <<vars, gauBitmap, apvTLS, fInited, registered, at, want, gaveUp, missed,
                   sets, ends>>

\* TLSFree until the bit is cleared.  The values of the threads stay.
Free(t, k) ==
    /\ Idle(t) /\ k \in keys
    /\ \A u \in Threads : tpc[u] \in {"init", "done", "store"} => want[u] # k
    /\ keys' = keys \ {k}
    /\ gapfnDestructors' = gapfnDestructors \ {k}
    /\ gauBitmap' = gauBitmap \ {k}
    /\ Move(t, "count")
    /\ UNCHANGED <<vars, gcTLSAllocated, apvTLS, fInited, registered, at, want, gaveUp,
                   missed, sets, ends>>

\* __atomic_decrement(&gcTLSAllocated).
FreeCount(t) ==
    /\ In(t, "count")
    /\ gcTLSAllocated' = gcTLSAllocated - 1
    /\ Move(t, "idle")
    /\ UNCHANGED <<vars, gauBitmap, gapfnDestructors, apvTLS, fInited, registered, at, want,
                   keys, gaveUp, missed, sets, ends>>

-----------------------------------------------------------------------------
(* __libc_TLSSet and __libc_TLSDestructor                                   *)

SetValue(t, k) ==
    /\ Idle(t) /\ k \in keys
    /\ sets < MaxSets /\ sets' = sets + 1
    /\ apvTLS' = [apvTLS EXCEPT ![t] = @ \union {k}]
    /\ UNCHANGED <<vars, gcTLSAllocated, gauBitmap, gapfnDestructors, fInited, registered,
                   tpc, at, want, keys, gaveUp, missed, ends>>

\* The first test of fInited.
Destructor(t, k) ==
    /\ Idle(t) /\ k \in keys
    /\ want' = [want EXCEPT ![t] = k]
    /\ Move(t, IF fInited THEN "store" ELSE "init")
    /\ UNCHANGED <<vars, gcTLSAllocated, gauBitmap, gapfnDestructors, apvTLS, fInited,
                   registered, at, keys, gaveUp, missed, sets, ends>>

\* _smutex_request(&smtxInit), and the loop in it.
InitRequest(t) ==
    /\ In(t, "init")
    /\ Request(t) \/ Step(t)
    /\ UNCHANGED tlsVars

\* Mutant of InitSection: no second test of fInited.
InitSectionAgain(t) ==
    /\ In(t, "init") /\ pc[t] = "own"
    /\ registered' = registered + 1
    /\ fInited' = TRUE
    /\ Move(t, "done")
    /\ UNCHANGED <<vars, gcTLSAllocated, gauBitmap, gapfnDestructors, apvTLS, at, want,
                   keys, gaveUp, missed, sets, ends>>

\* The section: register the callback unless it has been done in the meantime.
InitSection(t) ==
    /\ In(t, "init") /\ pc[t] = "own"
    /\ registered' = IF fInited THEN registered ELSE registered + 1
    /\ fInited' = TRUE
    /\ Move(t, "done")
    /\ UNCHANGED <<vars, gcTLSAllocated, gauBitmap, gapfnDestructors, apvTLS, at, want,
                   keys, gaveUp, missed, sets, ends>>

\* _smutex_release(&smtxInit).
InitRelease(t) ==
    /\ In(t, "done")
    /\ Release(t)
    /\ Move(t, "store")
    /\ UNCHANGED <<gcTLSAllocated, gauBitmap, gapfnDestructors, apvTLS, fInited, registered,
                   at, want, keys, gaveUp, missed, sets, ends>>

StoreDestructor(t) ==
    /\ In(t, "store")
    /\ gapfnDestructors' = gapfnDestructors \union {want[t]}
    /\ want' = [want EXCEPT ![t] = 0]
    /\ Move(t, "idle")
    /\ UNCHANGED <<vars, gcTLSAllocated, gauBitmap, apvTLS, fInited, registered, at,
                   keys, gaveUp, missed, sets, ends>>

-----------------------------------------------------------------------------
(* The end of a thread: __libc_tlsThreadDestructor                          *)

\* The slots the loops get to: the first byte of every word that has a bit set,
\* provided the first byte of the bitmap has one.
Visited ==
    {k \in Slots : /\ k % WordBits < ByteBits
                   /\ Word(k) \intersect gauBitmap # {}
                   /\ \E i \in 0 .. ByteBits - 1 : i \in gauBitmap}

\* The thread ends normally and another one takes its place, with a structure
\* of zeroes.
ThreadEnd(t) ==
    /\ Idle(t) /\ ends < MaxEnds /\ ends' = ends + 1
    /\ LET due == apvTLS[t] \intersect gauBitmap \intersect gapfnDestructors
           ran == IF registered > 0 THEN due \intersect Visited ELSE {}
       IN missed' = (missed \/ due # ran)
    /\ apvTLS' = [apvTLS EXCEPT ![t] = {}]
    /\ UNCHANGED <<vars, gcTLSAllocated, gauBitmap, gapfnDestructors, fInited, registered,
                   tpc, at, want, keys, gaveUp, sets>>

KillThread(t) ==
    Cardinality(Threads \ alive) < MaxKills /\ Kill(t) /\ UNCHANGED tlsVars

ExitProcess == StartExit /\ UNCHANGED tlsVars

TLSNext ==
    /\ ~panic
    /\ \/ \E t \in Threads :
            \/ Reserve(t) \/ Probe(t) \/ FreeCount(t)
            \/ InitRequest(t) \/ InitSection(t) \/ InitRelease(t) \/ StoreDestructor(t)
            \/ ThreadEnd(t) \/ KillThread(t)
            \/ \E k \in Slots : Free(t, k) \/ SetValue(t, k) \/ Destructor(t, k)
       \/ ExitProcess

TLSSpec == TLSInit /\ [][TLSNext]_allVars

\* Scheduling: a thread in the loop of the simple mutex is run again and again.
TLSFairSpec == TLSSpec /\ \A t \in Threads : WF_allVars(~panic /\ InitRequest(t))

-----------------------------------------------------------------------------
(* Properties.                                                              *)

\* Type correctness of the globals of tls.c and of the threads' positions.
TLSTypeOK ==
    /\ TypeOK
    /\ gcTLSAllocated \in 0 .. Max
    /\ gauBitmap \subseteq Slots /\ gapfnDestructors \subseteq Slots /\ keys \subseteq Slots
    /\ apvTLS \in [Threads -> SUBSET Slots]
    /\ fInited \in BOOLEAN /\ registered \in Nat
    /\ tpc \in [Threads -> TPCs]
    /\ at \in [Threads -> Slots] /\ want \in [Threads -> Slots]
    /\ gaveUp \in BOOLEAN /\ missed \in BOOLEAN
    /\ sets \in 0 .. MaxSets /\ ends \in 0 .. MaxEnds

\* tls.c:88 raises the count before a bit is looked for and tls.c:164 lowers it
\* after the bit is cleared: the count is what is set plus the calls in between.
Pending == {t \in Threads : tpc[t] \in {"scan", "count"}}
SlotsAccounted ==
    ~gaveUp => gcTLSAllocated = Cardinality(gauBitmap) + Cardinality(Pending)

\* A call of __libc_TLSAlloc that got past the count finds a slot in its first
\* pass over the bitmap, however the other calls move the free slot behind its
\* back; the 32 tries of tls.c:98 are never needed.
NeverGivesUp == ~gaveUp

\* The callback is registered once (a second registration would be refused or make
\* the list circular), although fInited is also read outside the mutex (tls.c:241);
\* gcTLSAllocated and the other variables keep their types.
RegisteredOnce == TLSTypeOK /\ registered <= 1

\* thread.h:533: "The destructor function will be called when a thread terminates
\* in a normal fashion and the TLS entry iIndex of that thread is not NULL."
DestructorsCalled == ~missed
=============================================================================
