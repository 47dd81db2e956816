------------------------------ MODULE PosixSem ------------------------------
(***************************************************************************)
(* POSIX semaphores: lib/process/sem_*.c.  A semaphore is a counter changed *)
(* with atomic additions and an OS/2 event semaphore made with DCE_POSTONE. *)
(* A wait that takes the counter to a negative value waits on the event; a  *)
(* post that finds it negative posts the event.  The two steps of each call *)
(* are separate actions.                                                    *)
(*                                                                          *)
(* External: the event semaphore.  A post readies one waiting thread, or is *)
(* remembered until a thread comes to wait; a second post while one is      *)
(* remembered is refused (ERROR_ALREADY_POSTED), which sem_post returns as  *)
(* an error.                                                                *)
(***************************************************************************)
EXTENDS Integers, FiniteSets

CONSTANTS Threads, InitValue,
          MaxPosts,       \* bound: calls of sem_post
          MaxTimeouts,    \* bound: waits that end with a timeout or an error
          MaxTries        \* bound: calls of sem_trywait that succeed

ASSUME ConstantsAssumption ==
    /\ IsFiniteSet(Threads)
    /\ InitValue \in Nat /\ MaxPosts \in Nat /\ MaxTimeouts \in Nat
    /\ MaxTries \in Nat

VARIABLES
    count,      \* __sem.count
    posted,     \* the event semaphore remembers a post
    pc,         \* idle, wait (before DosWaitEventSem), blocked (in it), post
    posts,      \* sem_post calls so far
    taken,      \* units granted by sem_wait and sem_timedwait
    tried,      \* sem_trywait calls that returned 0
    timeouts    \* waits that returned -1

vars == <<count, posted, pc, posts, taken, tried, timeouts>>

\* sem_init
Init ==
    /\ count = InitValue
    /\ posted = FALSE
    /\ pc = [t \in Threads |-> "idle"]
    /\ posts = 0 /\ taken = 0 /\ tried = 0 /\ timeouts = 0

Goto(t, label) == pc' = [pc EXCEPT ![t] = label]

\* Mutant of WaitSub: a wait that finds 0 does not wait.
WaitSubZero(t) ==
    /\ pc[t] = "idle"
    /\ count' = count - 1
    /\ IF count < 0 THEN Goto(t, "wait") /\ UNCHANGED taken
                    ELSE taken' = taken + 1 /\ UNCHANGED pc
    /\ UNCHANGED <<posted, posts, tried, timeouts>>

\* sem_wait and sem_timedwait: __atomic_fetch_sub(&s->count, 1)
WaitSub(t) ==
    /\ pc[t] = "idle"
    /\ count' = count - 1
    /\ IF count <= 0 THEN Goto(t, "wait") /\ UNCHANGED taken
                     ELSE taken' = taken + 1 /\ UNCHANGED pc
    /\ UNCHANGED <<posted, posts, tried, timeouts>>

\* DosWaitEventSem: a remembered post is consumed, otherwise the thread blocks.
WaitEvent(t) ==
    /\ pc[t] = "wait"
    /\ posted' = FALSE
    /\ IF posted THEN Goto(t, "idle") /\ taken' = taken + 1
                 ELSE Goto(t, "blocked") /\ UNCHANGED taken
    /\ UNCHANGED <<count, posts, tried, timeouts>>

\* sem_timedwait gives up, before or in DosWaitEventSem (ETIMEDOUT), or either
\* wait is interrupted.  The counter is left as it is.
WaitFails(t) ==
    /\ pc[t] \in {"wait", "blocked"}
    /\ timeouts < MaxTimeouts
    /\ timeouts' = timeouts + 1
    /\ Goto(t, "idle")
    /\ UNCHANGED <<count, posted, posts, taken, tried>>

\* sem_trywait tests the counter, and returns 0 without changing it.
TryWait(t) ==
    /\ pc[t] = "idle"
    /\ count > 0
    /\ tried < MaxTries
    /\ tried' = tried + 1
    /\ UNCHANGED <<count, posted, pc, posts, taken, timeouts>>

\* sem_post: __atomic_fetch_add(&s->count, 1)
PostAdd(t) ==
    /\ pc[t] = "idle"
    /\ posts < MaxPosts
    /\ posts' = posts + 1
    /\ count' = count + 1
    /\ IF count < 0 THEN Goto(t, "post") ELSE UNCHANGED pc
    /\ UNCHANGED <<posted, taken, tried, timeouts>>

\* DosPostEventSem
PostEvent(t) ==
    /\ pc[t] = "post"
    /\ \/ \E u \in Threads :
            /\ pc[u] = "blocked"
            /\ pc' = [pc EXCEPT ![t] = "idle", ![u] = "idle"]
            /\ taken' = taken + 1
            /\ UNCHANGED posted
       \/ /\ \A u \in Threads : pc[u] # "blocked"
          /\ Goto(t, "idle")
          /\ posted' = TRUE         \* or ERROR_ALREADY_POSTED, returned as -1
          /\ UNCHANGED taken
    /\ UNCHANGED <<count, posts, tried, timeouts>>

Next == \E t \in Threads :
    \/ WaitSub(t) \/ WaitEvent(t) \/ WaitFails(t) \/ TryWait(t)
    \/ PostAdd(t) \/ PostEvent(t)

Spec == Init /\ [][Next]_vars

-----------------------------------------------------------------------------
TypeOK ==
    /\ count \in -(Cardinality(Threads) + MaxTimeouts)..(InitValue + MaxPosts)
    /\ posted \in BOOLEAN
    /\ pc \in [Threads -> {"idle", "wait", "blocked", "post"}]
    /\ posts \in 0..MaxPosts /\ taken \in Nat
    /\ tried \in 0..MaxTries /\ timeouts \in 0..MaxTimeouts

\* sem_wait and sem_timedwait never return 0 more often than there were units:
\* the initial value and the posts, although the counter and the event semaphore
\* are changed in separate steps, the event remembers a post and timed-out waits
\* leave the counter negative (sem_wait.c:26-41, sem_timedwait.c:29-76,
\* sem_post.c:26-42).  Units reported by sem_trywait, which takes none, are not in
\* the sum: TriesCovered.
WaitsCovered == TypeOK /\ taken <= InitValue + posts

\* What libctests/glibc/nptl/tst-sem1.c:49-60 requires, that after one post the
\* second sem_trywait fails: units reported by tries count as taken.  The code
\* violates it, sem_trywait.c:26-37 looks at the counter and leaves it.
TriesCovered == taken + tried <= InitValue + posts

\* A post is not lost: when every call but the blocked waits has returned, no
\* thread is blocked while the posts exceed what has been granted
\* (sem_post.c:29-42).
NoStrandedWaiter ==
    (/\ \A t \in Threads : pc[t] \in {"idle", "blocked"}
     /\ \E t \in Threads : pc[t] = "blocked") => taken >= InitValue + posts
=============================================================================
