------------------------------- MODULE RWLock -------------------------------
(***************************************************************************)
(* rwlock.c: the recursive reader/writer lock behind the player list lock  *)
(* and the arena list lock.                                                *)
(*                                                                         *)
(* Each function is a critical section of rwl->mutex, and so one action;   *)
(* pthread_cond_wait divides it in two.  A thread may lock again what it   *)
(* has locked; nothing but the counters below says who holds the lock.     *)
(***************************************************************************)
EXTENDS Naturals, FiniteSets

CONSTANTS
    Threads,
    MaxDepth     \* bound: how often a thread holds the lock in each mode

ASSUME LockAssumption == IsFiniteSet(Threads) /\ MaxDepth \in Nat \ {0}

VARIABLES
    r_active, w_active,  \* how often the lock is held for reading, for writing
    r_wait, w_wait,      \* how many threads wait for that
    w_owner,             \* who holds it for writing, if w_active > 0
    waiting,             \* where each thread is within readlock or writelock
    reads,               \* history: <<t, i>>: t holds it for reading the i-th time
    writes               \* history: how often each thread holds it for writing

vars == <<r_active, w_active, r_wait, w_wait, w_owner, waiting, reads, writes>>

\* In pthread_cond_wait on read or write, or woken up but without the mutex yet.
Places == {"no", "read", "read_woken", "write", "write_woken"}

Reading(t) == \E i \in 1 .. MaxDepth : <<t, i>> \in reads
Running(t) == waiting[t] = "no"

ReadWaiters  == {t \in Threads : waiting[t] \in {"read", "read_woken"}}
WriteWaiters == {t \in Threads : waiting[t] \in {"write", "write_woken"}}

\* w_owner is not initialised; what it is does not matter.
Init ==
    /\ r_active = 0 /\ w_active = 0
    /\ r_wait = 0 /\ w_wait = 0
    /\ w_owner \in Threads
    /\ waiting = [t \in Threads |-> "no"]
    /\ reads = {}
    /\ writes = [t \in Threads |-> 0]

----------------------------------------------------------------------------
(* The condition variables.                                                *)

BroadcastRead ==
    waiting' = [t \in Threads |-> IF waiting[t] = "read" THEN "read_woken" ELSE waiting[t]]

SignalWrite ==
    LET asleep == {t \in Threads : waiting[t] = "write"}
    IN  \/ asleep = {} /\ UNCHANGED waiting
        \/ \E t \in asleep : waiting' = [waiting EXCEPT ![t] = "write_woken"]

\* pthread_cond_wait may return without a reason.
Spurious(t) ==
    /\ \/ waiting[t] = "read"  /\ waiting' = [waiting EXCEPT ![t] = "read_woken"]
       \/ waiting[t] = "write" /\ waiting' = [waiting EXCEPT ![t] = "write_woken"]
    /\ UNCHANGED <<r_active, w_active, r_wait, w_wait, w_owner, reads, writes>>

----------------------------------------------------------------------------
(* Reading.                                                                *)

TakeRead(t) ==
    /\ r_active' = r_active + 1
    /\ \E i \in 1 .. MaxDepth : <<t, i>> \notin reads /\ reads' = reads \cup {<<t, i>>}
    /\ UNCHANGED <<w_active, w_wait, w_owner, writes>>

\* Mistaken variant: lets readers in while somebody else writes.
AlwaysReadable(t) == TRUE

\* Not (w_active and w_owner is somebody else)
Readable(t) == w_active = 0 \/ w_owner = t

\* rwl_readlock, and rwl_readtrylock where it does not say EBUSY
ReadLock(t) ==
    /\ Running(t)
    /\ Readable(t)
    /\ TakeRead(t)
    /\ UNCHANGED <<r_wait, waiting>>

ReadWait(t) ==
    /\ Running(t)
    /\ ~Readable(t)
    /\ r_wait' = r_wait + 1
    /\ waiting' = [waiting EXCEPT ![t] = "read"]
    /\ UNCHANGED <<r_active, w_active, w_wait, w_owner, reads, writes>>

ReadWake(t) ==
    /\ waiting[t] = "read_woken"
    /\ IF w_active > 0
         THEN /\ waiting' = [waiting EXCEPT ![t] = "read"]
              /\ UNCHANGED <<r_active, w_active, r_wait, w_wait, w_owner, reads, writes>>
         ELSE /\ TakeRead(t)
              /\ r_wait' = r_wait - 1
              /\ waiting' = [waiting EXCEPT ![t] = "no"]

\* Mistaken variant: the last reader does not look for writers.
LeavesSilently == UNCHANGED waiting

\* What the last reader does for the writers.
LastReaderOut ==
    IF r_active' = 0 /\ w_active = 0 /\ w_wait > 0 THEN SignalWrite ELSE UNCHANGED waiting

\* rwl_readunlock
ReadUnlock(t) ==
    /\ Running(t)
    /\ \E i \in 1 .. MaxDepth : <<t, i>> \in reads /\ reads' = reads \ {<<t, i>>}
    /\ r_active' = r_active - 1
    /\ LastReaderOut
    /\ UNCHANGED <<w_active, r_wait, w_wait, w_owner, writes>>

----------------------------------------------------------------------------
(* Writing.                                                                *)

TakeWrite(t) ==
    /\ w_active' = w_active + 1
    /\ w_owner' = t
    /\ writes' = [writes EXCEPT ![t] = @ + 1]
    /\ UNCHANGED <<r_active, r_wait, reads>>

\* Mistaken variant: forgets the readers.
FreeOfWriters(t) == w_active = 0 \/ w_owner = t

\* Not ((w_active or r_active) and (w_active == 0 or w_owner is somebody else))
Writable(t) == (w_active = 0 /\ r_active = 0) \/ (w_active > 0 /\ w_owner = t)

\* The callers lock for writing only if they do not hold the lock for reading
\* alone: that would be waiting for themselves (chatnet.c, "we can't call
\* KickPlayer in here because we have the ...").
MayWrite(t) == Running(t) /\ writes[t] < MaxDepth /\ (writes[t] > 0 \/ ~Reading(t))

\* rwl_writelock, and rwl_writetrylock where it does not say EBUSY
WriteLock(t) ==
    /\ MayWrite(t)
    /\ Writable(t)
    /\ TakeWrite(t)
    /\ UNCHANGED <<w_wait, waiting>>

WriteWait(t) ==
    /\ MayWrite(t)
    /\ ~Writable(t)
    /\ w_wait' = w_wait + 1
    /\ waiting' = [waiting EXCEPT ![t] = "write"]
    /\ UNCHANGED <<r_active, w_active, r_wait, w_owner, reads, writes>>

WriteWake(t) ==
    /\ waiting[t] = "write_woken"
    /\ IF w_active > 0 \/ r_active > 0
         THEN /\ waiting' = [waiting EXCEPT ![t] = "write"]
              /\ UNCHANGED <<r_active, w_active, r_wait, w_wait, w_owner, reads, writes>>
         ELSE /\ TakeWrite(t)
              /\ w_wait' = w_wait - 1
              /\ waiting' = [waiting EXCEPT ![t] = "no"]

\* What a writer who is done does for those who wait: readers come first.
LastWriterOut ==
    IF w_active' > 0 THEN UNCHANGED waiting
    ELSE IF r_wait > 0 THEN BroadcastRead
    ELSE IF r_active = 0 /\ w_wait > 0 THEN SignalWrite
    ELSE UNCHANGED waiting

\* rwl_writeunlock
WriteUnlock(t) ==
    /\ Running(t)
    /\ writes[t] > 0
    /\ w_active' = w_active - 1
    /\ writes' = [writes EXCEPT ![t] = @ - 1]
    /\ LastWriterOut
    /\ UNCHANGED <<r_active, r_wait, w_wait, w_owner, reads>>

----------------------------------------------------------------------------
Ask(t) == ReadLock(t) \/ ReadWait(t) \/ WriteLock(t) \/ WriteWait(t)
Wake(t) == ReadWake(t) \/ WriteWake(t)
Release(t) == ReadUnlock(t) \/ WriteUnlock(t)

Next == \E t \in Threads : Ask(t) \/ Wake(t) \/ Release(t) \/ Spurious(t)

Spec == Init /\ [][Next]_vars

\* Threads that are awake go on, and those that hold the lock let it go.
Fairness == \A t \in Threads : WF_vars(Wake(t)) /\ WF_vars(Release(t))
FairSpec == Spec /\ Fairness

----------------------------------------------------------------------------
(* Properties.                                                             *)

TypeOK ==
    /\ r_active \in Nat /\ w_active \in Nat /\ r_wait \in Nat /\ w_wait \in Nat
    /\ w_owner \in Threads
    /\ waiting \in [Threads -> Places]
    /\ reads \subseteq Threads \X (1 .. MaxDepth)
    /\ writes \in [Threads -> Nat]

\* While a thread writes nobody else reads or writes (rwlock.c: "shared read
\* access or exclusive write access"), however the two are nested, released in
\* whatever order, and whoever is woken.
Exclusion ==
    \A t, u \in Threads :
        writes[t] > 0 /\ t # u => writes[u] = 0 /\ ~Reading(u)

\* Nobody sleeps while the lock is free and nobody is about to take it: the
\* wake-ups of rwl_readunlock and rwl_writeunlock are enough, even if others
\* take the lock before those who were woken.
WakeUpsAreNotLost ==
    \A t \in Threads :
        /\ waiting[t] = "read" => w_active > 0
        /\ waiting[t] = "write" =>
               \/ w_active > 0 \/ r_active > 0
               \/ \E u \in Threads : waiting[u] \in {"read_woken", "write_woken"}

\* If from some time on nobody asks for the lock, all who wait for it get it.
WaitersGetIn ==
    <>[][~\E t \in Threads : Ask(t)]_vars =>
        \A t \in Threads : ~Running(t) ~> Running(t)

\* The counters say what the threads hold and wait for.
CountersAgree ==
    /\ r_active = Cardinality(reads)
    /\ \A t \in Threads : writes[t] = IF t = w_owner THEN w_active ELSE 0
    /\ r_wait = Cardinality(ReadWaiters)
    /\ w_wait = Cardinality(WriteWaiters)

\* All of it together: it is preserved by every step.
LockInv == TypeOK /\ CountersAgree /\ Exclusion /\ WakeUpsAreNotLost
=============================================================================
