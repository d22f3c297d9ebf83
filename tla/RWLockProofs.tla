---------------------------- MODULE RWLockProofs ----------------------------
(***************************************************************************)
(* The reader/writer lock is safe, for any number of threads.              *)
(***************************************************************************)
EXTENDS RWLock, FiniteSetTheorems, TLAPS

\* The sets that the counters count are finite.
LEMMA SetsFinite ==
    ASSUME TypeOK
    PROVE  IsFiniteSet(reads) /\ IsFiniteSet(ReadWaiters) /\ IsFiniteSet(WriteWaiters)
<1>1. ReadWaiters \subseteq Threads /\ WriteWaiters \subseteq Threads
  BY DEF ReadWaiters, WriteWaiters
<1>2. IsFiniteSet(1 .. MaxDepth)
  BY LockAssumption, FS_Interval
<1>3. IsFiniteSet(Threads \X (1 .. MaxDepth))
  BY <1>2, LockAssumption, FS_Product
<1> QED
  BY <1>1, <1>3, LockAssumption, FS_Subset DEF TypeOK

LEMMA InitLock == Init => LockInv
<1> SUFFICES ASSUME Init PROVE LockInv
  OBVIOUS
<1>1. TypeOK
  BY LockAssumption DEF Init, TypeOK, Places
<1>2. reads = {} /\ ReadWaiters = {} /\ WriteWaiters = {}
  BY DEF Init, ReadWaiters, WriteWaiters
<1>3. CountersAgree
  BY <1>2, FS_EmptySet DEF Init, CountersAgree
<1>4. Exclusion /\ WakeUpsAreNotLost
  BY DEF Init, Exclusion, WakeUpsAreNotLost
<1> QED
  BY <1>1, <1>3, <1>4 DEF LockInv

\* A thread that takes the lock for reading is counted, and is let in only if
\* nobody else writes.
LEMMA TakeReadSafe ==
    ASSUME LockInv, NEW t \in Threads, TakeRead(t), Readable(t)
    PROVE  /\ r_active' \in Nat
           /\ reads' \subseteq Threads \X (1 .. MaxDepth)
           /\ r_active' = Cardinality(reads')
           /\ Exclusion'
<1>1. PICK i \in 1 .. MaxDepth : <<t, i>> \notin reads /\ reads' = reads \cup {<<t, i>>}
  BY DEF TakeRead
<1>2. Cardinality(reads') = Cardinality(reads) + 1
  BY <1>1, SetsFinite, FS_AddElement DEF LockInv
<1>3. r_active' = Cardinality(reads') /\ r_active' \in Nat
  BY <1>2 DEF LockInv, TypeOK, CountersAgree, TakeRead
<1>4. \A u \in Threads : u # t => (Reading(u)' <=> Reading(u)) /\ (writes[u] = 0)
  BY <1>1 DEF Reading, Readable, LockInv, CountersAgree, TypeOK
<1>5. Exclusion'
  BY <1>4 DEF Exclusion, LockInv, TakeRead
<1> QED
  BY <1>1, <1>3, <1>5 DEF LockInv, TypeOK

\* Likewise for writing.
LEMMA TakeWriteSafe ==
    ASSUME LockInv, NEW t \in Threads, TakeWrite(t), Writable(t)
    PROVE  /\ w_active' \in Nat /\ w_owner' \in Threads
           /\ writes' \in [Threads -> Nat]
           /\ \A u \in Threads : writes'[u] = IF u = w_owner' THEN w_active' ELSE 0
           /\ Exclusion'
<1>1. /\ w_active' = w_active + 1 /\ w_owner' = t
      /\ writes' = [writes EXCEPT ![t] = @ + 1]
      /\ UNCHANGED reads
  BY DEF TakeWrite
<1>2. \A u \in Threads : u # t => writes[u] = 0 /\ ~Reading(u)
  <2>1. CASE w_active = 0 /\ r_active = 0
    <3>1. reads = {}
      BY <2>1, SetsFinite, FS_EmptySet DEF LockInv, CountersAgree
    <3> QED
      BY <2>1, <3>1 DEF Reading, LockInv, CountersAgree, TypeOK
  <2>2. CASE w_active > 0 /\ w_owner = t
    BY <2>2 DEF LockInv, CountersAgree, Exclusion, TypeOK
  <2> QED
    BY <2>1, <2>2 DEF Writable
<1>3. writes[t] = w_active
  BY <1>2 DEF LockInv, CountersAgree, Writable, TypeOK
<1>4. Exclusion'
  BY <1>1, <1>2 DEF Exclusion, Reading, LockInv, TypeOK
<1> QED
  BY <1>1, <1>2, <1>3, <1>4 DEF LockInv, TypeOK

\* The condition variables move threads from sleep to wakefulness, and wake a
\* writer if there is one.
SameWaiters == ReadWaiters' = ReadWaiters /\ WriteWaiters' = WriteWaiters

LEMMA BroadcastSafe ==
    ASSUME TypeOK, BroadcastRead
    PROVE  /\ waiting' \in [Threads -> Places] /\ SameWaiters
           /\ \A t \in Threads : waiting'[t] # "read"
           /\ \A t \in ReadWaiters : waiting'[t] = "read_woken"
BY DEF TypeOK, BroadcastRead, SameWaiters, ReadWaiters, WriteWaiters, Places

LEMMA SignalSafe ==
    ASSUME TypeOK, SignalWrite
    PROVE  /\ waiting' \in [Threads -> Places] /\ SameWaiters
           /\ \A t \in Threads : waiting'[t] = "read" <=> waiting[t] = "read"
           /\ \/ \A t \in Threads : waiting'[t] # "write"
              \/ \E t \in Threads : waiting'[t] = "write_woken"
<1>1. CASE {t \in Threads : waiting[t] = "write"} = {} /\ UNCHANGED waiting
  BY <1>1 DEF TypeOK, SameWaiters, ReadWaiters, WriteWaiters
<1>2. ASSUME NEW t \in Threads, waiting[t] = "write",
             waiting' = [waiting EXCEPT ![t] = "write_woken"]
      PROVE  /\ waiting' \in [Threads -> Places] /\ SameWaiters
             /\ \A u \in Threads : waiting'[u] = "read" <=> waiting[u] = "read"
             /\ \E u \in Threads : waiting'[u] = "write_woken"
  <2>1. waiting'[t] = "write_woken" /\ \A u \in Threads : u # t => waiting'[u] = waiting[u]
    BY <1>2 DEF TypeOK
  <2>2. waiting' \in [Threads -> Places]
    BY <1>2 DEF TypeOK, Places
  <2>3. SameWaiters
    BY <1>2, <2>1 DEF SameWaiters, ReadWaiters, WriteWaiters
  <2> QED
    BY <1>2, <2>1, <2>2, <2>3
<1> QED
  BY <1>1, <1>2 DEF SignalWrite

\* A thread that waits is counted, and not counted any more when it has the lock.
LEMMA WaitCount ==
    ASSUME TypeOK, CountersAgree, NEW t \in Threads, NEW s \in {"no", "read", "write"},
           waiting' = [waiting EXCEPT ![t] = s]
    PROVE  /\ waiting' \in [Threads -> Places]
           /\ s = "read" /\ waiting[t] = "no" =>
                 Cardinality(ReadWaiters') = r_wait + 1 /\ WriteWaiters' = WriteWaiters
           /\ s = "write" /\ waiting[t] = "no" =>
                 Cardinality(WriteWaiters') = w_wait + 1 /\ ReadWaiters' = ReadWaiters
           /\ s = "no" /\ waiting[t] = "read_woken" =>
                 /\ r_wait > 0
                 /\ Cardinality(ReadWaiters') = r_wait - 1 /\ WriteWaiters' = WriteWaiters
           /\ s = "no" /\ waiting[t] = "write_woken" =>
                 /\ w_wait > 0
                 /\ Cardinality(WriteWaiters') = w_wait - 1 /\ ReadWaiters' = ReadWaiters
<1>1. waiting'[t] = s /\ \A u \in Threads : u # t => waiting'[u] = waiting[u]
  BY DEF TypeOK
<1>2. waiting' \in [Threads -> Places]
  BY DEF TypeOK, Places
<1>3. IsFiniteSet(ReadWaiters) /\ IsFiniteSet(WriteWaiters)
  BY SetsFinite
<1>4. ASSUME s = "read", waiting[t] = "no"
      PROVE  Cardinality(ReadWaiters') = r_wait + 1 /\ WriteWaiters' = WriteWaiters
  <2>1. ReadWaiters' = ReadWaiters \cup {t} /\ t \notin ReadWaiters
        /\ WriteWaiters' = WriteWaiters
    BY <1>1, <1>4 DEF ReadWaiters, WriteWaiters
  <2> QED
    BY <1>3, <2>1, FS_AddElement DEF CountersAgree
<1>5. ASSUME s = "write", waiting[t] = "no"
      PROVE  Cardinality(WriteWaiters') = w_wait + 1 /\ ReadWaiters' = ReadWaiters
  <2>1. WriteWaiters' = WriteWaiters \cup {t} /\ t \notin WriteWaiters
        /\ ReadWaiters' = ReadWaiters
    BY <1>1, <1>5 DEF ReadWaiters, WriteWaiters
  <2> QED
    BY <1>3, <2>1, FS_AddElement DEF CountersAgree
<1>6. ASSUME s = "no", waiting[t] = "read_woken"
      PROVE  /\ r_wait > 0
             /\ Cardinality(ReadWaiters') = r_wait - 1 /\ WriteWaiters' = WriteWaiters
  <2>1. ReadWaiters' = ReadWaiters \ {t} /\ t \in ReadWaiters
        /\ WriteWaiters' = WriteWaiters
    BY <1>1, <1>6 DEF ReadWaiters, WriteWaiters
  <2>2. Cardinality(ReadWaiters) # 0
    BY <1>3, <2>1, FS_EmptySet
  <2>3. Cardinality(ReadWaiters') = Cardinality(ReadWaiters) - 1
    BY <1>3, <2>1, FS_RemoveElement
  <2>4. r_wait \in Nat /\ r_wait = Cardinality(ReadWaiters)
    BY DEF CountersAgree, TypeOK
  <2> QED
    BY <2>1, <2>2, <2>3, <2>4
<1>7. ASSUME s = "no", waiting[t] = "write_woken"
      PROVE  /\ w_wait > 0
             /\ Cardinality(WriteWaiters') = w_wait - 1 /\ ReadWaiters' = ReadWaiters
  <2>1. WriteWaiters' = WriteWaiters \ {t} /\ t \in WriteWaiters
        /\ ReadWaiters' = ReadWaiters
    BY <1>1, <1>7 DEF ReadWaiters, WriteWaiters
  <2>2. Cardinality(WriteWaiters) # 0
    BY <1>3, <2>1, FS_EmptySet
  <2>3. Cardinality(WriteWaiters') = Cardinality(WriteWaiters) - 1
    BY <1>3, <2>1, FS_RemoveElement
  <2>4. w_wait \in Nat /\ w_wait = Cardinality(WriteWaiters)
    BY DEF CountersAgree, TypeOK
  <2> QED
    BY <2>1, <2>2, <2>3, <2>4
<1> QED
  BY <1>2, <1>4, <1>5, <1>6, <1>7

----------------------------------------------------------------------------
(* Each action preserves the invariant.                                    *)

LEMMA ReadLockSafe == ASSUME LockInv, NEW t \in Threads, ReadLock(t) PROVE LockInv'
<1>1. TakeRead(t) /\ Readable(t) /\ UNCHANGED <<r_wait, waiting, w_active, w_wait, w_owner, writes>>
  BY DEF ReadLock, TakeRead
<1>2. /\ r_active' \in Nat /\ reads' \subseteq Threads \X (1 .. MaxDepth)
      /\ r_active' = Cardinality(reads') /\ Exclusion'
  BY <1>1, TakeReadSafe
<1>3. TypeOK' /\ CountersAgree'
  BY <1>1, <1>2 DEF LockInv, TypeOK, CountersAgree, ReadWaiters, WriteWaiters
<1>4. r_active' > 0
  BY <1>1 DEF TakeRead, LockInv, TypeOK
<1>5. WakeUpsAreNotLost'
  BY <1>1, <1>4 DEF LockInv, WakeUpsAreNotLost
<1> QED
  BY <1>2, <1>3, <1>5 DEF LockInv

LEMMA ReadWaitSafe == ASSUME LockInv, NEW t \in Threads, ReadWait(t) PROVE LockInv'
<1>1. /\ waiting[t] = "no" /\ waiting' = [waiting EXCEPT ![t] = "read"]
      /\ r_wait' = r_wait + 1 /\ w_active > 0
      /\ UNCHANGED <<r_active, w_active, w_wait, w_owner, reads, writes>>
  BY DEF ReadWait, Running, Readable, LockInv, TypeOK
<1>2. /\ waiting' \in [Threads -> Places]
      /\ Cardinality(ReadWaiters') = r_wait + 1 /\ WriteWaiters' = WriteWaiters
  BY <1>1, WaitCount DEF LockInv
<1>3. TypeOK' /\ CountersAgree'
  BY <1>1, <1>2 DEF LockInv, TypeOK, CountersAgree
<1>4. Exclusion' /\ WakeUpsAreNotLost'
  BY <1>1 DEF LockInv, Exclusion, Reading, WakeUpsAreNotLost
<1> QED
  BY <1>3, <1>4 DEF LockInv

LEMMA ReadWakeSafe == ASSUME LockInv, NEW t \in Threads, ReadWake(t) PROVE LockInv'
<1>1. CASE w_active > 0
  <2>1. /\ waiting[t] = "read_woken" /\ waiting' = [waiting EXCEPT ![t] = "read"]
        /\ UNCHANGED <<r_active, w_active, r_wait, w_wait, w_owner, reads, writes>>
    BY <1>1 DEF ReadWake
  <2>2. SameWaiters
    BY <2>1 DEF SameWaiters, ReadWaiters, WriteWaiters, LockInv, TypeOK
  <2>3. TypeOK' /\ CountersAgree'
    BY <2>1, <2>2 DEF LockInv, TypeOK, CountersAgree, SameWaiters, Places
  <2>4. Exclusion' /\ WakeUpsAreNotLost'
    BY <1>1, <2>1 DEF LockInv, Exclusion, Reading, WakeUpsAreNotLost
  <2> QED
    BY <2>3, <2>4 DEF LockInv
<1>2. CASE ~(w_active > 0)
  <2>1. /\ waiting[t] = "read_woken" /\ waiting' = [waiting EXCEPT ![t] = "no"]
        /\ TakeRead(t) /\ r_wait' = r_wait - 1 /\ w_active = 0
        /\ UNCHANGED <<w_active, w_wait, w_owner, writes>>
    BY <1>2 DEF ReadWake, TakeRead, LockInv, TypeOK
  <2>2. /\ r_active' \in Nat /\ reads' \subseteq Threads \X (1 .. MaxDepth)
        /\ r_active' = Cardinality(reads') /\ Exclusion'
    BY <2>1, TakeReadSafe DEF Readable
  <2>3. /\ waiting' \in [Threads -> Places] /\ r_wait > 0
        /\ Cardinality(ReadWaiters') = r_wait - 1 /\ WriteWaiters' = WriteWaiters
    BY <2>1, WaitCount DEF LockInv
  <2>4. TypeOK' /\ CountersAgree'
    BY <2>1, <2>2, <2>3 DEF LockInv, TypeOK, CountersAgree
  <2>5. r_active' > 0
    BY <2>1 DEF TakeRead, LockInv, TypeOK
  <2>6. \A u \in Threads : waiting'[u] # "read"
    BY <2>1 DEF LockInv, WakeUpsAreNotLost, TypeOK
  <2>7. WakeUpsAreNotLost'
    BY <2>5, <2>6 DEF WakeUpsAreNotLost
  <2> QED
    BY <2>2, <2>4, <2>7 DEF LockInv
<1> QED
  BY <1>1, <1>2

LEMMA ReadUnlockSafe == ASSUME LockInv, NEW t \in Threads, ReadUnlock(t) PROVE LockInv'
<1>1. /\ r_active' = r_active - 1 /\ LastReaderOut
      /\ UNCHANGED <<w_active, r_wait, w_wait, w_owner, writes>>
  BY DEF ReadUnlock
<1>2. PICK i \in 1 .. MaxDepth : <<t, i>> \in reads /\ reads' = reads \ {<<t, i>>}
  BY DEF ReadUnlock
<1>3. r_active' = Cardinality(reads') /\ r_active' \in Nat
  <2>1. Cardinality(reads) # 0
    BY <1>2, SetsFinite, FS_EmptySet DEF LockInv
  <2>2. Cardinality(reads') = Cardinality(reads) - 1
    BY <1>2, SetsFinite, FS_RemoveElement DEF LockInv
  <2> QED
    BY <1>1, <2>1, <2>2 DEF LockInv, CountersAgree, TypeOK
<1>4. /\ waiting' \in [Threads -> Places] /\ SameWaiters
      /\ WakeUpsAreNotLost'
  <2>1. CASE r_active' = 0 /\ w_active = 0 /\ w_wait > 0
    <3>1. SignalWrite
      BY <1>1, <2>1 DEF LastReaderOut
    <3> QED
      BY <1>1, <2>1, <3>1, SignalSafe DEF LockInv, WakeUpsAreNotLost
  <2>2. CASE ~(r_active' = 0 /\ w_active = 0 /\ w_wait > 0)
    <3>1. UNCHANGED waiting
      BY <1>1, <2>2 DEF LastReaderOut
    <3>2. w_wait = 0 => \A u \in Threads : waiting[u] # "write"
      <4>1. w_wait = Cardinality(WriteWaiters) /\ IsFiniteSet(WriteWaiters)
        BY SetsFinite DEF LockInv, CountersAgree
      <4>2. w_wait = 0 => WriteWaiters = {}
        BY <4>1, FS_EmptySet
      <4> QED
        BY <4>2 DEF WriteWaiters
    <3>3. w_active \in Nat /\ w_wait \in Nat
      BY DEF LockInv, TypeOK
    <3>4. r_active' > 0 \/ w_active > 0 \/ w_wait = 0
      BY <1>3, <2>2, <3>3
    <3>5. ASSUME NEW u \in Threads, waiting[u] = "read" PROVE w_active > 0
      BY <3>5 DEF LockInv, WakeUpsAreNotLost
    <3>6. ASSUME NEW u \in Threads, waiting[u] = "write" PROVE w_active > 0 \/ r_active' > 0
      BY <3>2, <3>4, <3>6
    <3>7. WakeUpsAreNotLost'
      BY <1>1, <3>1, <3>5, <3>6 DEF WakeUpsAreNotLost
    <3> QED
      BY <3>1, <3>7 DEF LockInv, TypeOK, SameWaiters, ReadWaiters, WriteWaiters
  <2> QED
    BY <2>1, <2>2
<1>5. TypeOK' /\ CountersAgree'
  BY <1>1, <1>2, <1>3, <1>4 DEF LockInv, TypeOK, CountersAgree, SameWaiters
<1>6. Exclusion'
  BY <1>1, <1>2 DEF LockInv, Exclusion, Reading
<1> QED
  BY <1>4, <1>5, <1>6 DEF LockInv

LEMMA WriteLockSafe == ASSUME LockInv, NEW t \in Threads, WriteLock(t) PROVE LockInv'
<1>1. TakeWrite(t) /\ Writable(t) /\ UNCHANGED <<w_wait, waiting, r_active, r_wait, reads>>
  BY DEF WriteLock, TakeWrite
<1>2. /\ w_active' \in Nat /\ w_owner' \in Threads /\ writes' \in [Threads -> Nat]
      /\ \A u \in Threads : writes'[u] = IF u = w_owner' THEN w_active' ELSE 0
      /\ Exclusion'
  BY <1>1, TakeWriteSafe
<1>3. TypeOK' /\ CountersAgree'
  BY <1>1, <1>2 DEF LockInv, TypeOK, CountersAgree, ReadWaiters, WriteWaiters
<1>4. w_active' > 0
  BY <1>1 DEF TakeWrite, LockInv, TypeOK
<1>5. WakeUpsAreNotLost'
  BY <1>4 DEF WakeUpsAreNotLost
<1> QED
  BY <1>2, <1>3, <1>5 DEF LockInv

LEMMA WriteWaitSafe == ASSUME LockInv, NEW t \in Threads, WriteWait(t) PROVE LockInv'
<1>1. /\ waiting[t] = "no" /\ waiting' = [waiting EXCEPT ![t] = "write"]
      /\ w_wait' = w_wait + 1 /\ (w_active > 0 \/ r_active > 0)
      /\ UNCHANGED <<r_active, w_active, r_wait, w_owner, reads, writes>>
  BY DEF WriteWait, MayWrite, Running, Writable, LockInv, TypeOK
<1>2. /\ waiting' \in [Threads -> Places]
      /\ Cardinality(WriteWaiters') = w_wait + 1 /\ ReadWaiters' = ReadWaiters
  BY <1>1, WaitCount DEF LockInv
<1>3. TypeOK' /\ CountersAgree'
  BY <1>1, <1>2 DEF LockInv, TypeOK, CountersAgree
<1>4. \A u \in Threads : waiting'[u] = "read" => waiting[u] = "read"
  BY <1>1 DEF LockInv, TypeOK
<1>5. Exclusion' /\ WakeUpsAreNotLost'
  BY <1>1, <1>4 DEF LockInv, Exclusion, Reading, WakeUpsAreNotLost
<1> QED
  BY <1>3, <1>5 DEF LockInv

LEMMA WriteWakeSafe == ASSUME LockInv, NEW t \in Threads, WriteWake(t) PROVE LockInv'
<1>1. CASE w_active > 0 \/ r_active > 0
  <2>1. /\ waiting[t] = "write_woken" /\ waiting' = [waiting EXCEPT ![t] = "write"]
        /\ UNCHANGED <<r_active, w_active, r_wait, w_wait, w_owner, reads, writes>>
    BY <1>1 DEF WriteWake
  <2>2. SameWaiters
    BY <2>1 DEF SameWaiters, ReadWaiters, WriteWaiters, LockInv, TypeOK
  <2>3. TypeOK' /\ CountersAgree'
    BY <2>1, <2>2 DEF LockInv, TypeOK, CountersAgree, SameWaiters, Places
  <2>4. \A u \in Threads : waiting'[u] = "read" => waiting[u] = "read"
    BY <2>1 DEF LockInv, TypeOK
  <2>5. Exclusion' /\ WakeUpsAreNotLost'
    BY <1>1, <2>1, <2>4 DEF LockInv, Exclusion, Reading, WakeUpsAreNotLost
  <2> QED
    BY <2>3, <2>5 DEF LockInv
<1>2. CASE ~(w_active > 0 \/ r_active > 0)
  <2>1. /\ waiting[t] = "write_woken" /\ waiting' = [waiting EXCEPT ![t] = "no"]
        /\ TakeWrite(t) /\ w_wait' = w_wait - 1 /\ w_active = 0 /\ r_active = 0
        /\ UNCHANGED <<r_active, r_wait, reads>>
    BY <1>2 DEF WriteWake, TakeWrite, LockInv, TypeOK
  <2>2. /\ w_active' \in Nat /\ w_owner' \in Threads /\ writes' \in [Threads -> Nat]
        /\ \A u \in Threads : writes'[u] = IF u = w_owner' THEN w_active' ELSE 0
        /\ Exclusion'
    BY <2>1, TakeWriteSafe DEF Writable
  <2>3. /\ waiting' \in [Threads -> Places] /\ w_wait > 0
        /\ Cardinality(WriteWaiters') = w_wait - 1 /\ ReadWaiters' = ReadWaiters
    BY <2>1, WaitCount DEF LockInv
  <2>4. TypeOK' /\ CountersAgree'
    <3>1. r_wait' = Cardinality(ReadWaiters') /\ w_wait' = Cardinality(WriteWaiters')
      BY <2>1, <2>3 DEF LockInv, CountersAgree
    <3>2. w_wait' \in Nat
      BY <2>1, <2>3 DEF LockInv, TypeOK
    <3>3. TypeOK'
      BY <2>1, <2>2, <2>3, <3>2 DEF LockInv, TypeOK
    <3>4. r_active' = Cardinality(reads')
      BY <2>1 DEF LockInv, CountersAgree
    <3> QED
      BY <2>2, <3>1, <3>3, <3>4 DEF CountersAgree
  <2>5. w_active' > 0
    BY <2>1 DEF TakeWrite, LockInv, TypeOK
  <2>6. WakeUpsAreNotLost'
    BY <2>5 DEF WakeUpsAreNotLost
  <2> QED
    BY <2>2, <2>4, <2>6 DEF LockInv
<1> QED
  BY <1>1, <1>2

LEMMA WriteUnlockSafe == ASSUME LockInv, NEW t \in Threads, WriteUnlock(t) PROVE LockInv'
<1>1. /\ writes[t] > 0 /\ w_active' = w_active - 1
      /\ writes' = [writes EXCEPT ![t] = @ - 1] /\ LastWriterOut
      /\ UNCHANGED <<r_active, r_wait, w_wait, w_owner, reads>>
  BY DEF WriteUnlock
<1>2. t = w_owner /\ writes[t] = w_active /\ w_active' \in Nat
  BY <1>1 DEF LockInv, CountersAgree, TypeOK
<1>3. /\ writes' \in [Threads -> Nat]
      /\ \A u \in Threads : writes'[u] = IF u = w_owner' THEN w_active' ELSE 0
  BY <1>1, <1>2 DEF LockInv, CountersAgree, TypeOK
<1>4. /\ r_wait = 0 => \A u \in Threads : waiting[u] # "read"
      /\ w_wait = 0 => \A u \in Threads : waiting[u] # "write"
      /\ r_wait > 0 => ReadWaiters # {}
  BY SetsFinite, FS_EmptySet DEF LockInv, CountersAgree, ReadWaiters, WriteWaiters
<1>5. /\ waiting' \in [Threads -> Places] /\ SameWaiters
      /\ WakeUpsAreNotLost'
  <2>1. CASE w_active' > 0
    <3>1. UNCHANGED waiting
      BY <1>1, <2>1 DEF LastWriterOut
    <3> QED
      BY <2>1, <3>1 DEF LockInv, TypeOK, SameWaiters, ReadWaiters, WriteWaiters, WakeUpsAreNotLost
  <2>2. CASE ~(w_active' > 0) /\ r_wait > 0
    <3>1. BroadcastRead
      BY <1>1, <2>2 DEF LastWriterOut
    <3>2. /\ waiting' \in [Threads -> Places] /\ SameWaiters
          /\ \A u \in Threads : waiting'[u] # "read"
          /\ \A u \in ReadWaiters : waiting'[u] = "read_woken"
      BY <3>1, BroadcastSafe DEF LockInv
    <3>3. \E u \in Threads : waiting'[u] = "read_woken"
      BY <1>4, <2>2, <3>2 DEF ReadWaiters
    <3> QED
      BY <3>2, <3>3 DEF WakeUpsAreNotLost
  <2>3. CASE ~(w_active' > 0) /\ ~(r_wait > 0) /\ r_active = 0 /\ w_wait > 0
    <3>1. SignalWrite
      BY <1>1, <2>3 DEF LastWriterOut
    <3>2. /\ waiting' \in [Threads -> Places] /\ SameWaiters
          /\ \A u \in Threads : waiting'[u] = "read" <=> waiting[u] = "read"
          /\ \/ \A u \in Threads : waiting'[u] # "write"
             \/ \E u \in Threads : waiting'[u] = "write_woken"
      BY <3>1, SignalSafe DEF LockInv
    <3>3. r_wait = 0
      BY <2>3 DEF LockInv, TypeOK
    <3> QED
      BY <1>4, <3>2, <3>3 DEF WakeUpsAreNotLost
  <2>4. CASE ~(w_active' > 0) /\ ~(r_wait > 0) /\ ~(r_active = 0 /\ w_wait > 0)
    <3>1. UNCHANGED waiting
      BY <1>1, <2>4 DEF LastWriterOut
    <3>2. r_wait = 0 /\ (r_active > 0 \/ w_wait = 0)
      BY <2>4 DEF LockInv, TypeOK
    <3>3. WakeUpsAreNotLost'
      BY <1>1, <1>4, <3>1, <3>2 DEF WakeUpsAreNotLost
    <3> QED
      BY <3>1, <3>3 DEF LockInv, TypeOK, SameWaiters, ReadWaiters, WriteWaiters
  <2> QED
    BY <2>1, <2>2, <2>3, <2>4
<1>6. TypeOK' /\ CountersAgree'
  BY <1>1, <1>2, <1>3, <1>5 DEF LockInv, TypeOK, CountersAgree, SameWaiters
<1>7. Exclusion'
  BY <1>1, <1>2 DEF LockInv, Exclusion, Reading, TypeOK
<1> QED
  BY <1>5, <1>6, <1>7 DEF LockInv

LEMMA SpuriousSafe == ASSUME LockInv, NEW t \in Threads, Spurious(t) PROVE LockInv'
<1>1. PICK s \in {"read_woken", "write_woken"} :
         /\ waiting' = [waiting EXCEPT ![t] = s]
         /\ s = "read_woken" => waiting[t] = "read"
         /\ s = "write_woken" => waiting[t] = "write"
  BY DEF Spurious
<1>2. UNCHANGED <<r_active, w_active, r_wait, w_wait, w_owner, reads, writes>>
  BY DEF Spurious
<1>3. waiting'[t] = s /\ \A u \in Threads : u # t => waiting'[u] = waiting[u]
  BY <1>1 DEF LockInv, TypeOK
<1>4. SameWaiters
  BY <1>1, <1>3 DEF SameWaiters, ReadWaiters, WriteWaiters
<1>5. TypeOK' /\ CountersAgree'
  BY <1>1, <1>2, <1>4 DEF LockInv, TypeOK, CountersAgree, SameWaiters, Places
<1>6. Exclusion' /\ WakeUpsAreNotLost'
  BY <1>2, <1>3 DEF LockInv, Exclusion, Reading, WakeUpsAreNotLost
<1> QED
  BY <1>5, <1>6 DEF LockInv

LEMMA NextLock == LockInv /\ [Next]_vars => LockInv'
<1> SUFFICES ASSUME LockInv, [Next]_vars PROVE LockInv'
  OBVIOUS
<1>1. ASSUME UNCHANGED vars PROVE LockInv'
  BY <1>1 DEF vars, LockInv, TypeOK, CountersAgree, Exclusion, WakeUpsAreNotLost,
              Reading, ReadWaiters, WriteWaiters
<1> QED
  BY <1>1, ReadLockSafe, ReadWaitSafe, ReadWakeSafe, ReadUnlockSafe, WriteLockSafe,
     WriteWaitSafe, WriteWakeSafe, WriteUnlockSafe, SpuriousSafe
     DEF Next, Ask, Wake, Release

----------------------------------------------------------------------------
\* The counters of the lock always say what is held and who waits.
THEOREM LockInvariant == Spec => []LockInv
<1> QED
  BY InitLock, NextLock, PTL DEF Spec

\* A writer is alone, however the threads nest and order what they do.
THEOREM WritersAreAlone == Spec => []Exclusion
<1>1. LockInv => Exclusion
  BY DEF LockInv
<1> QED
  BY <1>1, LockInvariant, PTL

\* Nobody sleeps beside a free lock.
THEOREM NobodySleepsBesideAFreeLock == Spec => []WakeUpsAreNotLost
<1>1. LockInv => WakeUpsAreNotLost
  BY DEF LockInv
<1> QED
  BY <1>1, LockInvariant, PTL
=============================================================================
