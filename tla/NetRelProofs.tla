---------------------------- MODULE NetRelProofs ----------------------------
(***************************************************************************)
(* The safety of the reliable layer, for any number of packets, any size   *)
(* of the ring, any window and any number of retries: type correctness,    *)
(* the ring (RingInv) and with it the implementation of NetChannel, the    *)
(* acknowledgements (AckInv) and the callbacks (AnswerInv).                *)
(***************************************************************************)
EXTENDS NetRel, Sums

LEMMA ModIs ==
    ASSUME NEW b \in Nat \ {0}, NEW q \in Nat, NEW r \in 0 .. b - 1
    PROVE  (b * q + r) % b = r
<1> DEFINE x == b * q + r
           p == x \div b
           s == x % b
<1>1. x \in Nat
  OBVIOUS
<1>2. p \in Nat /\ s \in 0 .. b - 1 /\ x = b * p + s
  BY <1>1, Division
<1> HIDE DEF p, s
<1>3. b * p + s = b * q + r
  BY <1>2
<1>4. r = s
  BY <1>2, <1>3, NearMultiples
<1> QED BY <1>4 DEF s

LEMMA ModSuccessor ==
    ASSUME NEW b \in Nat \ {0}, NEW x \in Nat
    PROVE  ((x % b) + 1) % b = (x + 1) % b
<1> DEFINE q == x \div b
           r == x % b
<1>1. q \in Nat /\ r \in 0 .. b - 1 /\ x = b * q + r
  BY Division
<1> HIDE DEF q, r
<1>2. CASE r + 1 < b
  <2>1. r + 1 \in 0 .. b - 1 /\ x + 1 = b * q + (r + 1) /\ r + 1 = b * 0 + (r + 1)
    BY <1>1, <1>2
  <2>2. (x + 1) % b = r + 1
    BY <2>1, <1>1, ModIs
  <2>3. (r + 1) % b = r + 1
    BY <2>1, ModIs
  <2> QED BY <2>2, <2>3 DEF r
<1>3. CASE r + 1 = b
  <2>1. x + 1 = b * (q + 1) + 0 /\ r + 1 = b * 1 + 0 /\ q + 1 \in Nat /\ 0 \in 0 .. b - 1
    BY <1>1, <1>3
  <2>2. (x + 1) % b = 0
    BY <2>1, ModIs
  <2>3. (r + 1) % b = 0
    BY <2>1, ModIs
  <2> QED BY <2>2, <2>3 DEF r
<1> QED BY <1>1, <1>2, <1>3

----------------------------------------------------------------------------
(* Types.                                                                  *)

LEMMA TypesHold == Init => TypeOK
<1> SUFFICES ASSUME Init PROVE TypeOK
  OBVIOUS
<1>1. inbox \in Seq(Sns)
  BY DEF Init
<1>2. tries \in [Sns -> 0 .. MaxRetries] /\ relbuf \in [Spots -> Sns \union {None}] /\ spot \in Spots
  BY NetAssumption DEF Init, Spots
<1>3. clearing \in [buf : Sns \union {None}, next : Sns \union {None}] /\ s2cn \in 0 .. MaxSends
  BY NetAssumption DEF Init, NotClearing
<1> QED BY <1>1, <1>2, <1>3 DEF Init, TypeOK, Statuses

\* The parts of a step that several actions share.
LEMMA TypesOfParts ==
    ASSUME TypeOK
    PROVE  /\ \A sn : Remove(sn) => outlist' \subseteq outlist /\ tries' \in [Sns -> 0 .. MaxRetries]
           /\ \A list : \A buf \in Sns : CallFailed(buf, list) =>
                /\ clearing' \in [buf : Sns \union {None}, next : Sns \union {None}]
                /\ failed' \in SUBSET Sns /\ status' \in Statuses /\ broken' \in BOOLEAN
           /\ EndClear =>
                /\ clearing' \in [buf : Sns \union {None}, next : Sns \union {None}]
                /\ failed' \in SUBSET Sns /\ status' \in Statuses /\ broken' \in BOOLEAN
           /\ \A i \in Spots : TakeFrom(i) =>
                /\ hand' \in Sns \union {None} /\ c2sn' \in Nat
                /\ relbuf' \in [Spots -> Sns \union {None}] /\ spot' \in Spots
<1> USE NetAssumption DEF TypeOK
<1>1. ASSUME NEW sn, Remove(sn)
      PROVE  outlist' \subseteq outlist /\ tries' \in [Sns -> 0 .. MaxRetries]
  BY <1>1 DEF Remove
<1>2. ASSUME NEW buf \in Sns, NEW list, CallFailed(buf, list)
      PROVE  /\ clearing' \in [buf : Sns \union {None}, next : Sns \union {None}]
             /\ failed' \in SUBSET Sns /\ status' \in Statuses /\ broken' \in BOOLEAN
  BY <1>2 DEF CallFailed
<1>3. ASSUME EndClear
      PROVE  /\ clearing' \in [buf : Sns \union {None}, next : Sns \union {None}]
             /\ failed' \in SUBSET Sns /\ status' \in Statuses /\ broken' \in BOOLEAN
  BY <1>3 DEF EndClear, NotClearing, Statuses
<1>4. ASSUME NEW i \in Spots, TakeFrom(i)
      PROVE  /\ hand' \in Sns \union {None} /\ c2sn' \in Nat
             /\ relbuf' \in [Spots -> Sns \union {None}] /\ spot' \in Spots
  <2>1. CASE relbuf[i] = None
    BY <1>4, <2>1 DEF TakeFrom
  <2>2. CASE relbuf[i] # None
    <3>1. i + 1 \in Nat
      BY DEF Spots
    <3>2. (i + 1) % IncomingBuffer \in Spots
      BY <3>1, Division DEF Spots
    <3> QED BY <1>4, <2>2, <3>2 DEF TakeFrom
  <2> QED BY <2>1, <2>2
<1> QED BY <1>1, <1>2, <1>3, <1>4

LEMMA TypesStay == TypeOK /\ [Next]_vars => TypeOK'
<1> SUFFICES ASSUME TypeOK, [Next]_vars PROVE TypeOK'
  OBVIOUS
<1> USE NetAssumption DEF TypeOK, sender, receiver
<1>1. CASE BufferPacket
  BY <1>1 DEF BufferPacket, Sns
<1>2. ASSUME NEW cansend \in 1 .. CanBuffer, NEW tried \in SUBSET outlist, Transmit(cansend, tried)
      PROVE  TypeOK'
  <2>1. tries' \in [Sns -> 0 .. MaxRetries]
    BY <1>2 DEF Transmit, CountTries, Retriable
  <2>2. hit' \in BOOLEAN
    BY <1>2, Zenon DEF Transmit
  <2> QED BY <1>2, <2>1, <2>2 DEF Transmit
<1>3. ASSUME NEW cansend \in 1 .. CanBuffer, NEW tried \in SUBSET outlist,
             NEW last \in outlist, NEW flushed \in SUBSET tried, GiveUp(cansend, last, tried, flushed)
      PROVE  TypeOK'
  <2>1. tries' \in [Sns -> 0 .. MaxRetries]
    BY <1>3 DEF GiveUp, CountTries, Retriable
  <2> QED BY <1>3, <2>1 DEF GiveUp
<1>4. ASSUME NEW sn \in Sns, TakeAck(sn) PROVE TypeOK'
  BY <1>4 DEF TakeAck
<1>5. CASE FindAcked
  <2>1. outlist' \subseteq outlist /\ tries' \in [Sns -> 0 .. MaxRetries]
    BY <1>5, TypesOfParts DEF FindAcked
  <2>2. broken' \in BOOLEAN
    BY <1>5, Zenon DEF FindAcked
  <2>3. recv' \in {Selecting} \union [at : {"handle", "callback"}, sn : Sns]
    BY <1>5 DEF FindAcked, Selecting
  <2> QED BY <1>5, <2>1, <2>2, <2>3 DEF FindAcked
<1>6. CASE AnswerAcked
  <2>1. recv.sn \in Sns
    BY <1>6 DEF AnswerAcked, Selecting
  <2> QED BY <1>6, <2>1 DEF AnswerAcked
<1>7. CASE Leave
  BY <1>7 DEF Leave, Statuses
<1>8. CASE EnterTimewait
  BY <1>8 DEF EnterTimewait, Statuses
<1>9. CASE StartClear
  <2>1. /\ clearing' \in [buf : Sns \union {None}, next : Sns \union {None}]
        /\ failed' \in SUBSET Sns /\ status' \in Statuses /\ broken' \in BOOLEAN
    BY <1>9, TypesOfParts DEF StartClear
  <2> QED BY <1>9, <2>1 DEF StartClear
<1>10. CASE ContinueClear
  <2>1. /\ clearing' \in [buf : Sns \union {None}, next : Sns \union {None}]
        /\ failed' \in SUBSET Sns /\ status' \in Statuses /\ broken' \in BOOLEAN
    BY <1>10, TypesOfParts DEF ContinueClear
  <2>2. outlist' \subseteq outlist /\ tries' \in [Sns -> 0 .. MaxRetries]
    BY <1>10, TypesOfParts DEF ContinueClear
  <2> QED BY <1>10, <2>1, <2>2 DEF ContinueClear
<1>11. ASSUME NEW sn \in Sns, ProcessReliable(sn) PROVE TypeOK'
  BY <1>11 DEF ProcessReliable
<1>12. CASE RelWake
  <2>1. c2sn % IncomingBuffer \in Spots
    BY Division DEF Spots
  <2> QED BY <1>12, <2>1, TypesOfParts DEF RelWake
<1>13. CASE RelProcess
  <2>1. inbox' \in Seq(Sns)
    BY <1>13 DEF RelProcess
  <2> QED BY <1>13, <2>1, TypesOfParts DEF RelProcess
<1>14. CASE Disconnect
  BY <1>14 DEF Disconnect
<1>15. CASE Acknowledge
  BY <1>15 DEF Acknowledge
<1>16. CASE UNCHANGED vars
  BY <1>16 DEF vars
<1> QED BY <1>1, <1>2, <1>3, <1>4, <1>5, <1>6, <1>7, <1>8, <1>9, <1>10, <1>11, <1>12, <1>13, <1>14, <1>15, <1>16
        DEF Next, SendOutgoing

\* The state of the reliable layer has its types.
THEOREM TypeCorrect == Spec => []TypeOK
<1> QED BY TypesHold, TypesStay, PTL DEF Spec

----------------------------------------------------------------------------
(* The ring: what lies in it lies where RelThread will look for it.        *)

Placed(i) ==
    /\ c2sn <= relbuf[i] /\ relbuf[i] < c2sn + IncomingBuffer
    /\ relbuf[i] < s2cn
    /\ (relbuf[i] % IncomingBuffer) = i

RingInv ==
    /\ \A sn \in wire \union outlist : sn < s2cn
    /\ c2sn <= s2cn
    /\ \A i \in Spots : relbuf[i] # None => Placed(i)
    /\ hand = None => c2sn = Len(inbox)
    /\ hand # None =>
          /\ hand = Len(inbox) /\ c2sn = hand + 1
          /\ spot = (c2sn % IncomingBuffer)

\* The slot of c2sn holds c2sn or nothing, so RelThread takes c2sn or stops.
LEMMA TakesInOrder ==
    ASSUME TypeOK, RingInv, TakeFrom(c2sn % IncomingBuffer), s2cn' = s2cn
    PROVE  /\ \/ hand' = None /\ UNCHANGED <<c2sn, relbuf>>
              \/ /\ hand' = c2sn /\ c2sn' = c2sn + 1 /\ c2sn < s2cn
                 /\ spot' = (c2sn' % IncomingBuffer)
           /\ \A i \in Spots : relbuf'[i] # None => Placed(i)'
           /\ \A sn : sn # c2sn /\ (\E i \in Spots : relbuf[i] = sn) => \E i \in Spots : relbuf'[i] = sn
<1> DEFINE here == c2sn % IncomingBuffer
<1> USE NetAssumption DEF TypeOK, RingInv
<1>1. here \in Spots
  BY Division DEF Spots
<1>2. CASE relbuf[here] = None
  BY <1>1, <1>2 DEF TakeFrom, Placed
<1>3. CASE relbuf[here] # None
  <2>1. relbuf[here] = c2sn
    <3>1. PICK v \in Nat : v = relbuf[here]
      BY <1>1, <1>3 DEF Sns, None
    <3>2. c2sn <= v /\ v < c2sn + IncomingBuffer /\ (v % IncomingBuffer) = (c2sn % IncomingBuffer)
      BY <1>1, <1>3, <3>1 DEF Placed
    <3>3. v - c2sn < IncomingBuffer /\ c2sn - v < IncomingBuffer
      BY <3>2
    <3>4. v = c2sn
      BY <3>2, <3>3, ModUnique
    <3> QED BY <3>1, <3>4
  <2>2. hand' = c2sn /\ c2sn' = c2sn + 1 /\ c2sn < s2cn
    BY <1>1, <1>3, <2>1 DEF TakeFrom, Placed
  <2>3. spot' = (c2sn' % IncomingBuffer)
    BY <1>3, <2>2, ModSuccessor DEF TakeFrom
  <2>4. relbuf' = [relbuf EXCEPT ![here] = None]
    BY <1>3 DEF TakeFrom
  <2>5. ASSUME NEW i \in Spots, relbuf'[i] # None
        PROVE  Placed(i)'
    <3>1. i # here /\ relbuf'[i] = relbuf[i]
      BY <1>1, <2>4, <2>5
    <3>2. Placed(i) /\ relbuf[i] \in Nat
      BY <2>5, <3>1 DEF Sns, None
    <3>3. relbuf[i] # c2sn
      BY <3>1, <3>2 DEF Placed
    <3> QED BY <2>2, <3>1, <3>2, <3>3 DEF Placed
  <2>6. ASSUME NEW sn, sn # c2sn, NEW i \in Spots, relbuf[i] = sn
        PROVE  \E j \in Spots : relbuf'[j] = sn
    BY <2>1, <2>4, <2>6
  <2> QED BY <2>2, <2>3, <2>5, <2>6
<1> QED BY <1>2, <1>3

LEMMA RingHolds == Init => RingInv
  BY NetAssumption DEF Init, RingInv, None

LEMMA RingStays == TypeOK /\ RingInv /\ [Next]_vars => RingInv'
<1> SUFFICES ASSUME TypeOK, RingInv, [Next]_vars PROVE RingInv'
  OBVIOUS
<1> USE DEF RingInv, Placed, sender, receiver
<1>1. CASE BufferPacket
  BY <1>1 DEF BufferPacket, TypeOK, Sns
<1>2. CASE SendOutgoing
  BY <1>2 DEF SendOutgoing, Transmit, GiveUp, Window
<1>3. ASSUME NEW sn \in Sns, TakeAck(sn) PROVE RingInv'
  BY <1>3 DEF TakeAck
<1>4. CASE FindAcked
  BY <1>4 DEF FindAcked, Remove
<1>5. CASE AnswerAcked \/ Leave \/ EnterTimewait \/ StartClear
  BY <1>5 DEF AnswerAcked, Leave, EnterTimewait, StartClear
<1>6. CASE ContinueClear
  BY <1>6 DEF ContinueClear, Remove
<1>7. ASSUME NEW sn \in Sns, ProcessReliable(sn) PROVE RingInv'
  <2>1. sn < s2cn /\ sn \in Nat
    BY <1>7 DEF ProcessReliable, Sns
  <2>2. ASSUME NEW i \in Spots, relbuf'[i] # None PROVE Placed(i)'
    <3>1. CASE relbuf' = relbuf
      BY <1>7, <2>2, <3>1 DEF ProcessReliable
    <3>2. CASE relbuf' # relbuf
      <4>1. /\ ~TooFar(sn) /\ ~Duplicate(sn)
            /\ relbuf' = [relbuf EXCEPT ![sn % IncomingBuffer] = sn]
        BY <1>7, <3>2 DEF ProcessReliable
      <4>2. c2sn <= sn /\ sn < c2sn + IncomingBuffer
        BY <2>1, <4>1, NetAssumption DEF TooFar, Duplicate, TypeOK
      <4>3. CASE i = (sn % IncomingBuffer)
        BY <1>7, <2>1, <4>1, <4>2, <4>3 DEF ProcessReliable, TypeOK
      <4>4. CASE i # (sn % IncomingBuffer)
        BY <1>7, <2>2, <4>1, <4>4 DEF ProcessReliable, TypeOK
      <4> QED BY <4>3, <4>4
    <3> QED BY <3>1, <3>2
  <2> QED BY <1>7, <2>2 DEF ProcessReliable
<1>8. CASE RelWake
  <2>1. /\ TakeFrom(c2sn % IncomingBuffer)
        /\ UNCHANGED <<s2cn, wire, outlist, inbox>> /\ c2sn = Len(inbox)
    BY <1>8 DEF RelWake
  <2>2. \A i \in Spots : relbuf'[i] # None => Placed(i)'
    BY <2>1, TakesInOrder
  <2>3. c2sn' <= s2cn
    BY <2>1, TakesInOrder DEF TypeOK
  <2>4. hand' = None => c2sn' = Len(inbox')
    BY <2>1, TakesInOrder DEF TypeOK, None
  <2>5. hand' # None => hand' = Len(inbox') /\ c2sn' = hand' + 1 /\ spot' = (c2sn' % IncomingBuffer)
    BY <2>1, TakesInOrder
  <2> QED BY <2>1, <2>2, <2>3, <2>4, <2>5
<1>9. CASE RelProcess
  <2>1. /\ TakeFrom(c2sn % IncomingBuffer)
        /\ UNCHANGED <<s2cn, wire, outlist>> /\ Len(inbox') = c2sn
    BY <1>9 DEF RelProcess, TypeOK
  <2>2. \A i \in Spots : relbuf'[i] # None => Placed(i)'
    BY <2>1, TakesInOrder
  <2>3. c2sn' <= s2cn
    BY <2>1, TakesInOrder DEF TypeOK
  <2>4. hand' = None => c2sn' = Len(inbox')
    BY <2>1, TakesInOrder DEF TypeOK, None
  <2>5. hand' # None => hand' = Len(inbox') /\ c2sn' = hand' + 1 /\ spot' = (c2sn' % IncomingBuffer)
    BY <2>1, TakesInOrder
  <2> QED BY <2>1, <2>2, <2>3, <2>4, <2>5
<1>10. CASE Acknowledge \/ Disconnect
  BY <1>10 DEF Acknowledge, Disconnect
<1>11. CASE UNCHANGED vars
  BY <1>11 DEF vars
<1> QED BY <1>1, <1>2, <1>3, <1>4, <1>5, <1>6, <1>7, <1>8, <1>9, <1>10, <1>11 DEF Next

\* The packets in the ring lie where RelThread will look for them, and RelThread processes the
\* packets by their numbers (relbuf, c2sn and the spot of RelThread).
THEOREM RingInvariant == Spec => []RingInv
<1> QED BY RingHolds, RingStays, TypeCorrect, PTL DEF Spec

----------------------------------------------------------------------------
(* The reliable layer implements the channel.                              *)

LEMMA StepsOfTheChannel == TypeOK /\ RingInv /\ [Next]_vars => [Channel!Next]_<<s2cn, inbox>>
<1> SUFFICES ASSUME TypeOK, RingInv, [Next]_vars PROVE [Channel!Next]_<<s2cn, inbox>>
  OBVIOUS
<1> USE DEF sender, receiver
<1>1. CASE BufferPacket
  BY <1>1 DEF BufferPacket, Channel!Next, Channel!Send
<1>2. CASE RelProcess
  <2>1. hand = Len(inbox) /\ Len(inbox) < s2cn
    BY <1>2 DEF RelProcess, RingInv, TypeOK, Sns, None
  <2> QED BY <1>2, <2>1 DEF RelProcess, Channel!Next, Channel!Handle
<1>3. CASE SendOutgoing
  BY <1>3 DEF SendOutgoing, Transmit, GiveUp
<1>4. ASSUME NEW sn \in Sns, TakeAck(sn) \/ ProcessReliable(sn) PROVE UNCHANGED <<s2cn, inbox>>
  BY <1>4 DEF TakeAck, ProcessReliable
<1>5. CASE FindAcked \/ AnswerAcked \/ Leave \/ EnterTimewait \/ StartClear \/ ContinueClear
  BY <1>5 DEF FindAcked, AnswerAcked, Leave, EnterTimewait, StartClear, ContinueClear
<1>6. CASE Acknowledge \/ RelWake \/ Disconnect
  BY <1>6 DEF Acknowledge, RelWake, Disconnect
<1>7. CASE UNCHANGED vars
  BY <1>7 DEF vars
<1> QED BY <1>1, <1>2, <1>3, <1>4, <1>5, <1>6, <1>7 DEF Next

\* RelThread processes the packets in the order BufferPacket numbered them, each of them once,
\* for any number of packets and any size of the ring (ProcessReliable, RelThread).
THEOREM ImplementsChannel == Spec => InOrderOnce
<1>1. Init => Channel!Init
  BY DEF Init, Channel!Init
<1> QED BY <1>1, StepsOfTheChannel, TypeCorrect, RingInvariant, PTL
        DEF Spec, InOrderOnce, Channel!Spec

----------------------------------------------------------------------------
(* RelThread and its queue.                                                *)

LEMMA RingServedStays == TypeOK /\ RingInv /\ RingIsServed /\ [Next]_vars => RingIsServed'
<1> SUFFICES ASSUME TypeOK, RingInv, RingIsServed, [Next]_vars PROVE RingIsServed'
  OBVIOUS
<1> USE DEF RingIsServed, sender, receiver
<1>1. CASE RelWake \/ RelProcess
  <2>1. TakeFrom(c2sn % IncomingBuffer)
    BY <1>1 DEF RelWake, RelProcess, RingInv
  <2> QED BY <2>1 DEF TakeFrom
<1>2. ASSUME NEW sn \in Sns, ProcessReliable(sn) PROVE RingIsServed'
  BY <1>2 DEF ProcessReliable, Sns, None
<1>3. CASE Disconnect
  <2>1. c2sn % IncomingBuffer \in Spots
    BY Division, NetAssumption DEF TypeOK, Spots
  <2> QED BY <1>3, <2>1 DEF Disconnect
<1>4. CASE SendOutgoing
  BY <1>4 DEF SendOutgoing, Transmit, GiveUp
<1>5. ASSUME NEW sn \in Sns, TakeAck(sn) PROVE RingIsServed'
  BY <1>5 DEF TakeAck
<1>6. CASE BufferPacket \/ FindAcked \/ AnswerAcked \/ Leave \/ EnterTimewait \/ StartClear
           \/ ContinueClear \/ Acknowledge
  BY <1>6 DEF BufferPacket, Acknowledge, FindAcked, AnswerAcked, Leave, EnterTimewait, StartClear, ContinueClear
<1>7. CASE UNCHANGED vars
  BY <1>7 DEF vars
<1> QED BY <1>1, <1>2, <1>3, <1>4, <1>5, <1>6, <1>7 DEF Next

\* While the packet RelThread waits for lies in the ring, RelThread is at work on the connection
\* or is told to look at it (relqueue).
THEOREM RingInOrder == Spec => []RingIsServed
<1>1. Init => RingIsServed
  <2>1. ASSUME Init PROVE RingIsServed
    <3>1. 0 % IncomingBuffer \in Spots
      BY Division, NetAssumption DEF Spots
    <3> QED BY <2>1, <3>1 DEF Init, RingIsServed
  <2> QED BY <2>1
<1> QED BY <1>1, RingServedStays, TypeCorrect, RingInvariant, PTL DEF Spec

----------------------------------------------------------------------------
(* Acknowledgements.                                                       *)

AckInv ==
    /\ connected => \A sn \in acks \union ({acking} \ {None}) : Stored(sn)
    /\ recv # Selecting => recv.sn \in acks
    /\ acked \subseteq acks

LEMMA AcksStay == TypeOK /\ RingInv /\ AckInv /\ [Next]_vars => AckInv'
<1> SUFFICES ASSUME TypeOK, RingInv, AckInv, [Next]_vars PROVE AckInv'
  OBVIOUS
<1> USE DEF AckInv, Stored, sender, receiver
<1>1. ASSUME NEW sn \in Sns, ProcessReliable(sn) PROVE AckInv'
  <2>1. UNCHANGED <<acks, recv, acked, connected, c2sn>> /\ connected /\ acking = None /\ acking' = sn
    BY <1>1 DEF ProcessReliable
  <2>2. CASE Duplicate(sn)
    <3>1. Stored(sn)
      <4>1. CASE sn < c2sn
        BY <4>1
      <4>2. CASE ~(sn < c2sn)
        <5> DEFINE here == sn % IncomingBuffer
        <5>1. here \in Spots /\ sn \in Nat
          BY Division, NetAssumption DEF Spots, Sns
        <5>2. relbuf[here] # None
          BY <2>2, <4>2 DEF Duplicate
        <5>3. PICK v \in Nat : v = relbuf[here]
          BY <5>1, <5>2 DEF TypeOK, Sns, None
        <5>4. c2sn <= v /\ v < c2sn + IncomingBuffer /\ (v % IncomingBuffer) = (sn % IncomingBuffer)
          BY <5>1, <5>2, <5>3 DEF RingInv, Placed
        <5>5. v - sn < IncomingBuffer /\ sn - v < IncomingBuffer
          BY <1>1, <4>2, <5>1, <5>4, NetAssumption DEF ProcessReliable, TypeOK, TooFar
        <5>6. v = sn
          BY <5>1, <5>4, <5>5, NetAssumption, ModUnique
        <5> QED BY <5>1, <5>3, <5>6
      <4> QED BY <4>1, <4>2
    <3>2. relbuf' = relbuf
      BY <1>1, <2>2 DEF ProcessReliable
    <3> QED BY <2>1, <3>1, <3>2
  <2>3. CASE ~Duplicate(sn)
    <3> DEFINE here == sn % IncomingBuffer
    <3>1. here \in Spots
      BY Division, NetAssumption DEF Spots, Sns
    <3>2. relbuf[here] = None /\ relbuf' = [relbuf EXCEPT ![here] = sn]
      BY <1>1, <2>3 DEF ProcessReliable, Duplicate
    <3>3. ASSUME NEW other \in acks PROVE Stored(other)'
      <4>1. None \notin acks
        BY DEF TypeOK, Sns, None
      <4> QED BY <2>1, <3>1, <3>2, <3>3, <4>1 DEF TypeOK
    <3>4. Stored(sn)'
      BY <3>1, <3>2 DEF TypeOK
    <3> QED BY <2>1, <3>3, <3>4
  <2> QED BY <2>2, <2>3
<1>2. CASE RelWake \/ RelProcess
  <2>1. TakeFrom(c2sn % IncomingBuffer) /\ UNCHANGED <<s2cn, recv, acks, acked, connected, acking>>
    BY <1>2 DEF RelWake, RelProcess, RingInv
  <2>2. ASSUME NEW sn \in Sns, Stored(sn) PROVE Stored(sn)'
    <3>1. c2sn' = c2sn \/ c2sn' = c2sn + 1
      BY <2>1, TakesInOrder
    <3>2. CASE sn < c2sn
      BY <3>1, <3>2 DEF TypeOK, Sns
    <3>3. CASE sn = c2sn
      BY <2>1, <2>2, <3>3, TakesInOrder DEF TypeOK, Sns
    <3>4. CASE sn # c2sn /\ ~(sn < c2sn)
      BY <2>1, <2>2, <3>4, TakesInOrder
    <3> QED BY <3>2, <3>3, <3>4
  <2>3. acks \union ({acking} \ {None}) \subseteq Sns
    BY DEF TypeOK
  <2> QED BY <2>1, <2>2, <2>3
<1>3. CASE Acknowledge \/ Disconnect
  BY <1>3 DEF Acknowledge, Disconnect
<1>4. ASSUME NEW sn \in Sns, TakeAck(sn) PROVE AckInv'
  BY <1>4 DEF TakeAck
<1>5. CASE FindAcked
  BY <1>5 DEF FindAcked, Selecting
<1>6. CASE AnswerAcked
  BY <1>6 DEF AnswerAcked, Selecting
<1>7. CASE SendOutgoing
  BY <1>7 DEF SendOutgoing, Transmit, GiveUp
<1>8. CASE BufferPacket \/ Leave \/ EnterTimewait \/ StartClear \/ ContinueClear
  BY <1>8 DEF BufferPacket, Leave, EnterTimewait, StartClear, ContinueClear
<1>9. CASE UNCHANGED vars
  BY <1>9 DEF vars
<1> QED BY <1>1, <1>2, <1>3, <1>4, <1>5, <1>6, <1>7, <1>8, <1>9 DEF Next

\* A callback that says success is right: what ProcessAck took for received, the other end has
\* received (ProcessReliable acknowledges nothing that it drops).
THEOREM SuccessIsSound == Spec => []SuccessIsTrue
<1>1. Init => AckInv
  BY DEF Init, AckInv
<1>2. AckInv => SuccessIsTrue
  BY DEF AckInv, SuccessIsTrue
<1> QED BY <1>1, <1>2, AcksStay, TypeCorrect, RingInvariant, PTL DEF Spec

----------------------------------------------------------------------------
(* Callbacks.                                                              *)

Answered == acked \union failed

AnswerInv ==
    ~broken =>
        /\ \A sn \in outlist \union Answered : sn < s2cn
        /\ \A sn \in Sns : sn < s2cn => Waiting(sn) \/ sn \in Answered
        /\ \A sn \in Sns : recv = [at |-> "callback", sn |-> sn] =>
              sn < s2cn /\ sn \notin outlist \union Answered
        /\ acked \intersect (outlist \union failed) = {}
        /\ failed \intersect outlist \subseteq {clearing.buf}
        /\ clearing # NotClearing => clearing.buf \in outlist \intersect failed
        /\ clearing.next # None => clearing.next \in outlist \ {clearing.buf}

LEMMA AnswersStay == TypeOK /\ AnswerInv /\ [Next]_vars => AnswerInv'
<1> SUFFICES ASSUME TypeOK, AnswerInv, [Next]_vars PROVE AnswerInv'
  OBVIOUS
<1> USE DEF AnswerInv, Answered, Waiting, sender, receiver
<1>1. CASE UNCHANGED vars
  BY <1>1 DEF vars
<1> SUFFICES ASSUME Next, ~broken' PROVE AnswerInv'
  BY <1>1
<1>2. ~broken
  BY DEF Next
<1>3. None \notin Sns
  BY DEF Sns, None
<1>4. CASE BufferPacket
  <2>1. s2cn \notin outlist \union Answered /\ s2cn' = s2cn + 1 /\ s2cn \in Nat
    BY <1>2, <1>4 DEF BufferPacket, TypeOK, Sns
  <2>2. /\ outlist' = outlist \union {s2cn}
        /\ UNCHANGED <<acked, failed, recv, clearing, broken>>
    BY <1>4 DEF BufferPacket
  <2>3. \A sn \in Sns : sn < s2cn' => sn < s2cn \/ sn = s2cn
    BY <2>1 DEF Sns
  <2>4. s2cn # clearing.next /\ s2cn # clearing.buf
    BY <1>2, <2>1 DEF NotClearing, None
  <2>5. \A sn \in Sns : sn < s2cn => sn < s2cn'
    BY <2>1 DEF Sns
  <2>6. \A sn \in outlist' \union Answered' : sn < s2cn'
    BY <1>2, <2>1, <2>2, <2>5 DEF TypeOK
  <2>7. \A sn \in Sns : sn < s2cn' => Waiting(sn)' \/ sn \in Answered'
    BY <1>2, <2>2, <2>3
  <2>8. \A sn \in Sns : recv' = [at |-> "callback", sn |-> sn] =>
           sn < s2cn' /\ sn \notin outlist' \union Answered'
    BY <1>2, <2>1, <2>2, <2>5
  <2>9. acked' \intersect (outlist' \union failed') = {} /\ failed' \intersect outlist' \subseteq {clearing'.buf}
    BY <1>2, <2>1, <2>2
  <2> QED BY <1>2, <2>2, <2>4, <2>6, <2>7, <2>8, <2>9
<1>5. CASE FindAcked
  <2>1. CASE recv.sn \notin outlist
    <3>1. outlist' = outlist /\ recv' = Selecting /\ UNCHANGED <<s2cn, acked, failed, clearing>>
      BY <1>5, <2>1 DEF FindAcked, Remove
    <3>2. \A sn : recv # [at |-> "callback", sn |-> sn] /\ recv' # [at |-> "callback", sn |-> sn]
      BY <1>5, <3>1 DEF FindAcked, Selecting
    <3> QED BY <1>2, <3>1, <3>2
  <2>2. CASE recv.sn \in outlist
    <3>1. /\ outlist' = outlist \ {recv.sn} /\ recv' = [at |-> "callback", sn |-> recv.sn]
          /\ UNCHANGED <<s2cn, acked, failed, clearing>>
          /\ recv.sn \notin {clearing.buf, clearing.next}
      BY <1>5, <2>2 DEF FindAcked, Remove
    <3>2. \A sn : recv # [at |-> "callback", sn |-> sn]
      BY <1>5 DEF FindAcked
    <3>3. \A sn : recv' = [at |-> "callback", sn |-> sn] => sn = recv.sn
      BY <3>1
    <3>4. recv.sn < s2cn /\ recv.sn \notin Answered
      BY <1>2, <2>2, <3>1
    <3> QED BY <1>2, <3>1, <3>2, <3>3, <3>4
  <2> QED BY <2>1, <2>2
<1>6. CASE AnswerAcked
  <2>1. recv = [at |-> "callback", sn |-> recv.sn] /\ recv.sn \in Sns
    BY <1>6 DEF AnswerAcked, TypeOK, Selecting
  <2>2. /\ acked' = acked \union {recv.sn} /\ recv' = Selecting
        /\ UNCHANGED <<s2cn, outlist, failed, clearing>>
    BY <1>6 DEF AnswerAcked
  <2>3. \A sn : recv' # [at |-> "callback", sn |-> sn]
    BY <2>2 DEF Selecting
  <2>4. recv.sn < s2cn /\ recv.sn \notin outlist \union failed
    BY <1>2, <2>1
  <2>5. \A sn \in Sns : recv = [at |-> "callback", sn |-> sn] => sn = recv.sn
    BY <2>1
  <2> QED BY <1>2, <2>2, <2>3, <2>4, <2>5
<1>7. ASSUME NEW buf \in outlist, NEW list, CallFailed(buf, list)
      PROVE  /\ clearing'.buf = buf /\ clearing' # NotClearing
             /\ clearing'.next # None => clearing'.next \in list \ {buf}
             /\ failed' = failed \union {buf}
  <2>1. buf \in Nat
    BY DEF TypeOK, Sns
  <2>2. PICK next \in Sns \union {None} : Follows(next, buf, list) /\ clearing' = [buf |-> buf, next |-> next]
    BY <1>7 DEF CallFailed
  <2>3. clearing'.buf = buf /\ clearing'.next = next
    BY <2>2
  <2>4. next # None => next \in list /\ next # buf
    BY <2>1, <2>2 DEF Follows
  <2>5. buf # None
    BY <1>3 DEF TypeOK
  <2> QED BY <1>7, <2>2, <2>3, <2>4, <2>5 DEF CallFailed, NotClearing
<1>8. CASE StartClear
  <2>1. UNCHANGED <<s2cn, outlist, recv, acked>> /\ clearing = NotClearing
    BY <1>8 DEF StartClear
  <2>2. CASE EndClear
    BY <1>2, <2>1, <2>2 DEF EndClear
  <2>3. ASSUME NEW buf \in outlist, CallFailed(buf, outlist) PROVE AnswerInv'
    <3>1. /\ clearing'.buf = buf /\ clearing' # NotClearing
          /\ clearing'.next # None => clearing'.next \in outlist \ {buf}
          /\ failed' = failed \union {buf}
      BY <1>7, <2>3
    <3>2. failed \intersect outlist = {}
      BY <1>2, <1>3, <2>1 DEF NotClearing, TypeOK
    <3> QED BY <1>2, <2>1, <3>1, <3>2
  <2> QED BY <1>8, <2>2, <2>3 DEF StartClear
<1>9. CASE ContinueClear
  <2>1. /\ UNCHANGED <<s2cn, recv, acked>> /\ clearing # NotClearing
        /\ outlist' = outlist \ {clearing.buf}
    BY <1>9 DEF ContinueClear, Remove
  <2>2. clearing.buf \in failed
    BY <1>2, <2>1
  <2>3. CASE EndClear
    <3>1. clearing' = NotClearing /\ failed' = failed
      BY <2>3 DEF EndClear
    <3>2. failed' \intersect outlist' = {}
      BY <1>2, <2>1, <3>1
    <3>3. clearing'.next = None
      BY <3>1 DEF NotClearing
    <3> QED BY <1>2, <2>1, <2>2, <3>1, <3>2, <3>3
  <2>4. CASE clearing.next # None /\ CallFailed(clearing.next, outlist')
    <3>1. clearing.next \in outlist' /\ clearing.next \in outlist
      BY <1>2, <2>1, <2>4
    <3>2. /\ clearing'.buf = clearing.next /\ clearing' # NotClearing
          /\ clearing'.next # None => clearing'.next \in outlist' \ {clearing.next}
          /\ failed' = failed \union {clearing.next}
      BY <1>7, <2>4, <3>1
    <3>3. failed' \intersect outlist' \subseteq {clearing.next}
      BY <1>2, <2>1, <3>2
    <3> QED BY <1>2, <2>1, <2>2, <3>1, <3>2, <3>3
  <2> QED BY <1>9, <2>3, <2>4 DEF ContinueClear
<1>10. CASE SendOutgoing
  BY <1>2, <1>10 DEF SendOutgoing, Transmit, GiveUp
<1>11. ASSUME NEW sn \in Sns, TakeAck(sn) PROVE AnswerInv'
  <2>1. \A s : recv # [at |-> "callback", sn |-> s] /\ recv' # [at |-> "callback", sn |-> s]
    BY <1>11 DEF TakeAck, Selecting
  <2> QED BY <1>2, <1>11, <2>1 DEF TakeAck
<1>12. ASSUME NEW sn \in Sns, ProcessReliable(sn) PROVE AnswerInv'
  BY <1>2, <1>12 DEF ProcessReliable
<1>13. CASE Leave \/ EnterTimewait \/ Acknowledge \/ RelWake \/ RelProcess \/ Disconnect
  BY <1>2, <1>13 DEF Leave, EnterTimewait, Acknowledge, RelWake, RelProcess, Disconnect
<1> QED BY <1>4, <1>5, <1>6, <1>8, <1>9, <1>10, <1>11, <1>12, <1>13 DEF Next

\* No callback is called with success and with failure, and none is forgotten, although
\* ProcessAck and clear_buffers call them without olmtx; as long as no buffer is used after it
\* was freed.
THEOREM CallbacksAreAnsweredOnce == Spec => []AnsweredOnce
<1>1. Init => AnswerInv
  BY NetAssumption DEF Init, AnswerInv, Answered, Waiting, Selecting, NotClearing, Sns
<1>2. TypeOK /\ AnswerInv => AnsweredOnce
  BY DEF TypeOK, AnswerInv, AnsweredOnce, Answered, Waiting
<1> QED BY <1>1, <1>2, AnswersStay, TypeCorrect, PTL DEF Spec

\* What callbacks are told is true, and is all they are told, whatever the network does and
\* whenever either end leaves.
THEOREM AnswersStayRight == Spec => []AnswersAreRight
<1>1. SuccessIsTrue /\ AnsweredOnce => AnswersAreRight
  BY DEF AnswersAreRight
<1> QED BY <1>1, SuccessIsSound, CallbacksAreAnsweredOnce, PTL
=============================================================================
