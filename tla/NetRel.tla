------------------------------- MODULE NetRel -------------------------------
(***************************************************************************)
(* The reliable layer of net.c: one direction of one connection, between   *)
(* the end that sends and the end that receives, over a network that       *)
(* loses, duplicates and reorders.                                         *)
(*                                                                         *)
(* At the sending end the threads that send, SendThread and RecvThread     *)
(* share the outlist; at the receiving end RecvThread and RelThread share  *)
(* the ring of packets that came early.  A step is a critical section of   *)
(* olmtx or of relmtx.  Time is not modelled: a packet that was sent may   *)
(* be due again at any moment.  A packet is its sequence number.  The      *)
(* network delivers whatever was ever put into it, at any time, any number *)
(* of times or never: that is loss, duplication and delay at once.         *)
(***************************************************************************)
EXTENDS Integers, Sequences, FiniteSets

CONSTANTS
    MaxSends,        \* bound: the reliable packets sent
    IncomingBuffer,  \* CFG_INCOMING_BUFFER: the size of the ring
    CanBuffer,       \* client_can_buffer: the widest window of the sender
    MaxRetries,      \* config.maxretries
    MaxOutlist       \* config.maxoutlist

ASSUME NetAssumption ==
    /\ MaxSends \in Nat /\ MaxOutlist \in Nat
    /\ IncomingBuffer \in Nat \ {0} /\ CanBuffer \in Nat \ {0} /\ MaxRetries \in Nat \ {0}

VARIABLES
    status,    \* p->status, as far as net.c looks at it, and then what SendThread has freed
    s2cn,      \* the next sequence number
    outlist,   \* the reliable packets that are neither acknowledged nor cleared
    tries,     \* how often each of the outlist was sent
    hit,       \* hitmaxretries or hitmaxoutlist
    clearing,  \* clear_buffers: the packet it is at and the one it goes to next
    recv,      \* RecvThread of the sender: where it is, and with which acknowledgement
    wire,      \* the reliable packets that were put into the network
    acks,      \* the acknowledgements that were put into the network
    connected, \* the receiving end still knows the connection
    c2sn,      \* the sequence number that RelThread takes next
    relbuf,    \* the ring
    acking,    \* RecvThread has stored a packet that it has not acknowledged yet
    relqueue,  \* the connection is in relqueue, at least once
    hand,      \* the packet RelThread is processing
    spot,      \* where RelThread looks next
    inbox,     \* history: what RelThread has processed
    acked,     \* history: the packets whose callback said success
    failed,    \* history: and failure
    broken     \* a freed buffer or connection is used: anything may follow

sender   == <<status, s2cn, outlist, tries, hit, clearing, recv, acked, failed>>
receiver == <<connected, c2sn, relbuf, acking, relqueue, hand, spot, inbox>>
vars     == <<sender, receiver, wire, acks, broken>>

None  == -1
Sns   == 0 .. MaxSends - 1
Spots == 0 .. IncomingBuffer - 1

\* S_CONNECTED and after; S_LEAVING_ZONE, or on the way to it (whenloggedin); S_TIMEWAIT; then
\* out of the hash table, and freed.
Statuses == {"up", "leaving", "timewait", "unhashed", "freed"}

NotClearing == [buf |-> None, next |-> None]
Selecting   == [at |-> "select", sn |-> None]

Init ==
    /\ status = "up" /\ s2cn = 0 /\ outlist = {} /\ tries = [sn \in Sns |-> 0] /\ hit = FALSE
    /\ clearing = NotClearing /\ recv = Selecting
    /\ wire = {} /\ acks = {}
    /\ connected = TRUE /\ c2sn = 0 /\ relbuf = [i \in Spots |-> None] /\ acking = None
    /\ relqueue = FALSE /\ hand = None /\ spot = 0
    /\ inbox = <<>> /\ acked = {} /\ failed = {} /\ broken = FALSE

\* DQRemove; the buffer is freed soon.
Remove(sn) ==
    /\ outlist' = outlist \ {sn}
    /\ tries' = [s \in Sns |-> IF s = sn THEN 0 ELSE tries[s]]

IsOldest(sn) == sn \in outlist /\ \A other \in outlist : sn <= other

----------------------------------------------------------------------------
(* The sending end: BufferPacket and send_outgoing.                        *)

\* Nobody who sends looks at the status; the outlist is there until the connection is freed.
BufferPacket ==
    /\ status # "freed" /\ s2cn < MaxSends
    /\ s2cn' = s2cn + 1
    /\ outlist' = outlist \union {s2cn}
    /\ UNCHANGED <<status, tries, hit, clearing, recv, acked, failed, receiver, wire, acks, broken>>

\* What the window lets through: the oldest and the cansend packets after it.
Window(cansend) == {sn \in outlist : \A other \in outlist : sn - other <= cansend}

Retriable(sn) == tries[sn] < MaxRetries

CountTries(tried) == tries' = [sn \in Sns |-> IF sn \in tried THEN tries[sn] + 1 ELSE tries[sn]]

\* A walk that sends those of the window that are due and within the bandwidth.
Transmit(cansend, tried) ==
    /\ status \in {"up", "leaving"}
    /\ tried \subseteq Window(cansend) /\ \A sn \in tried : Retriable(sn)
    /\ CountTries(tried)
    /\ wire' = wire \union tried
    /\ hit' = (hit \/ Cardinality(outlist) > MaxOutlist)
    /\ UNCHANGED <<status, s2cn, outlist, clearing, recv, acked, failed, receiver, acks, broken>>

\* Mistaken variant: does not tell process_lagouts.
GiveUpQuietly(cansend, last, tried, flushed) ==
    /\ status \in {"up", "leaving"}
    /\ last \in Window(cansend) /\ ~Retriable(last)
    /\ UNCHANGED vars

\* A walk that ends at a packet that was tried too often.  It returns without the flush, so
\* what it has grouped until then counts as tried but need not have been sent.
GiveUp(cansend, last, tried, flushed) ==
    /\ status \in {"up", "leaving"}
    /\ last \in Window(cansend) /\ ~Retriable(last)
    /\ tried \subseteq Window(cansend) /\ \A sn \in tried : sn < last /\ Retriable(sn)
    /\ flushed \subseteq tried
    /\ CountTries(tried)
    /\ wire' = wire \union flushed
    /\ hit' = TRUE
    /\ UNCHANGED <<status, s2cn, outlist, clearing, recv, acked, failed, receiver, acks, broken>>

SendOutgoing ==
    \E cansend \in 1 .. CanBuffer, tried \in SUBSET outlist :
        \/ Transmit(cansend, tried)
        \/ \E last \in outlist, flushed \in SUBSET tried : GiveUp(cansend, last, tried, flushed)

----------------------------------------------------------------------------
(* The sending end: acknowledgements.                                      *)

\* RecvThread grabs the status without a lock and works on with what it saw.
TakeAck(sn) ==
    /\ recv = Selecting /\ sn \in acks
    /\ status = "up"
    /\ recv' = [at |-> "handle", sn |-> sn]
    /\ UNCHANGED <<status, s2cn, outlist, tries, hit, clearing, acked, failed, receiver, wire, acks, broken>>

\* Mistaken variant: leaves the packet in the outlist while its callback runs.
FindsOnly ==
    /\ recv.at = "handle"
    /\ recv' = IF recv.sn \in outlist THEN [at |-> "callback", sn |-> recv.sn] ELSE Selecting
    /\ UNCHANGED <<status, s2cn, outlist, tries, hit, clearing, acked, failed, receiver, wire, acks, broken>>

\* ProcessAck takes the packet off the outlist and lets go of olmtx.  If clear_buffers is in
\* the callback of that packet, or goes to it next, it goes on with a freed buffer.
FindAcked ==
    /\ recv.at = "handle"
    /\ Remove(recv.sn)
    /\ recv' = IF recv.sn \in outlist THEN [at |-> "callback", sn |-> recv.sn] ELSE Selecting
    /\ broken' = (recv.sn \in outlist /\ recv.sn \in {clearing.buf, clearing.next})
    /\ UNCHANGED <<status, s2cn, hit, clearing, acked, failed, receiver, wire, acks>>

AnswerAcked ==
    /\ recv.at = "callback"
    /\ acked' = acked \union {recv.sn}
    /\ recv' = Selecting
    /\ UNCHANGED <<status, s2cn, outlist, tries, hit, clearing, failed, receiver, wire, acks, broken>>

----------------------------------------------------------------------------
(* The sending end: the end of the connection.                             *)

\* The player leaves, or process_lagouts kicks him.
Leave ==
    /\ status = "up" /\ status' = "leaving"
    /\ UNCHANGED <<s2cn, outlist, tries, hit, clearing, recv, acked, failed, receiver, wire, acks, broken>>

Lagout == hit /\ Leave

\* The main thread is done with the player.
EnterTimewait ==
    /\ status = "leaving" /\ status' = "timewait"
    /\ UNCHANGED <<s2cn, outlist, tries, hit, clearing, recv, acked, failed, receiver, wire, acks, broken>>

\* sn comes after buf in the list, whose order is that of the numbers; None at its end.
Follows(sn, buf, list) ==
    \/ sn \in list /\ sn > buf /\ \A other \in list : other > buf => sn <= other
    \/ sn = None /\ \A other \in list : other <= buf

\* olmtx is free while the callback of buf runs.
CallFailed(buf, list) ==
    /\ \E next \in Sns \union {None} :
          Follows(next, buf, list) /\ clearing' = [buf |-> buf, next |-> next]
    /\ failed' = failed \union {buf}
    /\ UNCHANGED <<status, broken>>

\* clear_buffers is over: process_lagouts unhashes the player, SendThread frees him.
EndClear ==
    /\ clearing' = NotClearing
    /\ status' = IF status = "timewait" THEN "unhashed" ELSE "freed"
    /\ broken' = (status = "unhashed" /\ recv # Selecting)
    /\ UNCHANGED failed

StartClear ==
    /\ status \in {"timewait", "unhashed"} /\ clearing = NotClearing
    /\ \/ outlist = {} /\ EndClear
       \/ \E buf \in outlist : Follows(buf, None, outlist) /\ CallFailed(buf, outlist)
    /\ UNCHANGED <<s2cn, outlist, tries, hit, recv, acked, receiver, wire, acks>>

ContinueClear ==
    /\ clearing # NotClearing
    /\ Remove(clearing.buf)
    /\ \/ clearing.next = None /\ EndClear
       \/ clearing.next # None /\ CallFailed(clearing.next, outlist')
    /\ UNCHANGED <<s2cn, hit, recv, acked, receiver, wire, acks>>

----------------------------------------------------------------------------
(* The receiving end.                                                      *)

\* Mistaken variants: the ring has one slot more; a packet is known only by its slot.
BarelyTooFar(sn)  == sn - c2sn > IncomingBuffer
InItsSlot(sn)     == relbuf[sn % IncomingBuffer] # None

TooFar(sn)    == sn - c2sn >= IncomingBuffer
Duplicate(sn) == sn < c2sn \/ relbuf[sn % IncomingBuffer] # None

\* ProcessReliable, up to where it lets go of relmtx.
ProcessReliable(sn) ==
    /\ connected /\ acking = None /\ sn \in wire
    /\ ~TooFar(sn)
    /\ relbuf' = IF Duplicate(sn) THEN relbuf ELSE [relbuf EXCEPT ![sn % IncomingBuffer] = sn]
    /\ acking' = sn
    /\ UNCHANGED <<sender, connected, c2sn, relqueue, hand, spot, inbox, wire, acks, broken>>

\* The rest of it; the acknowledgement leaves through an outlist of its own, unreliably.
Acknowledge ==
    /\ acking # None
    /\ acks' = acks \union {acking}
    /\ relqueue' = TRUE
    /\ acking' = None
    /\ UNCHANGED <<sender, connected, c2sn, relbuf, hand, spot, inbox, wire, broken>>

\* The test of RelThread's loop, under relmtx.
TakeFrom(i) ==
    IF relbuf[i] = None
    THEN hand' = None /\ UNCHANGED <<c2sn, relbuf, spot>>
    ELSE /\ hand' = relbuf[i]
         /\ relbuf' = [relbuf EXCEPT ![i] = None]
         /\ c2sn' = c2sn + 1
         /\ spot' = (i + 1) % IncomingBuffer

\* relqueue may hold the connection more than once.
RelWake ==
    /\ hand = None /\ relqueue
    /\ relqueue' \in BOOLEAN
    /\ TakeFrom(c2sn % IncomingBuffer)
    /\ UNCHANGED <<sender, connected, acking, inbox, wire, acks, broken>>

\* Mistaken variant: one packet for each entry of relqueue.
ProcessOne ==
    /\ hand # None
    /\ inbox' = Append(inbox, hand)
    /\ hand' = None
    /\ UNCHANGED <<sender, connected, c2sn, relbuf, acking, relqueue, spot, wire, acks, broken>>

\* ProcessBuffer runs without relmtx.
RelProcess ==
    /\ hand # None
    /\ inbox' = Append(inbox, hand)
    /\ TakeFrom(spot)
    /\ UNCHANGED <<sender, connected, acking, relqueue, wire, acks, broken>>

\* clear_buffers at the receiving end; a packet in RelThread's hand is still processed.
Disconnect ==
    /\ connected /\ connected' = FALSE
    /\ relbuf' = [i \in Spots |-> None]
    /\ relqueue' = FALSE
    /\ UNCHANGED <<sender, c2sn, acking, hand, spot, inbox, wire, acks, broken>>

----------------------------------------------------------------------------

Next ==
    /\ ~broken
    /\ \/ BufferPacket \/ SendOutgoing
       \/ \E sn \in Sns : TakeAck(sn) \/ ProcessReliable(sn)
       \/ FindAcked \/ AnswerAcked
       \/ Leave \/ EnterTimewait \/ StartClear \/ ContinueClear
       \/ Acknowledge \/ RelWake \/ RelProcess \/ Disconnect

Spec == Init /\ [][Next]_vars

\* SendThread comes round every 10 ms, and sooner or later the oldest packet is due and within
\* the bandwidth, which grows with time; it is the first of its priority.
TryOldest ==
    \/ \E sn \in outlist : IsOldest(sn) /\ Transmit(1, {sn})
    \/ \E sn \in outlist : IsOldest(sn) /\ GiveUp(1, sn, {}, {})

\* The threads go on, and the main thread is done with a leaving player some day.  Nothing is
\* asked of the network.
Fairness ==
    /\ WF_vars(~broken /\ TryOldest)
    /\ WF_vars(~broken /\ (FindAcked \/ AnswerAcked))
    /\ WF_vars(~broken /\ Lagout)
    /\ WF_vars(~broken /\ EnterTimewait)
    /\ WF_vars(~broken /\ (StartClear \/ ContinueClear))
    /\ WF_vars(~broken /\ Acknowledge)
    /\ WF_vars(~broken /\ (RelWake \/ RelProcess))

FairSpec == Spec /\ Fairness

----------------------------------------------------------------------------
(* Properties.                                                             *)

TypeOK ==
    /\ status \in Statuses
    /\ s2cn \in 0 .. MaxSends
    /\ outlist \in SUBSET Sns
    /\ tries \in [Sns -> 0 .. MaxRetries]
    /\ hit \in BOOLEAN
    /\ clearing \in [buf : Sns \union {None}, next : Sns \union {None}]
    /\ recv \in {Selecting} \union [at : {"handle", "callback"}, sn : Sns]
    /\ wire \in SUBSET Sns /\ acks \in SUBSET Sns
    /\ connected \in BOOLEAN
    /\ c2sn \in Nat
    /\ relbuf \in [Spots -> Sns \union {None}]
    /\ acking \in Sns \union {None}
    /\ relqueue \in BOOLEAN
    /\ hand \in Sns \union {None}
    /\ spot \in Spots
    /\ inbox \in Seq(Sns)
    /\ acked \in SUBSET Sns /\ failed \in SUBSET Sns
    /\ broken \in BOOLEAN

Channel == INSTANCE NetChannel WITH sent <- s2cn, handled <- inbox

\* The packets are handled in the order they were sent, each of them once, whatever the network
\* does and although each of them has only a slot of a small ring (relbuf, c2sn, spot).
InOrderOnce == Channel!Spec

Stored(sn) == sn < c2sn \/ \E i \in Spots : relbuf[i] = sn

\* A callback that says success (ProcessAck) is right: the other end has the packet in its ring
\* or has taken it out already, unless it has ended the connection since.
SuccessIsTrue == connected => \A sn \in acked : Stored(sn)

\* A packet that was sent waits in the outlist for its acknowledgement, is in the hands of
\* ProcessAck, or was answered; and no callback is called with success and with failure,
\* although SendThread lets go of olmtx while it clears the outlist.
Waiting(sn) == sn \in outlist \/ recv = [at |-> "callback", sn |-> sn]
AnsweredOnce ==
    ~broken =>
        /\ acked \intersect failed = {}
        /\ \A sn \in Sns : sn < s2cn => Waiting(sn) \/ sn \in acked \union failed
        /\ \A sn \in acked \union failed : Waiting(sn) => sn = clearing.buf

\* RelThread is not asleep while the packet it waits for lies in the ring, or is about to be woken.
RingIsServed == relbuf[c2sn % IncomingBuffer] # None => relqueue \/ hand # None \/ acking # None

\* Each callback is told once, and what is true.
AnswersAreRight == SuccessIsTrue /\ AnsweredOnce

\* Whatever the network does, each callback is called: with success, or with failure when the
\* packet was tried too often and the player was kicked for it.  (A packet sent as late as
\* S_TIMEWAIT may come after the last round of clear_buffers, and then nobody calls it.)
EachIsAnswered ==
    \A sn \in Sns :
        sn < s2cn /\ status \in {"up", "leaving"} ~> sn \in acked \union failed \/ broken

\* A packet that was acknowledged is handled, although it may have to wait in the ring for an
\* earlier one, unless one of the ends leaves first.
AckedIsHandled ==
    \A sn \in Sns :
        sn \in acked ~> \/ \E i \in DOMAIN inbox : inbox[i] = sn
                        \/ ~connected \/ status # "up" \/ broken

\* No packet is forgotten, by the callbacks at one end or by the handlers at the other.
NoneIsForgotten == EachIsAnswered /\ AckedIsHandled
=============================================================================
