--------------------------------- MODULE Peer ---------------------------------
(***************************************************************************)
(* peer.c: zones that tell each other, in single UDP packets, which arenas *)
(* they have and who plays there, and pass on what others told them.  A    *)
(* packet can be lost, late, early or there twice.  Each zone has a main   *)
(* loop of its own.  (Bounds: a packet is under way for conf.delay at      *)
(* most; no zone is configured to pass on, round a ring, what it sent      *)
(* itself; no arena is renamed; passwords agree; the settings stay.)       *)
(***************************************************************************)
EXTENDS Clients

CONSTANT PeerZones

\* Links are between these zones; a zone passes on what one of its own peers sent it.
ASSUME PeerAssumption ==
    \A c \in Configs :
        /\ \A l \in c.links :
              l.from \in PeerZones /\ l.to \in PeerZones /\ l.kind \in {"list", "count", "zero"}
        /\ c.relays \subseteq {<<l.from, l.to>> : l \in c.links}
        /\ c.delay \in Nat /\ c.stale \in Nat /\ c.sweep \in Nat \ {0} /\ c.buckets \in Nat \ {0}

VARIABLES
    clock,     \* current_ticks() of all zones, coarsely
    own,       \* the arenas each zone has itself, with their players
    tables,    \* tables[z][w]: what z knows of w's arenas, peerZone->arenas
    counts,    \* tables[z][w]'s playerCount: -1 when w sends its players
    stamps,    \* timestamps[] of the packets z has had from w
    swept,     \* when RemoveStaleArenas last ran
    air,       \* the packets that can still arrive
    said,      \* the messages of *zone and of alerts
    displayed  \* what each zone has shown of them

peervars == <<clock, own, tables, counts, stamps, swept, air, said, displayed>>

Buckets == 0 .. conf.buckets - 1
\* peers: who has whom configured; a link says what the one sends to the other.
Links == {<<l.from, l.to>> : l \in conf.links}
Zones == {l.from : l \in conf.links}
Link(z, w) == CHOOSE l \in conf.links : l.from = z /\ l.to = w

PeerInit ==
    /\ clock = 1
    /\ own = [z \in PeerZones |-> [n \in IF z \in conf.hosts THEN {"x"} ELSE {} |-> conf.guests]]
    /\ tables = [l \in Links |-> <<>>] /\ counts = [l \in Links |-> 0]
    /\ stamps = [l \in Links |-> [b \in Buckets |-> 0]]
    /\ swept \in [PeerZones -> 2 - conf.sweep .. 1]
    /\ air = {} /\ said = {} /\ displayed = [z \in PeerZones |-> <<>>]

\* Somebody enters an arena or leaves one, or it is closed.
Moves(z) ==
    /\ \E n \in DOMAIN own[z] :
           \/ own' = [own EXCEPT ![z] = Restrict(own[z], DOMAIN own[z] \ {n})]
           \/ \E p \in conf.guests : own' = [own EXCEPT ![z][n] = IF p \in @ THEN @ \ {p} ELSE @ \cup {p}]
    /\ UNCHANGED <<clock, tables, counts, stamps, swept, air, said, displayed>>

\* What z would tell of its own arenas; each entry remembers when it was true.
Owned(z) == [n \in DOMAIN own[z] |-> [players |-> own[z][n], since |-> clock]]

\* What it passes on to w: the arenas of the other peers that are configured for it.
Relayed(z, w) ==
    LET from == {v \in PeerZones \ {w} : <<z, v>> \in conf.relays}
        Has1(v, n) == n \in DOMAIN tables[<<z, v>>]
    IN  [n \in UNION {DOMAIN tables[<<z, v>>] : v \in from} |->
           LET e == tables[<<z, CHOOSE v \in from : Has1(v, n)>>][n]
           IN  [players |-> e.players, since |-> e.since]]

\* What f says, and g of what f does not speak of.
Over(f, g) == [n \in DOMAIN f \cup DOMAIN g |-> IF n \in DOMAIN f THEN f[n] ELSE g[n]]

Packet(z, w, type, body) == [from |-> z, to |-> w, stamp |-> clock, type |-> type, body |-> body]

\* SendUpdatesToPeer.  The peer takes the last entry of an arena that is there twice.  A
\* count of zero is put into another buffer than the one that is sent, which has no header.
Update(z, l) ==
    CASE l.kind = "list" -> Packet(z, l.to, "list", Over(Relayed(z, l.to), Owned(z)))
      [] l.kind = "count" -> Packet(z, l.to, "count", FoldFunction(LAMBDA s, n : n + Cardinality(s), 0, own[z]))
      [] l.kind = "zero" -> Packet(z, l.to, "unknown", 0)

\* PeriodicUpdate.  (It need not run: what it sends may be lost, anyway.)
PeriodicUpdate(z) ==
    /\ ~\E packet \in air : packet.from = z /\ packet.stamp = clock /\ packet.type # "message"
    /\ air' = air \cup {Update(z, l) : l \in {m \in conf.links : m.from = z}}
    /\ UNCHANGED <<clock, own, tables, counts, stamps, swept, said, displayed>>

\* SendMessageToPeer.
SendMessageToPeer(z) ==
    /\ Cardinality(said) < conf.messages
    /\ \E m \in {1, 2} \ said :
           /\ said' = said \cup {m}
           /\ air' = air \cup {Packet(z, l.to, "message", m) : l \in {k \in conf.links : k.from = z /\ k.messages}}
    /\ UNCHANGED <<clock, own, tables, counts, stamps, swept, displayed>>

\* RemoveStaleArenas, by a timer of z's main loop.
Stale(e) == clock - e.last > conf.stale
RemoveStaleArenas(z) ==
    /\ swept[z] + conf.sweep = clock /\ swept' = [swept EXCEPT ![z] = clock]
    /\ tables' = [l \in Links |-> IF l[1] # z THEN tables[l]
                    ELSE Restrict(tables[l], {n \in DOMAIN tables[l] : ~Stale(tables[l][n])})]
    /\ UNCHANGED <<clock, own, counts, stamps, air, said, displayed>>

\* Mistaken variant of the next: each packet is taken to speak of all arenas.
AllRefreshed(l, body) ==
    [n \in DOMAIN tables[l] \cup DOMAIN body |->
       LET e == Over(body, tables[l])[n] IN [players |-> e.players, since |-> e.since, last |-> clock]]

\* HandlePlayerList: the arenas that are listed have these players from now on, and the
\* others stay until they are stale.
HandlePlayerList(l, body) ==
    Over([n \in DOMAIN body |-> [players |-> body[n].players, since |-> body[n].since, last |-> clock]], tables[l])

\* Mistaken variant of the next: messages do not go through the filter.
OnlyLists(l, packet) ==
    packet.type \in {"list", "count"} /\ stamps[l][packet.stamp % conf.buckets] = packet.stamp

\* What has arrived before is recognised by its timestamp, if no other packet has used its
\* place since.
Received(l, packet) == stamps[l][packet.stamp % conf.buckets] = packet.stamp

\* PeerConnInitCB.
PeerConnInitCB(packet) ==
    LET z == packet.to
        l == <<z, packet.from>>
    IN  /\ packet.type # "unknown" /\ l \in Links /\ ~Link(z, packet.from).sendOnly
        /\ ~Received(l, packet)
        /\ stamps' = [stamps EXCEPT ![l][packet.stamp % conf.buckets] = packet.stamp]
        /\ tables' = CASE packet.type = "list" -> [tables EXCEPT ![l] = HandlePlayerList(l, packet.body)]
                       [] packet.type = "count" -> [tables EXCEPT ![l] = <<>>]
                       [] packet.type = "message" -> tables
        /\ counts' = CASE packet.type = "list" -> [counts EXCEPT ![l] = -1]
                       [] packet.type = "count" -> [counts EXCEPT ![l] = packet.body]
                       [] packet.type = "message" -> counts
        /\ displayed' = IF packet.type = "message" THEN [displayed EXCEPT ![z] = Append(@, packet.body)] ELSE displayed
        /\ UNCHANGED <<clock, own, swept, air, said>>

\* Time goes on, but no main loop is late, and no packet stays longer than it may.
Passes ==
    /\ clock < conf.maxClock /\ \A z \in Zones : swept[z] + conf.sweep > clock
    /\ clock' = clock + 1 /\ air' = {packet \in air : packet.stamp + conf.delay >= clock'}
    /\ UNCHANGED <<own, tables, counts, stamps, swept, said, displayed>>

PeerStep ==
    \/ \E z \in Zones : Moves(z) \/ PeriodicUpdate(z) \/ SendMessageToPeer(z) \/ RemoveStaleArenas(z)
    \/ \E packet \in air : PeerConnInitCB(packet)
    \/ Passes
-----------------------------------------------------------------------------
\* How far a zone is from one that has the arena.
Near[k \in Nat] == IF k = 0 THEN conf.hosts ELSE Near[k - 1] \cup {l[2] : l \in {m \in Links : m[1] \in Near[k - 1]}}
Far(z) == Min({k \in 0 .. Cardinality(PeerZones) : z \in Near[k]})

\* A closed arena, or a player who has left, is not shown for ever, whatever happens to
\* packets: what a zone knows was true at the zone it comes from so long ago as it takes to
\* become stale and be noticed, and the packet to arrive, for each zone on the way.
NothingIsTooOld ==
    \A l \in Links : \A n \in DOMAIN tables[l] :
        clock - tables[l][n].since <= Far(l[1]) * (conf.stale + conf.sweep + conf.delay)

\* A message is shown once, even if its packet arrives twice; and nobody shows what was not
\* said.
ShownOnce ==
    \A z \in PeerZones : IsInjective(displayed[z]) /\ ToSet(displayed[z]) \subseteq said

PeersAreCurrent == Has("peer") => NothingIsTooOld /\ ShownOnce
=============================================================================
