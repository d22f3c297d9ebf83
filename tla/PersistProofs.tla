---------------------------- MODULE PersistProofs ----------------------------
(***************************************************************************)
(* The data that modules hold belongs to the interval that runs, the       *)
(* records of an interval that is over stay as they are, and no point is   *)
(* lost and none counts twice: for any number of players, arenas,          *)
(* descriptors and groups, and without the bounds that the runs need.      *)
(*                                                                         *)
(* The argument: a player or an arena waits for one message at a time, and *)
(* its status says which (QueueInv); so the status says for which key data *)
(* in memory can have been read (StandsFit); so the two passes of          *)
(* do_end_interval, which go by the statuses, meet everybody whose data    *)
(* belongs to the interval that ends (EndingFits).                         *)
(*                                                                         *)
(* What is in memory stands for the record that the database thread would  *)
(* write now (StandsForKey), so to write it moves points from memory into  *)
(* a record and to read it moves them back; TotalTaken says that the sum   *)
(* stays.  The end of an interval writes, clears and counts up: what it    *)
(* clears it has written (StoredFits), nothing is written yet under the    *)
(* next number (RecordsOld), and for players who have just been saved it   *)
(* writes what they have saved (SavedFits).                                *)
(***************************************************************************)
EXTENDS Persist, Sums

----------------------------------------------------------------------------
(* The inductive invariant.                                                *)

Waits == {"wait_global_sync1", "wait_arena_sync1", "wait_arena_sync2", "wait_global_sync2"}
AWaits == {"wait_sync1", "wait_sync2"}

\* The statuses of a player who is in an arena or on the way in or out of it.
InArena == {"wait_arena_sync1", "arena_resp_and_cbs", "playing", "leaving_arena",
            "do_arena_sync2", "wait_arena_sync2"}

Unanswered(o) == \A i \in DOMAIN mainq : mainq[i] # o

\* The message is the one that its owner's status waits for.
PlayerAsks(m) ==
    /\ m.owner \in Players
    /\ \/ /\ m.command = "getplayer" /\ m.arena = None
          /\ status[m.owner] = "wait_global_sync1"
       \/ /\ m.command = "putplayer" /\ m.arena = None
          /\ status[m.owner] = "wait_global_sync2"
       \/ /\ m.command = "getplayer" /\ m.arena = arena[m.owner]
          /\ status[m.owner] = "wait_arena_sync1"
       \/ /\ m.command = "putplayer" /\ m.arena = arena[m.owner]
          /\ status[m.owner] = "wait_arena_sync2"

ArenaAsks(m) ==
    /\ m.owner \in Arenas /\ m.arena = m.owner
    /\ \/ m.command = "getarena" /\ astatus[m.owner] = "wait_sync1"
       \/ m.command = "putarena" /\ astatus[m.owner] = "wait_sync2"

RequestsFit ==
    \A i \in DOMAIN dbq : Unowned(dbq[i]) \/ PlayerAsks(dbq[i]) \/ ArenaAsks(dbq[i])

AnswersFit ==
    \A i \in DOMAIN mainq :
        /\ mainq[i] \in Players => status[mainq[i]] \in Waits
        /\ mainq[i] \in Arenas => astatus[mainq[i]] \in AWaits

WaitsOnce ==
    /\ \A i, j \in DOMAIN dbq :
           ~Unowned(dbq[i]) /\ ~Unowned(dbq[j]) /\ dbq[i].owner = dbq[j].owner => i = j
    /\ \A i, j \in DOMAIN mainq : mainq[i] = mainq[j] => i = j
    /\ \A i \in DOMAIN dbq : ~Unowned(dbq[i]) => Unanswered(dbq[i].owner)

HasArena == \A p \in Players : status[p] \in InArena => arena[p] # None

QueueInv == RequestsFit /\ AnswersFit /\ WaitsOnce /\ HasArena

\* The statuses with which data has been read, and not been saved since.
HoldsGlobal(p) ==
    \/ status[p] = "wait_global_sync1" /\ ~Unanswered(p)
    \/ status[p] \in {"do_global_callbacks", "loggedin", "leaving_zone"}
    \/ status[p] \in InArena
    \/ status[p] = "wait_global_sync2" /\ Unanswered(p)

HoldsArena(p) ==
    /\ status[p] \in InArena
    /\ status[p] = "wait_arena_sync1" => ~Unanswered(p)
    /\ status[p] = "wait_arena_sync2" => Unanswered(p)

ArenaHolds(a) ==
    \/ astatus[a] = "wait_sync1" /\ ~Unanswered(a)
    \/ astatus[a] = "running"
    \/ astatus[a] = "wait_sync2" /\ Unanswered(a)

Holds(x) ==
    \/ x[1] \in Players /\ x[2].scope = "global" /\ HoldsGlobal(x[1])
    \/ x[1] \in Players /\ x[2].scope = "allarenas" /\ HoldsArena(x[1])
    \/ x[1] \in Arenas /\ ArenaHolds(x[1])

\* The arena that the database is asked about.
ArenaOf(x) ==
    IF x[1] \in Arenas THEN x[1]
    ELSE IF x[2].scope = "global" THEN None
    ELSE arena[x[1]]

Stands(x) ==
    LET k == standsFor[x]
    IN  /\ k.who = IF x[1] \in Players THEN x[1] ELSE None
        /\ k.data = x[2] /\ k.ag = ArenaGroup(ArenaOf(x), x[2].interval)

StandsFor(x) == (standsFor[x] # NoKey <=> Holds(x)) /\ (Holds(x) => Stands(x))

StandsFit == \A x \in Accounts : StandsFor(x)

\* Data of the interval that ends is going to be cleared, or has been.
Met(x) ==
    LET k == standsFor[x]
    IN  k # NoKey /\ k.ag = ending.ag /\ k.data.interval = ending.interval =>
            x \in ending.todo \cup ending.stored \/ k.serialno > ending.serialno

EndingFits ==
    ending # None =>
        /\ ending.serialno = serial[<<ending.ag, ending.interval>>]
        /\ \A x, y \in ending.stored : x = y
        /\ \A x \in ending.todo \cup ending.stored :
               /\ Ends(x, ending)
               /\ x[1] \in Players <=> ending.phase = "players"
               /\ standsFor[x] # NoKey => standsFor[x].ag = ending.ag
        /\ \A x \in Accounts \ spoiled : x[1] \in Players \/ ending.phase = "arenas" => Met(x)

----------------------------------------------------------------------------
(* Types.                                                                  *)

Statuses == {"out", "wait_global_sync1", "do_global_callbacks", "loggedin",
      "wait_arena_sync1", "arena_resp_and_cbs", "playing", "leaving_arena",
      "do_arena_sync2", "wait_arena_sync2", "leaving_zone", "wait_global_sync2",
      "timewait"}

LEMMA OrderIs ==
    /\ DOMAIN StatusOrder = 1 .. 13
    /\ StatusOrder[1] = "out" /\ StatusOrder[2] = "wait_global_sync1"
    /\ StatusOrder[3] = "do_global_callbacks" /\ StatusOrder[4] = "loggedin"
    /\ StatusOrder[5] = "wait_arena_sync1" /\ StatusOrder[6] = "arena_resp_and_cbs"
    /\ StatusOrder[7] = "playing" /\ StatusOrder[8] = "leaving_arena"
    /\ StatusOrder[9] = "do_arena_sync2" /\ StatusOrder[10] = "wait_arena_sync2"
    /\ StatusOrder[11] = "leaving_zone" /\ StatusOrder[12] = "wait_global_sync2"
    /\ StatusOrder[13] = "timewait"
BY DEF StatusOrder

LEMMA StatusesAre == {StatusOrder[i] : i \in DOMAIN StatusOrder} = Statuses
<1>1. \A i \in 1 .. 13 : StatusOrder[i] \in Statuses
  BY DEF StatusOrder, Statuses
<1> QED
  BY <1>1, OrderIs DEF Statuses

\* The numbers of the statuses.
LEMMA Numbers ==
    /\ Number("out") = 1 /\ Number("wait_global_sync1") = 2
    /\ Number("do_global_callbacks") = 3 /\ Number("loggedin") = 4
    /\ Number("wait_arena_sync1") = 5 /\ Number("arena_resp_and_cbs") = 6
    /\ Number("playing") = 7 /\ Number("leaving_arena") = 8
    /\ Number("do_arena_sync2") = 9 /\ Number("wait_arena_sync2") = 10
    /\ Number("leaving_zone") = 11 /\ Number("wait_global_sync2") = 12
    /\ Number("timewait") = 13
<1>1. \A i, j \in 1 .. 13 : StatusOrder[i] = StatusOrder[j] => i = j
  BY DEF StatusOrder
<1>2. \A i \in 1 .. 13 : Number(StatusOrder[i]) = i
  BY <1>1, OrderIs DEF Number
<1> QED
  BY <1>2, OrderIs

\* Whose data do_end_interval looks at.
LEMMA InRangeAre ==
    ASSUME NEW p \in Players, NEW ag, status[p] \in Statuses
    PROVE  /\ ag = Global =>
                (InRange(p, ag) <=> status[p] \notin {"out", "wait_global_sync1", "timewait"})
           /\ ag # Global => (InRange(p, ag) <=> status[p] \in InArena \ {"wait_arena_sync1"})
BY Numbers DEF InRange, Statuses, InArena

----------------------------------------------------------------------------
(* What the database thread writes and reads.                              *)

LEMMA GroupsAre ==
    ASSUME NEW a \in Arenas \cup {None}, NEW interval
    PROVE  /\ ArenaGroup(a, interval) \in Groups
           /\ a # None <=> ArenaGroup(a, interval) # Global
BY PersistAssumption DEF ArenaGroup, Groups

LEMMA AccountsAre ==
    ASSUME NEW x \in Accounts
    PROVE  /\ x = <<x[1], x[2]>>
           /\ x[1] \in Owners /\ x[2] \in PlayerData \cup ArenaData
           /\ x[2].scope \in Scopes /\ x[2].interval \in Intervals
           /\ x[1] \in Players <=> x[1] \notin Arenas
           /\ x[1] \in Arenas => x[2].scope = "allarenas"
<1>1. x[2] \in Descriptors
  BY PersistAssumption DEF Accounts, DataOf
<1> QED
  BY <1>1, PersistAssumption DEF Accounts, DataOf, Owners, Descriptors

LEMMA CurrentKeyIs ==
    ASSUME TypeOK, NEW x \in Accounts, NEW a \in Arenas \cup {None}
    PROVE  LET k == CurrentKey(x[1], x[2], a)
           IN  /\ k \in Keys /\ k # NoKey
               /\ k.data = x[2] /\ k.ag = ArenaGroup(a, x[2].interval)
               /\ k.serialno = serial[<<k.ag, k.data.interval>>]
               /\ k.who \in {x[1], None}
<1> DEFINE ag == ArenaGroup(a, x[2].interval)
<1>1. /\ x[1] \in Owners /\ x[2] \in PlayerData \cup ArenaData
      /\ x[2].interval \in Intervals /\ ag \in Groups
  BY AccountsAre, GroupsAre
<1>2. serial[<<ag, x[2].interval>>] \in Nat
  BY <1>1 DEF TypeOK
<1>3. ag # None
  BY <1>1, PersistAssumption
<1> HIDE DEF ag
<1> QED
  BY <1>1, <1>2, <1>3 DEF CurrentKey, Key, Keys, NoKey, ag

\* PutThese changes records with current serial numbers only, and keeps the
\* database what it is: numbers of points by keys.
LEMMA PutTheseFits ==
    ASSUME TypeOK, NEW pairs \in SUBSET (Accounts \X (Arenas \cup {None})),
           db' = PutThese(pairs)
    PROVE  /\ DOMAIN db' \subseteq Keys /\ \A k \in DOMAIN db' : db'[k] \in Nat \ {0}
           /\ \A k : k.serialno # serial[<<k.ag, k.data.interval>>] =>
                  /\ k \in DOMAIN db' <=> k \in DOMAIN db
                  /\ k \in DOMAIN db => db'[k] = db[k]
<1> DEFINE these    == {y \in pairs : InScope(y[1][2], y[2])}
           Of(y)    == CurrentKey(y[1][1], y[1][2], y[2])
           put      == {Of(y) : y \in these}
           Value(k) == mem[(CHOOSE y \in these : Of(y) = k)[1]]
<1>1. db' = [k \in (DOMAIN db \ put) \cup {j \in put : Value(j) > 0} |->
                IF k \in put THEN Value(k) ELSE db[k]]
  BY DEF PutThese
<1>2. \A y \in these : y[1] \in Accounts /\ y[2] \in Arenas \cup {None}
  OBVIOUS
<1>3. \A k \in put : k \in Keys /\ k.serialno = serial[<<k.ag, k.data.interval>>]
  BY <1>2, CurrentKeyIs
<1>4. \A k \in put : Value(k) \in Nat
  <2> SUFFICES ASSUME NEW k \in put
               PROVE  Value(k) \in Nat
    OBVIOUS
  <2> DEFINE y == CHOOSE y \in these : Of(y) = k
  <2>1. y \in these
    OBVIOUS
  <2>2. y[1] \in Accounts
    BY <2>1, <1>2
  <2> QED
    BY <2>2 DEF TypeOK
<1> HIDE DEF put, Value
<1>5. DOMAIN db \subseteq Keys /\ \A k \in DOMAIN db : db[k] \in Nat \ {0}
  BY DEF TypeOK
<1>6. DOMAIN db' = (DOMAIN db \ put) \cup {j \in put : Value(j) > 0}
  BY <1>1
<1>7. \A k \in DOMAIN db' : db'[k] = IF k \in put THEN Value(k) ELSE db[k]
  BY <1>1
<1>8. DOMAIN db' \subseteq Keys
  BY <1>3, <1>5, <1>6
<1>9. ASSUME NEW k \in DOMAIN db'
      PROVE  db'[k] \in Nat \ {0}
  <2>1. CASE k \in put
    BY <2>1, <1>4, <1>6, <1>7
  <2>2. CASE k \notin put
    BY <2>2, <1>5, <1>6, <1>7
  <2> QED
    BY <2>1, <2>2
<1>10. ASSUME NEW k, k.serialno # serial[<<k.ag, k.data.interval>>]
       PROVE  /\ k \in DOMAIN db' <=> k \in DOMAIN db
              /\ k \in DOMAIN db => db'[k] = db[k]
  <2>1. k \notin put
    BY <1>10, <1>3
  <2> QED
    BY <2>1, <1>6, <1>7
<1> QED
  BY <1>8, <1>9, <1>10

----------------------------------------------------------------------------
(* Type correctness.                                                       *)

\* Lookups of a key give a number of points.
LEMMA LoadedIsANumber ==
    ASSUME TypeOK, NEW x, NEW k
    PROVE  Loaded(x, k) \in Nat
BY DEF TypeOK, Loaded, RecordOf

LEMMA GetFits ==
    ASSUME TypeOK, NEW o, NEW a \in Arenas \cup {None}, Get(o, a)
    PROVE  mem' \in [Accounts -> Nat] /\ standsFor' \in [Accounts -> Keys \cup {NoKey}]
<1>1. mem' \in [Accounts -> Nat]
  BY LoadedIsANumber DEF Get, TypeOK
<1>2. \A x \in Accounts : x[1] = o => CurrentKey(o, x[2], a) \in Keys
  BY CurrentKeyIs
<1>3. standsFor' \in [Accounts -> Keys \cup {NoKey}]
  BY <1>2 DEF Get, TypeOK
<1> QED
  BY <1>1, <1>3

LEMMA PutFits ==
    ASSUME TypeOK, NEW o, NEW a \in Arenas \cup {None}, Put(o, a)
    PROVE  /\ standsFor' \in [Accounts -> Keys \cup {NoKey}]
           /\ DOMAIN db' \subseteq Keys /\ \A k \in DOMAIN db' : db'[k] \in Nat \ {0}
           /\ \A k : k.serialno # serial[<<k.ag, k.data.interval>>] =>
                  /\ k \in DOMAIN db' <=> k \in DOMAIN db
                  /\ k \in DOMAIN db => db'[k] = db[k]
<1>1. standsFor' \in [Accounts -> Keys \cup {NoKey}]
  BY DEF Put, TypeOK
<1> DEFINE pairs == {<<x, a>> : x \in {y \in Accounts : y[1] = o}}
<1>2. pairs \in SUBSET (Accounts \X (Arenas \cup {None})) /\ db' = PutThese(pairs)
  BY DEF Put
<1> QED
  BY <1>1, <1>2, PutTheseFits

LEMMA PutAllFits ==
    ASSUME TypeOK, PutAll
    PROVE  /\ DOMAIN db' \subseteq Keys /\ \A k \in DOMAIN db' : db'[k] \in Nat \ {0}
           /\ \A k : k.serialno # serial[<<k.ag, k.data.interval>>] =>
                  /\ k \in DOMAIN db' <=> k \in DOMAIN db
                  /\ k \in DOMAIN db => db'[k] = db[k]
BY PutTheseFits DEF PutAll

LEMMA EndStoreFits ==
    ASSUME TypeOK, EndStore
    PROVE  /\ DOMAIN db' \subseteq Keys /\ \A k \in DOMAIN db' : db'[k] \in Nat \ {0}
           /\ \A k : k.serialno # serial[<<k.ag, k.data.interval>>] =>
                  /\ k \in DOMAIN db' <=> k \in DOMAIN db
                  /\ k \in DOMAIN db => db'[k] = db[k]
<1>1. ending \in Endings
  BY DEF EndStore, TypeOK
<1>2. PICK x \in ending.todo :
          db' = PutThese({<<x, IF x[1] \in Players THEN arena[x[1]] ELSE x[1]>>})
  BY DEF EndStore
<1> DEFINE a == IF x[1] \in Players THEN arena[x[1]] ELSE x[1]
<1>3. x \in Accounts
  BY <1>1, <1>2 DEF Endings
<1>4. a \in Arenas \cup {None}
  BY <1>3, AccountsAre DEF TypeOK, Owners
<1>5. {<<x, a>>} \in SUBSET (Accounts \X (Arenas \cup {None}))
  BY <1>3, <1>4
<1> QED
  BY <1>2, <1>5, PutTheseFits

\* What the message that comes first says.
LEMMA FirstMessage ==
    ASSUME TypeOK, dbq # <<>>
    PROVE  /\ NextMessage = dbq[1] /\ 1 \in DOMAIN dbq /\ NextMessage \in Messages
           /\ Tail(dbq) \in Seq(Messages) /\ Len(Tail(dbq)) = Len(dbq) - 1
           /\ \A i \in DOMAIN Tail(dbq) : i + 1 \in DOMAIN dbq /\ Tail(dbq)[i] = dbq[i + 1]
           /\ NextMessage.command # "end" =>
                 NextMessage.arena \in Arenas \cup {None}
           /\ ~Unowned(NextMessage) => NextMessage.owner \in Owners
           /\ NextMessage.command = "end" =>
                 NextMessage.ag \in Groups /\ NextMessage.interval \in Intervals \ Lasting
<1>1. dbq \in Seq(Messages)
  BY DEF TypeOK
<1>2. NextMessage = dbq[1] /\ 1 \in DOMAIN dbq /\ NextMessage \in Messages
  BY <1>1 DEF NextMessage
<1>3. /\ Tail(dbq) \in Seq(Messages) /\ Len(Tail(dbq)) = Len(dbq) - 1
      /\ \A i \in DOMAIN Tail(dbq) : i + 1 \in DOMAIN dbq /\ Tail(dbq)[i] = dbq[i + 1]
  BY <1>1
<1>4. NextMessage.command # "end" =>
         NextMessage.arena \in Arenas \cup {None}
  BY <1>2 DEF Messages
<1>5. NextMessage.command = "end" =>
         NextMessage.ag \in Groups /\ NextMessage.interval \in Intervals \ Lasting
  BY <1>2 DEF Messages
<1>6. ~Unowned(NextMessage) => NextMessage.owner \in Owners
  BY <1>2 DEF Messages, Unowned
<1> QED
  BY <1>2, <1>3, <1>4, <1>5, <1>6

LEMMA EndedAre ==
    ASSUME NEW m
    PROVE  EndedPlayers(m) \subseteq Accounts /\ EndedArenas(m) \subseteq Accounts
           /\ Overlooked(m) \subseteq Accounts
BY DEF EndedPlayers, EndedArenas, Overlooked

LEMMA TypesInit == Init => TypeOK
<1> SUFFICES ASSUME Init PROVE TypeOK
  OBVIOUS
<1>1. "out" \in Statuses
  BY DEF Statuses
<1>2. DOMAIN db = {}
  BY DEF Init
<1>3. dbq \in Seq(Messages) /\ mainq \in Seq(Owners)
  BY DEF Init
<1> QED
  BY <1>1, <1>2, <1>3, StatusesAre DEF Init, TypeOK, AStatuses

\* The steps of players and arenas.
LEMMA TypesOfOwners ==
    ASSUME TypeOK,
           \/ \E p \in Players : Login(p) \/ EnterArena(p) \/ SaveArena(p) \/ SaveGlobal(p) \/ Moves(p)
           \/ \E a \in Arenas : ArenaCreated(a) \/ ArenaLoads(a) \/ ArenaSaves(a)
           \/ Synced
    PROVE  TypeOK'
<1>1. status \in [Players -> Statuses] /\ arena \in [Players -> Arenas \cup {None}]
      /\ astatus \in [Arenas -> AStatuses]
  BY StatusesAre DEF TypeOK
<1>2. \A s \in Statuses : s \in {StatusOrder[i] : i \in DOMAIN StatusOrder}
  BY StatusesAre
<1>3. ASSUME NEW p \in Players, NEW from, NEW to \in Statuses, Goes(p, from, to)
      PROVE  status' \in [Players -> {StatusOrder[i] : i \in DOMAIN StatusOrder}]
  BY <1>1, <1>2, <1>3 DEF Goes
<1>4. ASSUME NEW a \in Arenas, NEW from, NEW to \in AStatuses, AGoes(a, from, to)
      PROVE  astatus' \in [Arenas -> AStatuses]
  BY <1>1, <1>4 DEF AGoes
<1>5. ASSUME NEW m \in Messages, dbq' = Append(dbq, m)
      PROVE  dbq' \in Seq(Messages)
  BY <1>5 DEF TypeOK
<1>6. ASSUME NEW p \in Players, NEW c \in {"getplayer", "putplayer"}, NEW a \in Arenas \cup {None}
      PROVE  Message(c, p, a) \in Messages
  BY DEF Message, Messages, Owners
<1>7. ASSUME NEW a \in Arenas, NEW c \in {"getarena", "putarena"}
      PROVE  Message(c, a, a) \in Messages
  BY DEF Message, Messages, Owners
<1>8. ASSUME NEW p \in Players, Login(p)
      PROVE  TypeOK'
  <2>1. "wait_global_sync1" \in Statuses
    BY DEF Statuses
  <2> QED
    BY <1>8, <1>3, <1>5, <1>6, <2>1 DEF Login, AsksDB, TypeOK
<1>9. ASSUME NEW p \in Players, EnterArena(p)
      PROVE  TypeOK'
  <2>1. "wait_arena_sync1" \in Statuses
    BY DEF Statuses
  <2>2. status' \in [Players -> {StatusOrder[i] : i \in DOMAIN StatusOrder}]
    BY <1>9, <1>3, <2>1 DEF EnterArena
  <2> QED
    BY <1>9, <1>1, <1>5, <1>6, <2>2 DEF EnterArena, AsksDB, TypeOK
<1>10. ASSUME NEW p \in Players, SaveArena(p)
       PROVE  TypeOK'
  <2>1. "wait_arena_sync2" \in Statuses
    BY DEF Statuses
  <2> QED
    BY <1>10, <1>1, <1>3, <1>5, <1>6, <2>1 DEF SaveArena, AsksDB, TypeOK
<1>11. ASSUME NEW p \in Players, SaveGlobal(p)
       PROVE  TypeOK'
  <2>1. "wait_global_sync2" \in Statuses
    BY DEF Statuses
  <2> QED
    BY <1>11, <1>3, <1>5, <1>6, <2>1 DEF SaveGlobal, AsksDB, TypeOK
<1>12. ASSUME NEW p \in Players, Moves(p)
       PROVE  TypeOK'
  <2>1. {"loggedin", "leaving_zone", "playing", "leaving_arena", "do_arena_sync2", "out"}
          \subseteq Statuses
    BY DEF Statuses
  <2>2. status' \in [Players -> {StatusOrder[i] : i \in DOMAIN StatusOrder}]
    BY <1>12, <1>3, <2>1 DEF Moves
  <2> QED
    BY <1>12, <2>2 DEF Moves, TypeOK
<1>13. ASSUME NEW a \in Arenas, ArenaCreated(a) \/ ArenaLoads(a) \/ ArenaSaves(a)
       PROVE  TypeOK'
  <2>1. {"created", "wait_sync1", "wait_sync2"} \subseteq AStatuses
    BY DEF AStatuses
  <2>2. astatus' \in [Arenas -> AStatuses]
    BY <1>13, <1>4, <2>1 DEF ArenaCreated, ArenaLoads, ArenaSaves
  <2>3. CASE ArenaCreated(a)
    BY <2>2, <2>3 DEF ArenaCreated, TypeOK
  <2>4. CASE ArenaLoads(a)
    BY <2>2, <2>4, <1>5, <1>7 DEF ArenaLoads, AsksDB, TypeOK
  <2>5. CASE ArenaSaves(a)
    BY <2>2, <2>5, <1>5, <1>7 DEF ArenaSaves, AsksDB, TypeOK
  <2> QED
    BY <1>13, <2>3, <2>4, <2>5
<1>14. CASE Synced
  <2> DEFINE o == Head(mainq)
  <2>1. o \in Owners /\ mainq' \in Seq(Owners)
    BY <1>14 DEF Synced, TypeOK
  <2>2. CASE o \in Players
    <3>1. PlayerSynced(o)
      BY <1>14, <2>2 DEF Synced
    <3>2. {"do_global_callbacks", "arena_resp_and_cbs", "do_arena_sync2", "loggedin", "timewait"}
            \subseteq Statuses
      BY DEF Statuses
    <3>3. status' \in [Players -> {StatusOrder[i] : i \in DOMAIN StatusOrder}]
      BY <3>1, <3>2, <2>2, <1>3 DEF PlayerSynced
    <3>4. arena' \in [Players -> Arenas \cup {None}]
      BY <3>1, <1>1 DEF PlayerSynced
    <3> QED
      BY <1>14, <2>1, <3>1, <3>3, <3>4 DEF Synced, PlayerSynced, TypeOK
  <2>3. CASE o \notin Players
    <3>1. ArenaSynced(o) /\ o \in Arenas
      BY <1>14, <2>1, <2>3 DEF Synced, Owners
    <3>2. {"running", "absent"} \subseteq AStatuses
      BY DEF AStatuses
    <3>3. astatus' \in [Arenas -> AStatuses]
      BY <3>1, <3>2, <1>4 DEF ArenaSynced
    <3>4. mem' \in [Accounts -> Nat]
      BY <3>1 DEF ArenaSynced, TypeOK
    <3> QED
      BY <1>14, <2>1, <3>1, <3>3, <3>4 DEF Synced, ArenaSynced, TypeOK
  <2> QED
    BY <2>2, <2>3
<1> QED
  BY <1>8, <1>9, <1>10, <1>11, <1>12, <1>13, <1>14

\* The steps of the modules and of the calls that nobody waits for.
LEMMA TypesOfModules ==
    ASSUME TypeOK,
           \/ \E x \in Accounts : Score(x)
           \/ SyncTimer
           \/ \E ag \in Groups, interval \in Intervals : EndInterval(ag, interval)
    PROVE  TypeOK'
<1>1. ASSUME NEW x \in Accounts, Score(x)
      PROVE  TypeOK'
  <2>1. mem' \in [Accounts -> Nat] /\ scored' \in [Accounts -> Nat] /\ spoiled' \subseteq Accounts
    BY <1>1 DEF Score, TypeOK
  <2> QED
    BY <1>1, <2>1 DEF Score, TypeOK
<1>2. ASSUME NEW m \in Messages, Ask(m)
      PROVE  TypeOK'
  <2>1. dbq' \in Seq(Messages)
    BY <1>2 DEF Ask, TypeOK
  <2> QED
    BY <1>2, <2>1 DEF Ask, TypeOK
<1>3. CASE SyncTimer
  <2>1. Message("putall", None, None) \in Messages
    BY DEF Message, Messages
  <2> QED
    BY <1>2, <1>3, <2>1 DEF SyncTimer
<1>4. ASSUME NEW ag \in Groups, NEW interval \in Intervals, EndInterval(ag, interval)
      PROVE  TypeOK'
  <2>1. [command |-> "end", ag |-> ag, interval |-> interval] \in Messages
    BY <1>4 DEF EndInterval, Messages
  <2> QED
    BY <1>2, <1>4, <2>1 DEF EndInterval
<1> QED
  BY <1>1, <1>3, <1>4

\* The steps of the database thread.
LEMMA TypesOfDBThread ==
    ASSUME TypeOK, DBThread
    PROVE  TypeOK'
<1>1. CASE DBCommand
  <2> DEFINE o == NextMessage.owner
             a == NextMessage.arena
  <2>1. /\ NextMessage.command # "end" /\ dbq # <<>> /\ a \in Arenas \cup {None}
        /\ dbq' \in Seq(Messages)
        /\ ~Unowned(NextMessage) => o \in Owners
    BY <1>1, FirstMessage DEF DBCommand
  <2>2. mainq' \in Seq(Owners)
    BY <1>1, <2>1 DEF DBCommand, TypeOK
  <2>3. UNCHANGED <<status, arena, astatus, serial, ending, scored, spoiled>>
    BY <1>1 DEF DBCommand
  <2>4. NextMessage.command \in {"getplayer", "getarena", "putplayer", "putarena", "putall"}
    BY <2>1, FirstMessage DEF Messages
  <2>5. ASSUME mem' \in [Accounts -> Nat], standsFor' \in [Accounts -> Keys \cup {NoKey}],
               DOMAIN db' \subseteq Keys, \A k \in DOMAIN db' : db'[k] \in Nat \ {0}
        PROVE  TypeOK'
    BY <2>1, <2>2, <2>3, <2>5 DEF TypeOK
  <2>6. mem \in [Accounts -> Nat] /\ standsFor \in [Accounts -> Keys \cup {NoKey}]
        /\ DOMAIN db \subseteq Keys /\ \A k \in DOMAIN db : db[k] \in Nat \ {0}
    BY DEF TypeOK
  <2>7. CASE NextMessage.command \in {"getplayer", "getarena"}
    <3>1. Get(o, a) /\ UNCHANGED db
      BY <1>1, <2>7 DEF DBCommand
    <3>2. mem' \in [Accounts -> Nat] /\ standsFor' \in [Accounts -> Keys \cup {NoKey}]
      BY <2>1, <3>1, GetFits
    <3> QED
      BY <2>5, <2>6, <3>1, <3>2
  <2>8. CASE NextMessage.command \in {"putplayer", "putarena"}
    <3>1. Put(o, a) /\ UNCHANGED mem
      BY <1>1, <2>8 DEF DBCommand
    <3>2. /\ standsFor' \in [Accounts -> Keys \cup {NoKey}]
          /\ DOMAIN db' \subseteq Keys /\ \A k \in DOMAIN db' : db'[k] \in Nat \ {0}
      BY <2>1, <3>1, PutFits
    <3> QED
      BY <2>5, <2>6, <3>1, <3>2
  <2>9. CASE NextMessage.command = "putall"
    <3>1. PutAll /\ UNCHANGED <<mem, standsFor>>
      BY <1>1, <2>9 DEF DBCommand
    <3>2. DOMAIN db' \subseteq Keys /\ \A k \in DOMAIN db' : db'[k] \in Nat \ {0}
      BY <3>1, PutAllFits
    <3> QED
      BY <2>5, <2>6, <3>1, <3>2
  <2> QED
    BY <2>4, <2>7, <2>8, <2>9
<1>2. CASE EndStart
  <2>1. /\ NextMessage.ag \in Groups /\ NextMessage.interval \in Intervals \ Lasting
        /\ dbq' \in Seq(Messages)
    BY <1>2, FirstMessage DEF EndStart
  <2>2. serial[<<NextMessage.ag, NextMessage.interval>>] \in Nat
    BY <2>1 DEF TypeOK
  <2>3. ending' \in Endings
    BY <1>2, <2>1, <2>2, EndedAre DEF EndStart, Endings
  <2>4. spoiled' \subseteq Accounts
    BY <1>2, EndedAre DEF EndStart, TypeOK
  <2> QED
    BY <1>2, <2>1, <2>3, <2>4 DEF EndStart, TypeOK
<1>3. CASE EndStore
  <2>1. ending \in Endings
    BY <1>3 DEF EndStore, TypeOK
  <2>2. PICK x \in ending.todo : /\ spoiled' \subseteq spoiled \cup {x}
                                 /\ ending' = [ending EXCEPT !.todo = @ \ {x}, !.stored = {x}]
    BY <1>3 DEF EndStore
  <2>3. x \in Accounts
    BY <2>1, <2>2 DEF Endings
  <2>4. ending' \in Endings
    BY <2>1, <2>2, <2>3 DEF Endings
  <2>5. spoiled' \subseteq Accounts
    BY <2>2, <2>3 DEF TypeOK
  <2> QED
    BY <1>3, <2>4, <2>5, EndStoreFits DEF EndStore, TypeOK
<1>4. CASE EndClear
  <2>1. ending \in Endings
    BY <1>4 DEF EndClear, TypeOK
  <2>2. PICK x \in ending.stored :
          /\ mem' = [mem EXCEPT ![x] = 0]
          /\ standsFor' = [standsFor EXCEPT ![x] =
                IF @ = NoKey THEN NoKey ELSE [@ EXCEPT !.serialno = ending.serialno + 1]]
    BY <1>4 DEF EndClear
  <2>3. x \in Accounts /\ ending.serialno + 1 \in Nat
    BY <2>1 DEF Endings
  <2>4. mem' \in [Accounts -> Nat]
    BY <2>2, <2>3 DEF TypeOK
  <2>5. standsFor[x] # NoKey => [standsFor[x] EXCEPT !.serialno = ending.serialno + 1] \in Keys
    BY <2>3 DEF TypeOK, Keys
  <2>6. standsFor' \in [Accounts -> Keys \cup {NoKey}]
    BY <2>2, <2>3, <2>5 DEF TypeOK
  <2>7. ending' \in Endings
    BY <1>4, <2>1 DEF EndClear, Endings
  <2> QED
    BY <1>4, <2>4, <2>6, <2>7 DEF EndClear, TypeOK
<1>5. CASE EndArenas
  <2>1. ending \in Endings
    BY <1>5 DEF EndArenas, Stage, TypeOK
  <2>2. ending' \in Endings
    BY <1>5, <2>1, EndedAre DEF EndArenas, Endings
  <2> QED
    BY <1>5, <2>2 DEF EndArenas, TypeOK
<1>6. CASE EndFinish
  <2>1. ending \in Endings
    BY <1>6 DEF EndFinish, Stage, TypeOK
  <2>2. serial' \in [Groups \X Intervals -> Nat]
    BY <1>6, <2>1 DEF EndFinish, Endings, TypeOK
  <2> QED
    BY <1>6, <2>2 DEF EndFinish, TypeOK
<1> QED
  BY <1>1, <1>2, <1>3, <1>4, <1>5, <1>6 DEF DBThread

LEMMA TypesNext == TypeOK /\ [Next]_vars => TypeOK'
<1> SUFFICES ASSUME TypeOK, [Next]_vars PROVE TypeOK'
  OBVIOUS
<1>1. CASE Next
  BY <1>1, TypesOfOwners, TypesOfModules, TypesOfDBThread DEF Next
<1>2. CASE UNCHANGED vars
  BY <1>2 DEF vars, TypeOK
<1> QED
  BY <1>1, <1>2

\* Every variable keeps its type: the data and the records are numbers of points,
\* records are kept under keys, and the queues hold messages and their owners.
THEOREM TypeCorrect == Spec => []TypeOK
BY TypesInit, TypesNext, PTL DEF Spec

----------------------------------------------------------------------------
(* The records of an interval that is over.                                *)

\* What a step changes of the database has the current serial number.
LEMMA RecordsStep ==
    ASSUME TypeOK, [Next]_vars,
           NEW k \in DOMAIN db \cup DOMAIN db', k.serialno < serial[<<k.ag, k.data.interval>>]
    PROVE  k \in DOMAIN db /\ k \in DOMAIN db' /\ db'[k] = db[k]
<1> DEFINE Current(j) == j.serialno = serial[<<j.ag, j.data.interval>>]
           Kept == \A j : ~Current(j) =>
                      /\ j \in DOMAIN db' <=> j \in DOMAIN db
                      /\ j \in DOMAIN db => db'[j] = db[j]
<1>1. CASE UNCHANGED db
  BY <1>1
<1>2. Kept /\ DOMAIN db' \subseteq Keys => k \in DOMAIN db /\ k \in DOMAIN db' /\ db'[k] = db[k]
  <2> SUFFICES ASSUME Kept, DOMAIN db' \subseteq Keys
               PROVE  k \in DOMAIN db /\ k \in DOMAIN db' /\ db'[k] = db[k]
    OBVIOUS
  <2>1. k \in Keys
    BY DEF TypeOK
  <2>2. k.ag \in Groups /\ k.data \in PlayerData \cup ArenaData /\ k.serialno \in Nat
    BY <2>1 DEF Keys
  <2>3. k.data.interval \in Intervals
    BY <2>2, PersistAssumption DEF Descriptors
  <2>4. serial[<<k.ag, k.data.interval>>] \in Nat
    BY <2>2, <2>3 DEF TypeOK
  <2>5. ~Current(k)
    BY <2>2, <2>4
  <2> QED
    BY <2>5
<1>3. CASE DBCommand
  <2> DEFINE o == NextMessage.owner
             a == NextMessage.arena
  <2>1. /\ a \in Arenas \cup {None}
        /\ NextMessage.command \in {"getplayer", "getarena", "putplayer", "putarena", "putall"}
    BY <1>3, FirstMessage DEF DBCommand, Messages
  <2>2. CASE NextMessage.command \in {"getplayer", "getarena"}
    BY <1>1, <1>3, <2>2 DEF DBCommand
  <2>3. CASE NextMessage.command \in {"putplayer", "putarena"}
    <3>1. Put(o, a)
      BY <1>3, <2>3 DEF DBCommand
    <3> QED
      BY <2>1, <3>1, <1>2, PutFits
  <2>4. CASE NextMessage.command = "putall"
    <3>1. PutAll
      BY <1>3, <2>4 DEF DBCommand
    <3> QED
      BY <3>1, <1>2, PutAllFits
  <2> QED
    BY <2>1, <2>2, <2>3, <2>4
<1>4. CASE EndStore
  BY <1>4, <1>2, EndStoreFits
<1>5. CASE ~DBCommand /\ ~EndStore
  <2>1. UNCHANGED db
    BY <1>5 DEF Next, vars, Login, EnterArena, SaveArena, SaveGlobal, Moves, ArenaCreated,
       ArenaLoads, ArenaSaves, Synced, Score, SyncTimer, Ask, EndInterval, DBThread, EndStart,
       EndClear, EndArenas, EndFinish
  <2> QED
    BY <1>1, <2>1
<1> QED
  BY <1>3, <1>4, <1>5

\* Once EndInterval has counted an interval up, nothing changes, adds or removes a
\* record with its number: whoever still has data that was read for it is saved
\* under the new one.
THEOREM RecordsAreFinal == Spec => EndedIntervalsAreFinal
<1>1. TypeOK /\ [Next]_vars =>
        [\A k \in DOMAIN db \cup DOMAIN db' :
            k.serialno < serial[<<k.ag, k.data.interval>>] =>
                k \in DOMAIN db /\ k \in DOMAIN db' /\ db'[k] = db[k]]_vars
  BY RecordsStep
<1> QED
  BY <1>1, TypeCorrect, PTL DEF Spec, EndedIntervalsAreFinal

----------------------------------------------------------------------------
(* Who waits, waits for one message, and that is the one he asked for.     *)

\* Nobody has a message for o in any queue.
Idle(o) == Unanswered(o) /\ \A i \in DOMAIN dbq : Unowned(dbq[i]) \/ dbq[i].owner # o

LEMMA IdleUnlessWaiting ==
    ASSUME TypeOK, QueueInv, NEW o \in Owners,
           o \in Players => status[o] \notin Waits,
           o \in Arenas => astatus[o] \notin AWaits
    PROVE  Idle(o)
<1>1. Unanswered(o)
  BY DEF QueueInv, AnswersFit, Unanswered, Owners
<1>2. \A i \in DOMAIN dbq : Unowned(dbq[i]) \/ dbq[i].owner # o
  BY PersistAssumption DEF QueueInv, RequestsFit, PlayerAsks, ArenaAsks, Waits, AWaits, Owners
<1> QED
  BY <1>1, <1>2 DEF Idle

LEMMA AppendIs ==
    ASSUME NEW S, NEW q \in Seq(S), NEW m \in S
    PROVE  /\ DOMAIN Append(q, m) = DOMAIN q \cup {Len(q) + 1} /\ Len(q) + 1 \notin DOMAIN q
           /\ Append(q, m)[Len(q) + 1] = m
           /\ \A i \in DOMAIN q : Append(q, m)[i] = q[i]
OBVIOUS

\* Whoever has no message in any queue changes his status, and perhaps asks for one.
LEMMA IdleStep ==
    ASSUME TypeOK, TypeOK', QueueInv, NEW o \in Owners, Idle(o), mainq' = mainq,
           \A p \in Players \ {o} : status'[p] = status[p] /\ arena'[p] = arena[p],
           \A a \in Arenas \ {o} : astatus'[a] = astatus[a],
           o \in Players => (status'[o] \in InArena => arena'[o] # None),
           NEW m \in Messages,
           \/ dbq' = dbq
           \/ ~Unowned(m) /\ m.owner = o /\ (PlayerAsks(m)' \/ ArenaAsks(m)') /\ dbq' = Append(dbq, m)
    PROVE  QueueInv'
<1>1. dbq \in Seq(Messages) /\ mainq \in Seq(Owners)
  BY DEF TypeOK
<1>2. \/ dbq' = dbq
      \/ /\ ~Unowned(m) /\ m.owner = o /\ (PlayerAsks(m)' \/ ArenaAsks(m)')
         /\ DOMAIN dbq' = DOMAIN dbq \cup {Len(dbq) + 1} /\ Len(dbq) + 1 \notin DOMAIN dbq
         /\ dbq'[Len(dbq) + 1] = m
         /\ \A i \in DOMAIN dbq : dbq'[i] = dbq[i]
  <2>1. CASE dbq' = Append(dbq, m)
    BY <1>1, <2>1, AppendIs
  <2> QED
    BY <2>1
<1>3. \A i \in DOMAIN dbq : Unowned(dbq[i]) \/ dbq[i].owner # o
  BY DEF Idle
<1>4. \A i \in DOMAIN dbq :
         Unowned(dbq[i]) \/ PlayerAsks(dbq[i]) \/ ArenaAsks(dbq[i])
  BY DEF QueueInv, RequestsFit
<1>5. ASSUME NEW n \in Messages, n.owner # o, PlayerAsks(n) \/ ArenaAsks(n)
      PROVE  PlayerAsks(n)' \/ ArenaAsks(n)'
  <2>1. CASE PlayerAsks(n)
    <3>1. status'[n.owner] = status[n.owner] /\ arena'[n.owner] = arena[n.owner]
      BY <1>5, <2>1 DEF PlayerAsks
    <3> QED
      BY <2>1, <3>1 DEF PlayerAsks
  <2>2. CASE ArenaAsks(n)
    <3>1. astatus'[n.owner] = astatus[n.owner]
      BY <1>5, <2>2 DEF ArenaAsks
    <3> QED
      BY <2>2, <3>1 DEF ArenaAsks
  <2> QED
    BY <1>5, <2>1, <2>2
<1>6. \A i \in DOMAIN dbq : dbq[i] \in Messages
  BY <1>1
<1>7. RequestsFit'
  <2> SUFFICES ASSUME NEW i \in DOMAIN dbq', NEW n, n = dbq'[i]
               PROVE  Unowned(n) \/ PlayerAsks(n)' \/ ArenaAsks(n)'
    BY DEF RequestsFit, Unowned, PlayerAsks, ArenaAsks
  <2>1. CASE i \in DOMAIN dbq
    <3>1. n = dbq[i]
      BY <1>2, <2>1
    <3> QED
      BY <3>1, <2>1, <1>3, <1>4, <1>5, <1>6
  <2>2. CASE i \notin DOMAIN dbq
    BY <2>2, <1>2
  <2> QED
    BY <2>1, <2>2
<1>8. AnswersFit'
  <2>1. \A i \in DOMAIN mainq : mainq[i] \in Owners \ {o}
    BY <1>1 DEF Idle, Unanswered
  <2> QED
    BY <2>1 DEF QueueInv, AnswersFit
<1>9. WaitsOnce'
  <2>1. \A i, j \in DOMAIN dbq' :
            ~Unowned(dbq'[i]) /\ ~Unowned(dbq'[j]) /\ dbq'[i].owner = dbq'[j].owner => i = j
    BY <1>2, <1>3 DEF QueueInv, WaitsOnce
  <2>2. \A i \in DOMAIN dbq' : ~Unowned(dbq'[i]) => Unanswered(dbq'[i].owner)
    BY <1>2 DEF QueueInv, WaitsOnce, Idle
  <2> QED
    BY <2>1, <2>2 DEF QueueInv, WaitsOnce, Unanswered, Unowned
<1>10. HasArena'
  BY DEF QueueInv, HasArena
<1> QED
  BY <1>7, <1>8, <1>9, <1>10 DEF QueueInv

LEMMA QueueUnchanged ==
    ASSUME QueueInv, UNCHANGED <<status, arena, astatus, dbq, mainq>>
    PROVE  QueueInv'
BY DEF QueueInv, RequestsFit, AnswersFit, WaitsOnce, HasArena, PlayerAsks, ArenaAsks, Unowned,
       Unanswered

LEMMA QueuePlayers ==
    ASSUME TypeOK, TypeOK', QueueInv, NEW p \in Players,
           Login(p) \/ EnterArena(p) \/ SaveArena(p) \/ SaveGlobal(p) \/ Moves(p)
    PROVE  QueueInv'
<1>1. p \in Owners /\ p \notin Arenas
  BY PersistAssumption DEF Owners
<1>2. status[p] \notin Waits
  BY DEF Login, EnterArena, SaveArena, SaveGlobal, Moves, Goes, Waits
<1>3. Idle(p)
  BY <1>1, <1>2, IdleUnlessWaiting
<1>4. /\ \A q \in Players \ {p} : status'[q] = status[q] /\ arena'[q] = arena[q]
      /\ astatus' = astatus /\ mainq' = mainq
  BY DEF TypeOK, Login, EnterArena, SaveArena, SaveGlobal, Moves, Goes
<1>5. \A c \in {"getplayer", "putplayer"} : \A a \in Arenas \cup {None} :
         /\ Message(c, p, a) \in Messages /\ ~Unowned(Message(c, p, a))
         /\ Message(c, p, a).owner = p /\ Message(c, p, a).arena = a
         /\ Message(c, p, a).command = c
  BY <1>1 DEF Message, Messages, Unowned
<1>6. p \in DOMAIN status /\ p \in DOMAIN arena /\ arena[p] \in Arenas \cup {None}
  BY DEF TypeOK
<1>7. CASE Login(p)
  <2> DEFINE m == Message("getplayer", p, None)
  <2>1. m \in Messages /\ ~Unowned(m) /\ m.owner = p /\ dbq' = Append(dbq, m)
    BY <1>5, <1>7 DEF Login, AsksDB
  <2>2. status'[p] = "wait_global_sync1"
    BY <1>6, <1>7 DEF Login, Goes
  <2>3. m.command = "getplayer" /\ m.arena = None
    BY <1>5
  <2> HIDE DEF m
  <2>4. \E n \in Messages : n = m /\ PlayerAsks(n)'
    BY <2>1, <2>2, <2>3 DEF PlayerAsks
  <2> QED
    BY <1>1, <1>3, <1>4, <2>1, <2>2, <2>4, IdleStep DEF InArena
<1>8. CASE EnterArena(p)
  <2>1. PICK a \in Arenas : arena' = [arena EXCEPT ![p] = a] /\ AsksDB("getplayer", p, a)
    BY <1>8 DEF EnterArena
  <2> DEFINE m == Message("getplayer", p, a)
  <2>2. m \in Messages /\ ~Unowned(m) /\ m.owner = p /\ dbq' = Append(dbq, m)
    BY <1>5, <2>1 DEF AsksDB
  <2>3. status'[p] = "wait_arena_sync1" /\ arena'[p] = a /\ a # None
    BY <1>6, <1>8, <2>1, PersistAssumption DEF EnterArena, Goes, Groups
  <2>4. m.command = "getplayer" /\ m.arena = a
    BY <1>5
  <2> HIDE DEF m
  <2>5. \E n \in Messages : n = m /\ PlayerAsks(n)'
    BY <2>2, <2>3, <2>4 DEF PlayerAsks
  <2> QED
    BY <1>1, <1>3, <1>4, <2>2, <2>3, <2>5, IdleStep
<1>9. CASE SaveArena(p)
  <2> DEFINE m == Message("putplayer", p, arena[p])
  <2>1. m \in Messages /\ ~Unowned(m) /\ m.owner = p /\ dbq' = Append(dbq, m)
    BY <1>5, <1>6, <1>9 DEF SaveArena, AsksDB
  <2>2. status'[p] = "wait_arena_sync2" /\ arena'[p] = arena[p] /\ arena[p] # None
    BY <1>6, <1>9 DEF SaveArena, Goes, QueueInv, HasArena, InArena
  <2>3. m.command = "putplayer" /\ m.arena = arena[p]
    BY <1>5, <1>6
  <2>4. PICK n \in Messages : n = m
    BY <2>1
  <2> HIDE DEF m
  <2>5. PlayerAsks(n)'
    BY <2>1, <2>2, <2>3, <2>4 DEF PlayerAsks
  <2> QED
    BY <1>1, <1>3, <1>4, <2>1, <2>2, <2>4, <2>5, IdleStep
<1>10. CASE SaveGlobal(p)
  <2> DEFINE m == Message("putplayer", p, None)
  <2>1. m \in Messages /\ ~Unowned(m) /\ m.owner = p /\ dbq' = Append(dbq, m)
    BY <1>5, <1>10 DEF SaveGlobal, AsksDB
  <2>2. status'[p] = "wait_global_sync2"
    BY <1>6, <1>10 DEF SaveGlobal, Goes
  <2>3. m.command = "putplayer" /\ m.arena = None
    BY <1>5
  <2> HIDE DEF m
  <2>4. \E n \in Messages : n = m /\ PlayerAsks(n)'
    BY <2>1, <2>2, <2>3 DEF PlayerAsks
  <2> QED
    BY <1>1, <1>3, <1>4, <2>1, <2>2, <2>4, IdleStep DEF InArena
<1>11. CASE Moves(p)
  <2>1. dbq' = dbq /\ arena' = arena
    BY <1>11 DEF Moves
  <2>2. status'[p] \in InArena => status[p] \in InArena
    BY <1>6, <1>11 DEF Moves, Goes, InArena
  <2>3. status'[p] \in InArena => arena'[p] # None
    BY <2>1, <2>2 DEF QueueInv, HasArena
  <2>4. Message("getplayer", p, None) \in Messages
    BY <1>5
  <2> QED
    BY <1>1, <1>3, <1>4, <2>1, <2>3, <2>4, IdleStep
<1> QED
  BY <1>7, <1>8, <1>9, <1>10, <1>11

LEMMA QueueArenas ==
    ASSUME TypeOK, TypeOK', QueueInv, NEW a \in Arenas,
           ArenaCreated(a) \/ ArenaLoads(a) \/ ArenaSaves(a)
    PROVE  QueueInv'
<1>1. a \in Owners /\ a \notin Players
  BY PersistAssumption DEF Owners
<1>2. astatus[a] \notin AWaits
  BY DEF ArenaCreated, ArenaLoads, ArenaSaves, AGoes, AWaits
<1>3. Idle(a)
  BY <1>1, <1>2, IdleUnlessWaiting
<1>4. /\ \A b \in Arenas \ {a} : astatus'[b] = astatus[b]
      /\ status' = status /\ arena' = arena /\ mainq' = mainq
  BY DEF TypeOK, ArenaCreated, ArenaLoads, ArenaSaves, AGoes
<1>5. \A c \in {"getarena", "putarena"} :
         /\ Message(c, a, a) \in Messages /\ ~Unowned(Message(c, a, a))
         /\ Message(c, a, a).owner = a /\ Message(c, a, a).arena = a
         /\ Message(c, a, a).command = c
  BY <1>1 DEF Message, Messages, Unowned
<1>6. a \in DOMAIN astatus
  BY DEF TypeOK
<1>7. CASE ArenaCreated(a)
  <2>1. dbq' = dbq
    BY <1>7 DEF ArenaCreated
  <2> QED
    BY <1>1, <1>3, <1>4, <1>5, <2>1, IdleStep
<1>8. CASE ArenaLoads(a)
  <2> DEFINE m == Message("getarena", a, a)
  <2>1. m \in Messages /\ ~Unowned(m) /\ m.owner = a /\ dbq' = Append(dbq, m)
    BY <1>5, <1>8 DEF ArenaLoads, AsksDB
  <2>2. astatus'[a] = "wait_sync1"
    BY <1>6, <1>8 DEF ArenaLoads, AGoes
  <2>3. m.command = "getarena" /\ m.arena = a
    BY <1>5
  <2> HIDE DEF m
  <2>4. \E n \in Messages : n = m /\ ArenaAsks(n)'
    BY <2>1, <2>2, <2>3 DEF ArenaAsks
  <2> QED
    BY <1>1, <1>3, <1>4, <2>1, <2>4, IdleStep
<1>9. CASE ArenaSaves(a)
  <2> DEFINE m == Message("putarena", a, a)
  <2>1. m \in Messages /\ ~Unowned(m) /\ m.owner = a /\ dbq' = Append(dbq, m)
    BY <1>5, <1>9 DEF ArenaSaves, AsksDB
  <2>2. astatus'[a] = "wait_sync2"
    BY <1>6, <1>9 DEF ArenaSaves, AGoes
  <2>3. m.command = "putarena" /\ m.arena = a
    BY <1>5
  <2> HIDE DEF m
  <2>4. \E n \in Messages : n = m /\ ArenaAsks(n)'
    BY <2>1, <2>2, <2>3 DEF ArenaAsks
  <2> QED
    BY <1>1, <1>3, <1>4, <2>1, <2>4, IdleStep
<1> QED
  BY <1>7, <1>8, <1>9

LEMMA TailIs ==
    ASSUME NEW S, NEW q \in Seq(S), q # <<>>
    PROVE  /\ 1 \in DOMAIN q /\ Head(q) = q[1]
           /\ \A i \in DOMAIN Tail(q) : i + 1 \in DOMAIN q /\ i + 1 # 1 /\ Tail(q)[i] = q[i + 1]
           /\ \A i, j \in DOMAIN Tail(q) : i + 1 = j + 1 => i = j
           /\ \A i \in DOMAIN q : i # 1 => i - 1 \in DOMAIN Tail(q) /\ Tail(q)[i - 1] = q[i]
OBVIOUS

\* The owner of the first answer hears it, and nothing more waits for him.
LEMMA QueueSynced ==
    ASSUME TypeOK, TypeOK', QueueInv, Synced
    PROVE  QueueInv'
<1> DEFINE o == mainq[1]
<1>1. /\ mainq \in Seq(Owners) /\ mainq # <<>> /\ mainq' = Tail(mainq) /\ dbq' = dbq
      /\ Head(mainq) = o
  BY DEF Synced, TypeOK
<1>2. /\ 1 \in DOMAIN mainq
      /\ \A i \in DOMAIN mainq' : i + 1 \in DOMAIN mainq /\ i + 1 # 1 /\ mainq'[i] = mainq[i + 1]
      /\ \A i, j \in DOMAIN mainq' : i + 1 = j + 1 => i = j
  BY <1>1, TailIs
<1>3. o \in Owners
  BY <1>1, <1>2
<1>4. \A i \in DOMAIN mainq' : mainq'[i] # o
  BY <1>2 DEF QueueInv, WaitsOnce
<1>5. \A i \in DOMAIN dbq : ~Unowned(dbq[i]) => dbq[i].owner # o
  BY <1>2 DEF QueueInv, WaitsOnce, Unanswered
<1>6. /\ \A p \in Players \ {o} : status'[p] = status[p] /\ arena'[p] = arena[p]
      /\ \A a \in Arenas \ {o} : astatus'[a] = astatus[a]
      /\ o \in Players => (status'[o] \in InArena => arena'[o] # None)
  <2>1. CASE o \in Players
    <3>1. PlayerSynced(o)
      BY <1>1, <2>1 DEF Synced
    <3>2. \A p \in Players \ {o} : status'[p] = status[p] /\ arena'[p] = arena[p]
      BY <3>1 DEF TypeOK, PlayerSynced, Goes
    <3>3. status'[o] \in InArena => status[o] \in InArena /\ arena'[o] = arena[o]
      BY <3>1, <2>1 DEF TypeOK, PlayerSynced, Goes, InArena
    <3> QED
      BY <2>1, <3>1, <3>2, <3>3 DEF PlayerSynced, QueueInv, HasArena
  <2>2. CASE o \notin Players
    <3>1. ArenaSynced(o)
      BY <1>1, <2>2 DEF Synced
    <3> QED
      BY <2>2, <3>1 DEF TypeOK, ArenaSynced, AGoes
  <2> QED
    BY <2>1, <2>2
<1> HIDE DEF o
<1>7. RequestsFit'
  <2> SUFFICES ASSUME NEW i \in DOMAIN dbq, NEW n, n = dbq[i], ~Unowned(n)
               PROVE  PlayerAsks(n)' \/ ArenaAsks(n)'
    BY <1>1 DEF RequestsFit, Unowned, PlayerAsks, ArenaAsks
  <2>1. n.owner # o
    BY <1>5
  <2>2. PlayerAsks(n) \/ ArenaAsks(n)
    BY DEF QueueInv, RequestsFit
  <2> QED
    BY <2>1, <2>2, <1>6 DEF PlayerAsks, ArenaAsks
<1>8. AnswersFit'
  BY <1>2, <1>4, <1>6 DEF QueueInv, AnswersFit
<1>9. WaitsOnce'
  <2>1. \A i, j \in DOMAIN mainq' : mainq'[i] = mainq'[j] => i = j
    BY <1>2 DEF QueueInv, WaitsOnce
  <2>2. \A i \in DOMAIN dbq : ~Unowned(dbq[i]) =>
           \A j \in DOMAIN mainq' : mainq'[j] # dbq[i].owner
    BY <1>2 DEF QueueInv, WaitsOnce, Unanswered
  <2> QED
    BY <1>1, <2>1, <2>2 DEF QueueInv, WaitsOnce, Unanswered, Unowned
<1>10. HasArena'
  BY <1>6 DEF QueueInv, HasArena
<1> QED
  BY <1>7, <1>8, <1>9, <1>10 DEF QueueInv

\* The thread takes the first message; its owner, if it has one, gets an answer.
LEMMA QueueTaken ==
    ASSUME TypeOK, QueueInv, dbq # <<>>, dbq' = Tail(dbq), UNCHANGED <<status, arena, astatus>>,
           \/ Unowned(NextMessage) /\ mainq' = mainq
           \/ ~Unowned(NextMessage) /\ mainq' = Append(mainq, NextMessage.owner)
    PROVE  QueueInv'
<1> DEFINE m == dbq[1]
<1>1. dbq \in Seq(Messages) /\ mainq \in Seq(Owners)
  BY DEF TypeOK
<1>2. /\ 1 \in DOMAIN dbq /\ NextMessage = m
      /\ \A i \in DOMAIN dbq' : i + 1 \in DOMAIN dbq /\ i + 1 # 1 /\ dbq'[i] = dbq[i + 1]
      /\ \A i, j \in DOMAIN dbq' : i + 1 = j + 1 => i = j
  BY <1>1, TailIs DEF NextMessage
<1>3. \/ Unowned(m) /\ mainq' = mainq
      \/ /\ ~Unowned(m) /\ m.owner \in Owners
         /\ DOMAIN mainq' = DOMAIN mainq \cup {Len(mainq) + 1} /\ Len(mainq) + 1 \notin DOMAIN mainq
         /\ mainq'[Len(mainq) + 1] = m.owner
         /\ \A i \in DOMAIN mainq : mainq'[i] = mainq[i]
  <2>1. ~Unowned(m) => m.owner \in Owners
    BY <1>2, FirstMessage
  <2>2. CASE ~Unowned(NextMessage) /\ mainq' = Append(mainq, NextMessage.owner)
    BY <1>1, <1>2, <2>1, <2>2, AppendIs
  <2> QED
    BY <1>2, <2>2
<1>4. ~Unowned(m) => /\ PlayerAsks(m) \/ ArenaAsks(m)
                     /\ Unanswered(m.owner)
                     /\ \A i \in DOMAIN dbq : i # 1 /\ ~Unowned(dbq[i]) => dbq[i].owner # m.owner
  BY <1>2 DEF QueueInv, RequestsFit, WaitsOnce
<1> HIDE DEF m
<1>5. RequestsFit'
  <2> SUFFICES ASSUME NEW i \in DOMAIN dbq', NEW n, n = dbq'[i], ~Unowned(n)
               PROVE  PlayerAsks(n)' \/ ArenaAsks(n)'
    BY DEF RequestsFit, Unowned, PlayerAsks, ArenaAsks
  <2>1. PlayerAsks(n) \/ ArenaAsks(n)
    BY <1>2 DEF QueueInv, RequestsFit
  <2> QED
    BY <2>1 DEF PlayerAsks, ArenaAsks
<1>6. AnswersFit'
  <2>1. ~Unowned(m) => /\ m.owner \in Players => status[m.owner] \in Waits
                       /\ m.owner \in Arenas => astatus[m.owner] \in AWaits
    BY <1>4, PersistAssumption DEF PlayerAsks, ArenaAsks, Waits, AWaits
  <2> QED
    BY <2>1, <1>3 DEF QueueInv, AnswersFit
<1>7. WaitsOnce'
  <2>1. \A i, j \in DOMAIN dbq' :
            ~Unowned(dbq'[i]) /\ ~Unowned(dbq'[j]) /\ dbq'[i].owner = dbq'[j].owner => i = j
    BY <1>2 DEF QueueInv, WaitsOnce
  <2>2. \A i, j \in DOMAIN mainq' : mainq'[i] = mainq'[j] => i = j
    BY <1>3, <1>4 DEF QueueInv, WaitsOnce, Unanswered
  <2>3. \A i \in DOMAIN dbq' : ~Unowned(dbq'[i]) =>
            \A j \in DOMAIN mainq' : mainq'[j] # dbq'[i].owner
    BY <1>2, <1>3, <1>4 DEF QueueInv, WaitsOnce, Unanswered
  <2> QED
    BY <2>1, <2>2, <2>3 DEF WaitsOnce, Unanswered, Unowned
<1>8. HasArena'
  BY DEF QueueInv, HasArena
<1> QED
  BY <1>5, <1>6, <1>7, <1>8 DEF QueueInv

\* Messages that no player or arena waits for.
LEMMA QueueAsked ==
    ASSUME TypeOK, QueueInv, NEW m \in Messages, Unowned(m), Ask(m)
    PROVE  QueueInv'
<1>1. /\ DOMAIN dbq' = DOMAIN dbq \cup {Len(dbq) + 1}
      /\ dbq'[Len(dbq) + 1] = m
      /\ \A i \in DOMAIN dbq : dbq'[i] = dbq[i]
  BY AppendIs DEF Ask, TypeOK
<1>2. UNCHANGED <<status, arena, astatus, mainq>>
  BY DEF Ask
<1>3. RequestsFit'
  <2> SUFFICES ASSUME NEW i \in DOMAIN dbq', NEW n, n = dbq'[i], ~Unowned(n)
               PROVE  PlayerAsks(n)' \/ ArenaAsks(n)'
    BY DEF RequestsFit, Unowned, PlayerAsks, ArenaAsks
  <2>1. PlayerAsks(n) \/ ArenaAsks(n)
    BY <1>1 DEF QueueInv, RequestsFit
  <2> QED
    BY <1>2, <2>1 DEF PlayerAsks, ArenaAsks
<1>4. WaitsOnce'
  <2>1. \A i \in DOMAIN dbq' : ~Unowned(dbq'[i]) => i \in DOMAIN dbq /\ dbq'[i] = dbq[i]
    BY <1>1
  <2> QED
    BY <1>2, <2>1 DEF QueueInv, WaitsOnce, Unanswered, Unowned
<1>5. AnswersFit' /\ HasArena'
  BY <1>2 DEF QueueInv, AnswersFit, HasArena
<1> QED
  BY <1>3, <1>4, <1>5 DEF QueueInv

LEMMA QueueInit == Init => QueueInv
BY DEF Init, QueueInv, RequestsFit, AnswersFit, WaitsOnce, HasArena, Unanswered, InArena

LEMMA QueueNext == TypeOK /\ QueueInv /\ [Next]_vars => QueueInv'
<1> SUFFICES ASSUME TypeOK, QueueInv, [Next]_vars PROVE QueueInv'
  OBVIOUS
<1>1. TypeOK'
  BY TypesNext
<1>2. CASE UNCHANGED vars
  BY <1>2, QueueUnchanged DEF vars
<1>3. CASE \E p \in Players : Login(p) \/ EnterArena(p) \/ SaveArena(p) \/ SaveGlobal(p) \/ Moves(p)
  BY <1>1, <1>3, QueuePlayers
<1>4. CASE \E a \in Arenas : ArenaCreated(a) \/ ArenaLoads(a) \/ ArenaSaves(a)
  BY <1>1, <1>4, QueueArenas
<1>5. CASE Synced
  BY <1>1, <1>5, QueueSynced
<1>6. CASE \E x \in Accounts : Score(x)
  BY <1>6, QueueUnchanged DEF Score
<1>7. CASE SyncTimer
  <2>1. Message("putall", None, None) \in Messages /\ Unowned(Message("putall", None, None))
    BY DEF Message, Messages, Unowned
  <2> QED
    BY <1>7, <2>1, QueueAsked DEF SyncTimer
<1>8. CASE \E ag \in Groups, interval \in Intervals : EndInterval(ag, interval)
  <2>1. PICK ag \in Groups, interval \in Intervals : EndInterval(ag, interval)
    BY <1>8
  <2> DEFINE m == [command |-> "end", ag |-> ag, interval |-> interval]
  <2>2. m \in Messages /\ Unowned(m)
    BY <2>1 DEF EndInterval, Messages, Unowned
  <2> QED
    BY <2>1, <2>2, QueueAsked DEF EndInterval
<1>9. CASE DBCommand
  <2>1. /\ dbq # <<>> /\ dbq' = Tail(dbq) /\ UNCHANGED <<status, arena, astatus>>
        /\ mainq' = IF Unowned(NextMessage) THEN mainq ELSE Append(mainq, NextMessage.owner)
    BY <1>9 DEF DBCommand
  <2> QED
    BY <2>1, QueueTaken
<1>10. CASE EndStart
  <2>1. Unowned(NextMessage)
    BY <1>10 DEF EndStart, Unowned
  <2> QED
    BY <1>10, <2>1, QueueTaken DEF EndStart
<1>11. CASE EndStore \/ EndClear \/ EndArenas \/ EndFinish
  BY <1>11, QueueUnchanged DEF EndStore, EndClear, EndArenas, EndFinish
<1> QED
  BY <1>2, <1>3, <1>4, <1>5, <1>6, <1>7, <1>8, <1>9, <1>10, <1>11 DEF Next, DBThread

----------------------------------------------------------------------------
(* The status of an owner says for which keys data in memory has been read.*)

\* What is held, and by what it is judged, stays.
LEMMA StandsKept ==
    ASSUME TypeOK, StandsFit, NEW x \in Accounts, standsFor'[x] = standsFor[x],
           x[1] \in Players =>
               /\ HoldsGlobal(x[1])' <=> HoldsGlobal(x[1])
               /\ HoldsArena(x[1])' <=> HoldsArena(x[1])
               /\ HoldsArena(x[1]) => arena'[x[1]] = arena[x[1]],
           x[1] \in Arenas => (ArenaHolds(x[1])' <=> ArenaHolds(x[1]))
    PROVE  StandsFor(x)'
<1>1. StandsFor(x)
  BY DEF StandsFit
<1>2. /\ x[2].scope \in Scopes /\ x[1] \in Owners
      /\ x[1] \in Players <=> x[1] \notin Arenas
  BY AccountsAre
<1>3. Holds(x)' <=> Holds(x)
  BY <1>2 DEF Holds
<1>4. ASSUME Holds(x) PROVE ArenaOf(x)' = ArenaOf(x)
  BY <1>2, <1>4 DEF Holds, ArenaOf, Scopes
<1> QED
  BY <1>1, <1>3, <1>4 DEF StandsFor, Stands

LEMMA StandsUnchanged ==
    ASSUME StandsFit, UNCHANGED <<status, arena, astatus, mainq, standsFor>>
    PROVE  StandsFit'
BY DEF StandsFit, StandsFor, Stands, Holds, HoldsGlobal, HoldsArena, ArenaHolds, ArenaOf, Unanswered

LEMMA StandsPlayers ==
    ASSUME TypeOK, QueueInv, StandsFit, NEW p \in Players,
           Login(p) \/ EnterArena(p) \/ SaveArena(p) \/ SaveGlobal(p) \/ Moves(p)
    PROVE  StandsFit'
<1> SUFFICES ASSUME NEW x \in Accounts PROVE StandsFor(x)'
  BY DEF StandsFit
<1>1. standsFor' = standsFor /\ mainq' = mainq /\ astatus' = astatus
  BY DEF Login, EnterArena, SaveArena, SaveGlobal, Moves
<1>2. \A o : Unanswered(o)' <=> Unanswered(o)
  BY <1>1 DEF Unanswered
<1>3. p \in Owners /\ p \notin Arenas /\ status[p] \notin Waits
  BY PersistAssumption DEF Owners, Login, EnterArena, SaveArena, SaveGlobal, Moves, Goes, Waits
<1>4. Unanswered(p)
  BY <1>3, IdleUnlessWaiting DEF Idle
<1>5. \A q \in Players \ {p} : status'[q] = status[q] /\ arena'[q] = arena[q]
  BY DEF TypeOK, Login, EnterArena, SaveArena, SaveGlobal, Moves, Goes
<1>6. status[p] \in InArena => arena'[p] = arena[p]
  BY DEF Login, EnterArena, SaveArena, SaveGlobal, Moves, Goes, InArena
<1>7. /\ HoldsGlobal(p)' <=> HoldsGlobal(p)
      /\ HoldsArena(p)' <=> HoldsArena(p)
      /\ HoldsArena(p) => arena'[p] = arena[p]
  <2>1. p \in DOMAIN status
    BY DEF TypeOK
  <2>2. CASE Login(p) \/ SaveGlobal(p) \/ EnterArena(p)
    BY <2>1, <2>2, <1>2, <1>4 DEF Login, SaveGlobal, EnterArena, Goes, HoldsGlobal, HoldsArena, InArena
  <2>3. CASE SaveArena(p)
    BY <2>1, <2>3, <1>2, <1>4, <1>6 DEF SaveArena, Goes, HoldsGlobal, HoldsArena, InArena
  <2>4. CASE Moves(p)
    BY <2>1, <2>4, <1>2, <1>4 DEF Moves, Goes, HoldsGlobal, HoldsArena, InArena
  <2> QED
    BY <2>2, <2>3, <2>4
<1>8. ASSUME NEW q \in Players \ {p}
      PROVE  /\ HoldsGlobal(q)' <=> HoldsGlobal(q)
             /\ HoldsArena(q)' <=> HoldsArena(q)
             /\ arena'[q] = arena[q]
  BY <1>2, <1>5 DEF HoldsGlobal, HoldsArena
<1>9. x[1] \in Arenas => (ArenaHolds(x[1])' <=> ArenaHolds(x[1]))
  BY <1>1, <1>2 DEF ArenaHolds
<1>10. x[1] \in Players =>
           /\ HoldsGlobal(x[1])' <=> HoldsGlobal(x[1])
           /\ HoldsArena(x[1])' <=> HoldsArena(x[1])
           /\ HoldsArena(x[1]) => arena'[x[1]] = arena[x[1]]
  BY <1>7, <1>8
<1> QED
  BY <1>1, <1>9, <1>10, StandsKept

LEMMA StandsArenas ==
    ASSUME TypeOK, QueueInv, StandsFit, NEW a \in Arenas,
           ArenaCreated(a) \/ ArenaLoads(a) \/ ArenaSaves(a)
    PROVE  StandsFit'
<1> SUFFICES ASSUME NEW x \in Accounts PROVE StandsFor(x)'
  BY DEF StandsFit
<1>1. standsFor' = standsFor /\ mainq' = mainq /\ status' = status /\ arena' = arena
  BY DEF ArenaCreated, ArenaLoads, ArenaSaves
<1>2. \A o : Unanswered(o)' <=> Unanswered(o)
  BY <1>1 DEF Unanswered
<1>3. a \in Owners /\ a \notin Players /\ astatus[a] \notin AWaits
  BY PersistAssumption DEF Owners, ArenaCreated, ArenaLoads, ArenaSaves, AGoes, AWaits
<1>4. Unanswered(a)
  BY <1>3, IdleUnlessWaiting DEF Idle
<1>5. \A b \in Arenas \ {a} : astatus'[b] = astatus[b]
  BY DEF TypeOK, ArenaCreated, ArenaLoads, ArenaSaves, AGoes
<1>6. ArenaHolds(a)' <=> ArenaHolds(a)
  BY <1>2, <1>4 DEF TypeOK, ArenaCreated, ArenaLoads, ArenaSaves, AGoes, ArenaHolds
<1>7. ASSUME NEW b \in Arenas \ {a} PROVE ArenaHolds(b)' <=> ArenaHolds(b)
  BY <1>2, <1>5 DEF ArenaHolds
<1>8. x[1] \in Arenas => (ArenaHolds(x[1])' <=> ArenaHolds(x[1]))
  BY <1>6, <1>7
<1>9. x[1] \in Players =>
          /\ HoldsGlobal(x[1])' <=> HoldsGlobal(x[1])
          /\ HoldsArena(x[1])' <=> HoldsArena(x[1])
          /\ HoldsArena(x[1]) => arena'[x[1]] = arena[x[1]]
  BY <1>1, <1>2 DEF HoldsGlobal, HoldsArena
<1> QED
  BY <1>1, <1>8, <1>9, StandsKept

LEMMA StandsSynced ==
    ASSUME TypeOK, QueueInv, StandsFit, Synced
    PROVE  StandsFit'
<1> SUFFICES ASSUME NEW x \in Accounts, NEW o, o = mainq[1]
             PROVE  StandsFor(x)'
  BY DEF StandsFit
<1>1. /\ mainq \in Seq(Owners) /\ mainq # <<>> /\ mainq' = Tail(mainq) /\ standsFor' = standsFor
      /\ Head(mainq) = o
  BY DEF Synced, TypeOK
<1>2. /\ 1 \in DOMAIN mainq
      /\ \A i \in DOMAIN mainq' : i + 1 \in DOMAIN mainq /\ mainq'[i] = mainq[i + 1]
      /\ \A i \in DOMAIN mainq : i # 1 => i - 1 \in DOMAIN mainq' /\ mainq'[i - 1] = mainq[i]
  BY <1>1, TailIs
<1>3. \A q : q # o => (Unanswered(q)' <=> Unanswered(q))
  BY <1>2 DEF Unanswered
<1>4. /\ o \in Owners /\ ~Unanswered(o)
      /\ o \in Players => status[o] \in Waits
      /\ o \in Arenas => astatus[o] \in AWaits
  BY <1>1, <1>2 DEF Unanswered, QueueInv, AnswersFit
<1>5. CASE o \in Players
  <2>1. PlayerSynced(o)
    BY <1>1, <1>5 DEF Synced
  <2>2. /\ astatus' = astatus /\ o \notin Arenas
        /\ \A q \in Players \ {o} : status'[q] = status[q] /\ arena'[q] = arena[q]
    BY <1>5, <2>1, PersistAssumption DEF TypeOK, PlayerSynced, Goes
  <2>3. /\ HoldsGlobal(o)' <=> HoldsGlobal(o)
        /\ HoldsArena(o)' <=> HoldsArena(o)
        /\ HoldsArena(o) => arena'[o] = arena[o]
    BY <1>4, <1>5, <2>1 DEF TypeOK, PlayerSynced, Goes, HoldsGlobal, HoldsArena, InArena
  <2>4. ASSUME NEW q \in Players \ {o}
        PROVE  /\ HoldsGlobal(q)' <=> HoldsGlobal(q)
               /\ HoldsArena(q)' <=> HoldsArena(q)
               /\ arena'[q] = arena[q]
    BY <1>3, <2>2 DEF HoldsGlobal, HoldsArena
  <2>5. x[1] \in Players =>
            /\ HoldsGlobal(x[1])' <=> HoldsGlobal(x[1])
            /\ HoldsArena(x[1])' <=> HoldsArena(x[1])
            /\ HoldsArena(x[1]) => arena'[x[1]] = arena[x[1]]
    BY <2>3, <2>4
  <2>6. x[1] \in Arenas => (ArenaHolds(x[1])' <=> ArenaHolds(x[1]))
    BY <1>3, <2>2 DEF ArenaHolds
  <2> QED
    BY <1>1, <2>5, <2>6, StandsKept
<1>6. CASE o \notin Players
  <2>1. ArenaSynced(o) /\ o \in Arenas
    BY <1>1, <1>4, <1>6 DEF Synced, Owners
  <2>2. /\ status' = status /\ arena' = arena
        /\ \A b \in Arenas \ {o} : astatus'[b] = astatus[b]
    BY <2>1 DEF TypeOK, ArenaSynced, AGoes
  <2>3. ArenaHolds(o)' <=> ArenaHolds(o)
    BY <1>4, <2>1 DEF TypeOK, ArenaSynced, AGoes, ArenaHolds
  <2>4. ASSUME NEW b \in Arenas \ {o} PROVE ArenaHolds(b)' <=> ArenaHolds(b)
    BY <1>3, <2>2 DEF ArenaHolds
  <2>5. x[1] \in Arenas => (ArenaHolds(x[1])' <=> ArenaHolds(x[1]))
    BY <2>3, <2>4
  <2>6. x[1] \in Players =>
            /\ HoldsGlobal(x[1])' <=> HoldsGlobal(x[1])
            /\ HoldsArena(x[1])' <=> HoldsArena(x[1])
            /\ HoldsArena(x[1]) => arena'[x[1]] = arena[x[1]]
    BY <1>3, <1>6, <2>2 DEF HoldsGlobal, HoldsArena
  <2> QED
    BY <1>1, <2>5, <2>6, StandsKept
<1> QED
  BY <1>5, <1>6

\* Answers come to the queue of the main loop one at a time.
LEMMA AnswersAppended ==
    ASSUME TypeOK, NEW o \in Owners, mainq' = Append(mainq, o)
    PROVE  /\ \A q : q # o => (Unanswered(q)' <=> Unanswered(q))
           /\ ~Unanswered(o)'
<1>1. /\ DOMAIN mainq' = DOMAIN mainq \cup {Len(mainq) + 1}
      /\ mainq'[Len(mainq) + 1] = o
      /\ \A i \in DOMAIN mainq : mainq'[i] = mainq[i]
  BY AppendIs DEF TypeOK
<1> QED
  BY <1>1 DEF Unanswered

\* What an account's owner holds, by what his status waits for.
LEMMA AsksOf ==
    ASSUME TypeOK, QueueInv, NEW m \in Messages, PlayerAsks(m) \/ ArenaAsks(m),
           NEW x \in Accounts, x[1] = m.owner
    PROVE  /\ InScope(x[2], m.arena) =>
                 /\ ArenaOf(x) = m.arena
                 /\ Unanswered(x[1]) =>
                       (Holds(x) <=> m.command \in {"putplayer", "putarena"})
                 /\ ~Unanswered(x[1]) =>
                       (Holds(x) <=> m.command \in {"getplayer", "getarena"})
           /\ ~InScope(x[2], m.arena) =>
                 /\ x[1] \in Players /\ x[1] \notin Arenas
                 /\ x[2].scope = "global" => status[x[1]] \in InArena
                 /\ x[2].scope = "allarenas" =>
                       status[x[1]] \in {"wait_global_sync1", "wait_global_sync2"}
<1>1. /\ x[2].scope \in Scopes /\ x[1] \in Owners
      /\ x[1] \in Players <=> x[1] \notin Arenas
      /\ x[1] \in Arenas => x[2].scope = "allarenas"
      /\ x[1] \in Arenas => x[1] # None
  BY AccountsAre, PersistAssumption DEF Groups
<1>2. CASE PlayerAsks(m)
  <2>1. x[1] \in Players /\ x[1] \notin Arenas
    BY <1>1, <1>2 DEF PlayerAsks
  <2>2. status[x[1]] \in {"wait_arena_sync1", "wait_arena_sync2"} => arena[x[1]] # None
    BY <2>1 DEF QueueInv, HasArena, InArena
  <2>3. CASE m.arena = None
    BY <1>1, <1>2, <2>1, <2>2, <2>3
    DEF PlayerAsks, InScope, ArenaOf, Holds, HoldsGlobal, HoldsArena, InArena, Scopes
  <2>4. CASE m.arena # None
    BY <1>1, <1>2, <2>1, <2>2, <2>4
    DEF PlayerAsks, InScope, ArenaOf, Holds, HoldsGlobal, HoldsArena, InArena, Scopes
  <2> QED
    BY <2>3, <2>4
<1>3. CASE ArenaAsks(m)
  BY <1>1, <1>3 DEF ArenaAsks, InScope, ArenaOf, Holds, ArenaHolds
<1> QED
  BY <1>2, <1>3

LEMMA StandsDBCommand ==
    ASSUME TypeOK, QueueInv, StandsFit, DBCommand
    PROVE  StandsFit'
<1>1. /\ dbq # <<>> /\ UNCHANGED <<status, arena, astatus, serial>>
      /\ mainq' = IF Unowned(NextMessage) THEN mainq ELSE Append(mainq, NextMessage.owner)
  BY DEF DBCommand
<1>2. NextMessage \in Messages /\ NextMessage = dbq[1] /\ 1 \in DOMAIN dbq
      /\ NextMessage.command # "end"
  BY <1>1, FirstMessage DEF DBCommand
<1>3. CASE NextMessage.command = "putall"
  <2>1. standsFor' = standsFor /\ mainq' = mainq
    BY <1>1, <1>3 DEF DBCommand, Unowned
  <2> QED
    BY <1>1, <2>1, StandsUnchanged
<1>4. CASE NextMessage.command # "putall"
  <2> SUFFICES ASSUME NEW x \in Accounts, NEW m, m = NextMessage,
                      NEW o, o = m.owner, NEW a, a = m.arena
               PROVE  StandsFor(x)'
    BY DEF StandsFit
  <2>1. /\ ~Unowned(m) /\ mainq' = Append(mainq, o)
        /\ o \in Owners /\ a \in Arenas \cup {None}
        /\ PlayerAsks(m) \/ ArenaAsks(m)
        /\ Unanswered(o)
    BY <1>1, <1>2, <1>4, FirstMessage DEF Unowned, QueueInv, RequestsFit, WaitsOnce
  <2>2. \A q : q # o => (Unanswered(q)' <=> Unanswered(q))
    BY <2>1, AnswersAppended
  <2>3. ~Unanswered(o)'
    BY <2>1, AnswersAppended
  <2>4. /\ x[1] \in Owners /\ (x[1] \in Players <=> x[1] \notin Arenas) /\ x[2].scope \in Scopes
        /\ x = <<x[1], x[2]>>
    BY AccountsAre
  <2>5. CASE x[1] # o
    <3>1. standsFor'[x] = standsFor[x]
      BY <1>2, <1>4, <2>5 DEF DBCommand, Get, Put, TypeOK, Messages
    <3>2. x[1] \in Players =>
              /\ HoldsGlobal(x[1])' <=> HoldsGlobal(x[1])
              /\ HoldsArena(x[1])' <=> HoldsArena(x[1])
              /\ HoldsArena(x[1]) => arena'[x[1]] = arena[x[1]]
      BY <1>1, <2>2, <2>5 DEF HoldsGlobal, HoldsArena
    <3>3. x[1] \in Arenas => (ArenaHolds(x[1])' <=> ArenaHolds(x[1]))
      BY <1>1, <2>2, <2>5 DEF ArenaHolds
    <3> QED
      BY <3>1, <3>2, <3>3, StandsKept
  <2>6. CASE x[1] = o /\ ~InScope(x[2], a)
    <3>1. standsFor'[x] = standsFor[x]
      BY <1>2, <1>4, <2>6 DEF DBCommand, Get, Put, TypeOK, Messages
    <3>2. /\ o \in Players /\ o \notin Arenas
          /\ x[2].scope = "global" => status[o] \in InArena
          /\ x[2].scope = "allarenas" => status[o] \in {"wait_global_sync1", "wait_global_sync2"}
      BY <1>2, <2>1, <2>6, AsksOf
    <3>3. Holds(x) <=> Holds(x)'
      BY <1>1, <2>6, <3>2 DEF Holds, HoldsGlobal, HoldsArena, InArena
    <3>4. StandsFor(x) /\ ArenaOf(x)' = ArenaOf(x)
      BY <1>1 DEF StandsFit, ArenaOf
    <3> QED
      BY <3>1, <3>3, <3>4 DEF StandsFor, Stands
  <2>7. CASE x[1] = o /\ InScope(x[2], a) /\ m.command \in {"putplayer", "putarena"}
    <3>1. standsFor'[x] = NoKey
      BY <2>7 DEF DBCommand, Put
    <3>2. ~Holds(x)'
      <4>1. Holds(x)
        BY <1>2, <2>1, <2>7, AsksOf
      <4>2. x[1] \in Players => status[o] \in {"wait_global_sync2", "wait_arena_sync2"}
        BY <2>1, <2>7, <2>4 DEF PlayerAsks, ArenaAsks
      <4>3. x[1] \in Arenas => astatus[o] = "wait_sync2"
        BY <2>1, <2>7, <2>4 DEF PlayerAsks, ArenaAsks
      <4>4. status[o] = "wait_arena_sync2" /\ x[1] \in Players => x[2].scope # "global"
        <5>1. o \in Players => (status[o] \in InArena => arena[o] # None)
          BY DEF QueueInv, HasArena
        <5> QED
          BY <2>1, <2>4, <2>7, <5>1 DEF PlayerAsks, ArenaAsks, InScope, InArena
      <4> QED
        BY <1>1, <2>3, <2>7, <2>4, <4>1, <4>2, <4>3, <4>4
        DEF Holds, HoldsGlobal, HoldsArena, ArenaHolds, InArena
    <3> QED
      BY <3>1, <3>2 DEF StandsFor
  <2>8. CASE x[1] = o /\ InScope(x[2], a) /\ m.command \in {"getplayer", "getarena"}
    <3>1. standsFor'[x] = CurrentKey(o, x[2], a)
      BY <2>8 DEF DBCommand, Get
    <3>2. /\ standsFor'[x].data = x[2] /\ standsFor'[x].ag = ArenaGroup(a, x[2].interval)
          /\ standsFor'[x].who = (IF o \in Players THEN o ELSE None)
          /\ standsFor'[x] # NoKey
      <4>1. CurrentKey(x[1], x[2], a) # NoKey
        BY <2>1, CurrentKeyIs
      <4> QED
        BY <2>8, <3>1, <4>1 DEF CurrentKey, Key
    <3>3. ArenaOf(x)' = a
      <4>1. ArenaOf(x) = a
        BY <1>2, <2>1, <2>8, AsksOf
      <4> QED
        BY <1>1, <4>1 DEF ArenaOf
    <3>4. Holds(x)'
      <4>1. o \in Players => status[o] \in {"wait_global_sync1", "wait_arena_sync1"}
        BY <2>1, <2>8, <2>4 DEF PlayerAsks, ArenaAsks
      <4>2. o \in Arenas => astatus[o] = "wait_sync1"
        BY <2>1, <2>8, <2>4 DEF PlayerAsks, ArenaAsks
      <4>3. o \in Players /\ x[2].scope = "allarenas" => status[o] = "wait_arena_sync1"
        BY <2>1, <2>4, <2>8 DEF PlayerAsks, ArenaAsks, InScope
      <4> QED
        BY <1>1, <2>3, <2>4, <2>8, <4>1, <4>2, <4>3
        DEF Holds, HoldsGlobal, HoldsArena, ArenaHolds, InArena, Scopes, Owners
    <3> QED
      BY <2>8, <3>2, <3>3, <3>4 DEF StandsFor, Stands
  <2>9. m.command \in {"getplayer", "getarena", "putplayer", "putarena"}
    BY <1>2, <1>4 DEF Messages
  <2> QED
    BY <2>5, <2>6, <2>7, <2>8, <2>9
<1> QED
  BY <1>3, <1>4

LEMMA StandsEndClear ==
    ASSUME TypeOK, StandsFit, EndClear
    PROVE  StandsFit'
<1> SUFFICES ASSUME NEW x \in Accounts PROVE StandsFor(x)'
  BY DEF StandsFit
<1>1. UNCHANGED <<status, arena, astatus, mainq>> /\ StandsFor(x)
  BY DEF EndClear, StandsFit
<1>2. ending \in Endings
  BY DEF EndClear, TypeOK
<1>3. PICK y \in ending.stored : standsFor' = [standsFor EXCEPT ![y] =
              IF @ = NoKey THEN NoKey ELSE [@ EXCEPT !.serialno = ending.serialno + 1]]
  BY DEF EndClear
<1>4. standsFor[x] \in Keys \cup {NoKey} /\ NoKey \notin Keys /\ ending.serialno + 1 \in Nat
  BY <1>2, PersistAssumption DEF TypeOK, NoKey, Key, Keys, Endings
<1>5. \/ standsFor'[x] = standsFor[x]
      \/ standsFor[x] # NoKey /\ standsFor'[x] = [standsFor[x] EXCEPT !.serialno = ending.serialno + 1]
  BY <1>3 DEF TypeOK
<1>6. /\ standsFor'[x] = NoKey <=> standsFor[x] = NoKey
      /\ standsFor[x] # NoKey =>
             /\ standsFor'[x].data = standsFor[x].data /\ standsFor'[x].ag = standsFor[x].ag
             /\ standsFor'[x].who = standsFor[x].who
  BY <1>4, <1>5 DEF Keys
<1> QED
  BY <1>1, <1>6 DEF StandsFor, Stands, Holds, HoldsGlobal, HoldsArena, ArenaHolds, ArenaOf, Unanswered

LEMMA StandsInit == Init => StandsFit
<1> SUFFICES ASSUME Init, NEW x \in Accounts PROVE StandsFor(x)
  BY DEF StandsFit
<1>1. x[1] \in Owners
  BY AccountsAre
<1> QED
  BY <1>1 DEF Init, StandsFor, Holds, HoldsGlobal, HoldsArena, ArenaHolds, InArena, Owners

LEMMA StandsNext == TypeOK /\ QueueInv /\ StandsFit /\ [Next]_vars => StandsFit'
<1> SUFFICES ASSUME TypeOK, QueueInv, StandsFit, [Next]_vars PROVE StandsFit'
  OBVIOUS
<1>1. CASE UNCHANGED <<status, arena, astatus, mainq, standsFor>>
  BY <1>1, StandsUnchanged
<1>2. CASE UNCHANGED vars
  BY <1>1, <1>2 DEF vars
<1>3. CASE \E p \in Players : Login(p) \/ EnterArena(p) \/ SaveArena(p) \/ SaveGlobal(p) \/ Moves(p)
  BY <1>3, StandsPlayers
<1>4. CASE \E a \in Arenas : ArenaCreated(a) \/ ArenaLoads(a) \/ ArenaSaves(a)
  BY <1>4, StandsArenas
<1>5. CASE Synced
  BY <1>5, StandsSynced
<1>6. CASE \/ \E x \in Accounts : Score(x)
           \/ SyncTimer
           \/ \E ag \in Groups, interval \in Intervals : EndInterval(ag, interval)
  BY <1>1, <1>6 DEF Score, SyncTimer, EndInterval, Ask
<1>7. CASE DBCommand
  BY <1>7, StandsDBCommand
<1>8. CASE EndClear
  BY <1>8, StandsEndClear
<1>9. CASE EndStart \/ EndStore \/ EndArenas \/ EndFinish
  BY <1>1, <1>9 DEF EndStart, EndStore, EndArenas, EndFinish
<1> QED
  BY <1>2, <1>3, <1>4, <1>5, <1>6, <1>7, <1>8, <1>9 DEF Next, DBThread

----------------------------------------------------------------------------
(* The end of an interval meets all data that belongs to it.               *)

LEMMA KeysAre ==
    ASSUME TypeOK, NEW x \in Accounts, standsFor[x] # NoKey
    PROVE  /\ standsFor[x] \in Keys
           /\ standsFor[x].serialno \in Nat
           /\ <<standsFor[x].ag, standsFor[x].data.interval>> \in Groups \X Intervals
           /\ serial[<<standsFor[x].ag, standsFor[x].data.interval>>] \in Nat
<1>1. standsFor[x] \in Keys
  BY DEF TypeOK
<1>2. /\ standsFor[x].serialno \in Nat /\ standsFor[x].ag \in Groups
      /\ standsFor[x].data \in Descriptors
  BY <1>1, PersistAssumption DEF Keys
<1>3. <<standsFor[x].ag, standsFor[x].data.interval>> \in Groups \X Intervals
  BY <1>2 DEF Descriptors
<1> QED
  BY <1>1, <1>2, <1>3 DEF TypeOK

\* Steps that neither read nor clear data, nor end an interval.
LEMMA CurrentUnchanged ==
    ASSUME EndingFits, DataIsCurrent, UNCHANGED <<serial, ending, standsFor>>,
           spoiled \subseteq spoiled'
    PROVE  EndingFits' /\ DataIsCurrent'
BY DEF EndingFits, DataIsCurrent, Met, Ends

\* do_end_interval takes in everybody who holds data of the interval, but for those
\* who are just about to hear that they have it.
LEMMA PlayersMet ==
    ASSUME TypeOK, QueueInv, StandsFit, NEW m, NEW x \in Accounts, x[1] \in Players,
           standsFor[x] # NoKey,
           standsFor[x].ag = m.ag, x[2].interval = m.interval, x \notin Overlooked(m)
    PROVE  x \in EndedPlayers(m)
<1>1. Stands(x) /\ Holds(x)
  BY DEF StandsFit, StandsFor
<1>2. /\ x[2].scope \in Scopes /\ status[x[1]] \in Statuses /\ arena[x[1]] \in Arenas \cup {None}
      /\ x[1] \notin Arenas
  BY AccountsAre, StatusesAre DEF TypeOK
<1>3. CASE x[2].scope = "global"
  <2>1. m.ag = Global /\ HoldsGlobal(x[1]) /\ Ends(x, m)
    BY <1>1, <1>2, <1>3 DEF Stands, Holds, ArenaOf, ArenaGroup, Ends
  <2>2. status[x[1]] # "wait_global_sync1"
    BY <2>1 DEF Overlooked
  <2>3. InRange(x[1], Global)
    BY <1>2, <2>1, <2>2, InRangeAre DEF HoldsGlobal, InArena
  <2> QED
    BY <2>1, <2>3 DEF EndedPlayers
<1>4. CASE x[2].scope = "allarenas"
  <2>1. m.ag = ArenaGroup(arena[x[1]], m.interval) /\ HoldsArena(x[1])
    BY <1>1, <1>2, <1>4 DEF Stands, Holds, ArenaOf
  <2>2. arena[x[1]] # None /\ m.ag # Global
    <3>1. arena[x[1]] # None
      BY <2>1 DEF HoldsArena, QueueInv, HasArena
    <3> QED
      BY <1>2, <2>1, <3>1, GroupsAre
  <2>3. Ends(x, m)
    BY <1>4, <2>2 DEF Ends
  <2>4. status[x[1]] # "wait_arena_sync1"
    BY <2>3 DEF Overlooked
  <2>5. InRange(x[1], m.ag)
    BY <1>2, <2>1, <2>2, <2>4, InRangeAre DEF HoldsArena
  <2> QED
    BY <2>1, <2>2, <2>3, <2>5 DEF EndedPlayers
<1> QED
  BY <1>2, <1>3, <1>4 DEF Scopes

LEMMA ArenasMet ==
    ASSUME TypeOK, StandsFit, NEW m, NEW x \in Accounts, x[1] \in Arenas, standsFor[x] # NoKey,
           standsFor[x].ag = m.ag, x[2].interval = m.interval
    PROVE  x \in EndedArenas(m)
<1>1. Stands(x) /\ Holds(x)
  BY DEF StandsFit, StandsFor
<1>2. x[2].scope = "allarenas" /\ x[1] \notin Players
  BY AccountsAre
<1>3. m.ag = ArenaGroup(x[1], m.interval) /\ astatus[x[1]] # "absent"
  BY <1>1, <1>2 DEF Stands, Holds, ArenaOf, ArenaHolds
<1>4. m.ag # Global
  BY <1>3, GroupsAre, PersistAssumption DEF Groups
<1> QED
  BY <1>2, <1>3, <1>4 DEF EndedArenas, Ends

\* And it takes in nobody whose data belongs to another interval.
LEMMA EndedFit ==
    ASSUME TypeOK, StandsFit, NEW m, NEW x \in EndedPlayers(m) \cup EndedArenas(m),
           standsFor[x] # NoKey
    PROVE  standsFor[x].ag = m.ag
<1>1. x \in Accounts /\ Stands(x) /\ Ends(x, m)
  BY DEF StandsFit, StandsFor, EndedPlayers, EndedArenas
<1>2. /\ x[2].scope \in Scopes /\ (x[1] \in Players <=> x[1] \notin Arenas)
      /\ standsFor[x].ag = ArenaGroup(ArenaOf(x), m.interval)
  BY <1>1, AccountsAre DEF Stands, Ends
<1>3. CASE x \in EndedPlayers(m)
  <2>1. x[1] \in Players /\ (m.ag # Global => ArenaGroup(arena[x[1]], m.interval) = m.ag)
    BY <1>3 DEF EndedPlayers
  <2> QED
    BY <1>1, <1>2, <2>1 DEF ArenaOf, ArenaGroup, Ends, Scopes
<1>4. CASE x \in EndedArenas(m)
  BY <1>1, <1>2, <1>4 DEF EndedArenas, ArenaOf
<1> QED
  BY <1>3, <1>4

LEMMA CurrentDBCommand ==
    ASSUME TypeOK, EndingFits, DataIsCurrent, DBCommand
    PROVE  EndingFits' /\ DataIsCurrent'
<1>1. ending' = ending /\ ending = None /\ serial' = serial /\ spoiled' = spoiled
  BY DEF DBCommand
<1>2. dbq # <<>> /\ NextMessage.command # "end" /\ NextMessage \in Messages
  BY FirstMessage DEF DBCommand
<1>3. DataIsCurrent'
  <2> SUFFICES ASSUME NEW x \in Accounts \ spoiled, standsFor'[x] # NoKey
               PROVE  standsFor'[x].serialno >=
                         serial[<<standsFor'[x].ag, standsFor'[x].data.interval>>]
    BY <1>1 DEF DataIsCurrent
  <2>1. CASE standsFor'[x] = standsFor[x]
    BY <2>1 DEF DataIsCurrent
  <2>2. CASE standsFor'[x] # standsFor[x]
    <3> DEFINE o == NextMessage.owner
               a == NextMessage.arena
    <3>1. a \in Arenas \cup {None}
      BY <1>2, FirstMessage
    <3>2. x[1] = o /\ standsFor'[x] = CurrentKey(o, x[2], a)
      BY <1>2, <2>2 DEF DBCommand, Get, Put, TypeOK, Messages
    <3>3. /\ standsFor'[x] \in Keys
          /\ standsFor'[x].serialno = serial[<<standsFor'[x].ag, standsFor'[x].data.interval>>]
      BY <3>1, <3>2, CurrentKeyIs
    <3>4. standsFor'[x].serialno \in Nat
      BY <3>3 DEF Keys
    <3> QED
      BY <3>3, <3>4
  <2> QED
    BY <2>1, <2>2
<1> QED
  BY <1>1, <1>3 DEF EndingFits

LEMMA CurrentEndStart ==
    ASSUME TypeOK, QueueInv, StandsFit, DataIsCurrent, EndStart
    PROVE  EndingFits' /\ DataIsCurrent'
<1> DEFINE m == NextMessage
<1>1. /\ ending' = [ag |-> m.ag, interval |-> m.interval,
                    serialno |-> serial[<<m.ag, m.interval>>],
                    phase |-> "players", todo |-> EndedPlayers(m), stored |-> {}]
      /\ spoiled' = spoiled \cup Overlooked(m) /\ serial' = serial /\ standsFor' = standsFor
  BY DEF EndStart
<1> HIDE DEF m
<1>2. DataIsCurrent'
  BY <1>1 DEF DataIsCurrent
<1>3. ASSUME NEW x \in EndedPlayers(m)
      PROVE  /\ Ends(x, ending)' /\ x[1] \in Players
             /\ standsFor[x] # NoKey => standsFor[x].ag = m.ag
  BY <1>1, EndedFit DEF EndedPlayers, Ends
<1>4. ASSUME NEW x \in Accounts \ spoiled', x[1] \in Players
      PROVE  Met(x)'
  <2> SUFFICES ASSUME standsFor[x] # NoKey, standsFor[x].ag = m.ag,
                      standsFor[x].data.interval = m.interval
               PROVE  x \in EndedPlayers(m)
    BY <1>1 DEF Met
  <2>1. x[2].interval = m.interval
    BY DEF StandsFit, StandsFor, Stands
  <2> QED
    BY <1>1, <1>4, <2>1, PlayersMet
<1> QED
  BY <1>1, <1>2, <1>3, <1>4 DEF EndingFits

LEMMA CurrentEndStore ==
    ASSUME TypeOK, EndingFits, DataIsCurrent, EndStore
    PROVE  EndingFits' /\ DataIsCurrent'
<1>1. ending \in Endings /\ ending # None
  BY DEF EndStore, TypeOK
<1>2. PICK y \in ending.todo : ending' = [ending EXCEPT !.todo = @ \ {y}, !.stored = {y}]
  BY DEF EndStore
<1>3. /\ ending.stored = {} /\ spoiled \subseteq spoiled' /\ serial' = serial
      /\ standsFor' = standsFor
  BY DEF EndStore
<1>4. /\ ending'.ag = ending.ag /\ ending'.interval = ending.interval
      /\ ending'.serialno = ending.serialno /\ ending'.phase = ending.phase
      /\ ending'.stored = {y} /\ ending'.todo \cup ending'.stored = ending.todo \cup ending.stored
  BY <1>1, <1>2, <1>3 DEF Endings
<1>5. DataIsCurrent'
  BY <1>3 DEF DataIsCurrent
<1>6. EndingFits'
  BY <1>1, <1>3, <1>4 DEF EndingFits, Met, Ends
<1> QED
  BY <1>5, <1>6

LEMMA CurrentEndClear ==
    ASSUME TypeOK, StandsFit, EndingFits, DataIsCurrent, EndClear
    PROVE  EndingFits' /\ DataIsCurrent'
<1>1. ending \in Endings /\ ending # None
  BY DEF EndClear, TypeOK
<1>2. PICK y \in ending.stored : standsFor' = [standsFor EXCEPT ![y] =
                IF @ = NoKey THEN NoKey ELSE [@ EXCEPT !.serialno = ending.serialno + 1]]
  BY DEF EndClear
<1>3. /\ ending' = [ending EXCEPT !.stored = {}] /\ spoiled' = spoiled /\ serial' = serial
  BY DEF EndClear
<1>4. /\ ending'.ag = ending.ag /\ ending'.interval = ending.interval
      /\ ending'.serialno = ending.serialno /\ ending'.phase = ending.phase
      /\ ending'.stored = {} /\ ending'.todo = ending.todo
      /\ ending.serialno \in Nat
  BY <1>1, <1>3 DEF Endings
<1>5. ending.stored = {y} /\ y \in Accounts
  BY <1>1, <1>2 DEF EndingFits, Endings
<1>6. \A x \in Accounts \ {y} : standsFor'[x] = standsFor[x]
  BY <1>2 DEF TypeOK
<1>7. standsFor[y] = NoKey => standsFor'[y] = NoKey
  BY <1>2, <1>5 DEF TypeOK
<1>8. standsFor[y] # NoKey =>
         /\ standsFor'[y].ag = ending.ag /\ standsFor[y].ag = ending.ag
         /\ standsFor'[y].data.interval = ending.interval
         /\ standsFor'[y].serialno = ending.serialno + 1
  <2> SUFFICES ASSUME standsFor[y] # NoKey
               PROVE  /\ standsFor'[y].ag = ending.ag /\ standsFor[y].ag = ending.ag
                      /\ standsFor'[y].data.interval = ending.interval
                      /\ standsFor'[y].serialno = ending.serialno + 1
    OBVIOUS
  <2>1. standsFor[y] \in Keys /\ standsFor[y].ag = ending.ag
    BY <1>1, <1>5, KeysAre DEF EndingFits
  <2>2. standsFor[y].data.interval = ending.interval
    BY <1>1, <1>5 DEF EndingFits, Ends, StandsFit, StandsFor, Stands
  <2>3. standsFor'[y] = [standsFor[y] EXCEPT !.serialno = ending.serialno + 1]
    BY <1>2, <1>5 DEF TypeOK
  <2> QED
    BY <2>1, <2>2, <2>3 DEF Keys
<1>9. DataIsCurrent'
  <2> SUFFICES ASSUME NEW x \in Accounts \ spoiled, standsFor'[x] # NoKey
               PROVE  standsFor'[x].serialno >=
                         serial[<<standsFor'[x].ag, standsFor'[x].data.interval>>]
    BY <1>3 DEF DataIsCurrent
  <2>1. CASE x = y
    <3>1. ending.serialno = serial[<<ending.ag, ending.interval>>]
      BY <1>1 DEF EndingFits
    <3> QED
      BY <2>1, <3>1, <1>4, <1>7, <1>8
  <2>2. CASE x # y
    BY <2>2, <1>6 DEF DataIsCurrent
  <2> QED
    BY <2>1, <2>2
<1>10. ASSUME NEW x \in Accounts \ spoiled, x[1] \in Players \/ ending.phase = "arenas"
       PROVE  Met(x)'
  <2>1. Met(x)
    BY <1>1, <1>10 DEF EndingFits
  <2>2. CASE x = y
    BY <2>2, <1>4, <1>7, <1>8 DEF Met
  <2>3. CASE x # y
    BY <2>1, <2>3, <1>4, <1>5, <1>6 DEF Met
  <2> QED
    BY <2>2, <2>3
<1>11. ASSUME NEW x \in ending.todo
       PROVE  /\ Ends(x, ending)'
              /\ x[1] \in Players <=> ending.phase = "players"
              /\ standsFor'[x] # NoKey => standsFor'[x].ag = ending.ag
  <2>1. /\ Ends(x, ending)
        /\ x[1] \in Players <=> ending.phase = "players"
        /\ standsFor[x] # NoKey => standsFor[x].ag = ending.ag
    BY <1>1 DEF EndingFits
  <2>2. x \in Accounts
    BY <1>1 DEF Endings
  <2>3. standsFor'[x] # NoKey => standsFor'[x].ag = ending.ag
    BY <2>1, <2>2, <1>6, <1>7, <1>8
  <2> QED
    BY <2>1, <2>3, <1>4 DEF Ends
<1>12. EndingFits'
  <2>1. ending.serialno = serial[<<ending.ag, ending.interval>>]
    BY <1>1 DEF EndingFits
  <2> QED
    BY <1>3, <1>4, <1>10, <1>11, <2>1 DEF EndingFits
<1> QED
  BY <1>9, <1>12

LEMMA CurrentEndArenas ==
    ASSUME TypeOK, StandsFit, EndingFits, DataIsCurrent, EndArenas
    PROVE  EndingFits' /\ DataIsCurrent'
<1>1. /\ ending \in Endings /\ ending # None /\ ending.phase = "players"
      /\ ending.todo = {} /\ ending.stored = {}
  BY DEF EndArenas, Stage, TypeOK
<1>2. /\ ending' = [ending EXCEPT !.phase = "arenas", !.todo = EndedArenas(ending)]
      /\ UNCHANGED <<serial, standsFor, spoiled>>
  BY DEF EndArenas
<1>3. /\ ending'.ag = ending.ag /\ ending'.interval = ending.interval
      /\ ending'.serialno = ending.serialno /\ ending'.phase = "arenas"
      /\ ending'.stored = {} /\ ending'.todo = EndedArenas(ending)
  BY <1>1, <1>2 DEF Endings
<1>4. DataIsCurrent'
  BY <1>2 DEF DataIsCurrent
<1>5. ASSUME NEW x \in EndedArenas(ending)
      PROVE  /\ Ends(x, ending)' /\ x[1] \notin Players
             /\ standsFor[x] # NoKey => standsFor[x].ag = ending.ag
  BY <1>3, EndedFit, PersistAssumption DEF EndedArenas, Ends
<1>6. ASSUME NEW x \in Accounts \ spoiled
      PROVE  Met(x)'
  <2>1. CASE x[1] \in Players
    <3>1. Met(x)
      BY <1>1, <2>1 DEF EndingFits
    <3> QED
      BY <3>1, <1>1, <1>2, <1>3 DEF Met
  <2>2. CASE x[1] \in Arenas
    <3> SUFFICES ASSUME standsFor[x] # NoKey, standsFor[x].ag = ending.ag,
                        standsFor[x].data.interval = ending.interval
                 PROVE  x \in EndedArenas(ending)
      BY <1>2, <1>3 DEF Met
    <3>1. x[2].interval = ending.interval
      BY DEF StandsFit, StandsFor, Stands
    <3> QED
      BY <2>2, <3>1, ArenasMet
  <2> QED
    BY <2>1, <2>2, AccountsAre
<1>7. EndingFits'
  <2>1. ending.serialno = serial[<<ending.ag, ending.interval>>]
    BY <1>1 DEF EndingFits
  <2> QED
    BY <1>2, <1>3, <1>5, <1>6, <2>1 DEF EndingFits
<1> QED
  BY <1>4, <1>7

LEMMA CurrentEndFinish ==
    ASSUME TypeOK, EndingFits, DataIsCurrent, EndFinish
    PROVE  EndingFits' /\ DataIsCurrent'
<1>1. /\ ending \in Endings /\ ending # None /\ ending.phase = "arenas"
      /\ ending.todo = {} /\ ending.stored = {}
  BY DEF EndFinish, Stage, TypeOK
<1> DEFINE ended == <<ending.ag, ending.interval>>
<1>2. /\ ending' = None /\ serial' = [serial EXCEPT ![ended] = ending.serialno + 1]
      /\ UNCHANGED <<standsFor, spoiled>>
  BY DEF EndFinish
<1>3. DataIsCurrent'
  <2> SUFFICES ASSUME NEW x \in Accounts \ spoiled, NEW k, k = standsFor[x], k # NoKey
               PROVE  k.serialno >= serial'[<<k.ag, k.data.interval>>]
    BY <1>2 DEF DataIsCurrent
  <2>1. /\ k.serialno \in Nat /\ <<k.ag, k.data.interval>> \in Groups \X Intervals
        /\ ending.serialno \in Nat
    BY <1>1, KeysAre DEF Endings
  <2>2. CASE <<k.ag, k.data.interval>> = ended
    <3>1. Met(x)
      BY <1>1 DEF EndingFits
    <3>2. k.serialno > ending.serialno
      BY <1>1, <2>2, <3>1 DEF Met
    <3>3. serial'[ended] = ending.serialno + 1
      BY <1>2, <2>1, <2>2 DEF TypeOK
    <3> QED
      BY <2>1, <2>2, <3>2, <3>3
  <2>3. CASE <<k.ag, k.data.interval>> # ended
    <3>1. serial'[<<k.ag, k.data.interval>>] = serial[<<k.ag, k.data.interval>>]
      BY <1>2, <2>1, <2>3 DEF TypeOK
    <3> QED
      BY <3>1 DEF DataIsCurrent
  <2> QED
    BY <2>2, <2>3
<1> QED
  BY <1>2, <1>3 DEF EndingFits

CurrentInv == QueueInv /\ StandsFit /\ EndingFits /\ DataIsCurrent

LEMMA CurrentInit == Init => CurrentInv
BY QueueInit, StandsInit DEF Init, CurrentInv, EndingFits, DataIsCurrent

LEMMA CurrentNext == TypeOK /\ CurrentInv /\ [Next]_vars => CurrentInv'
<1> SUFFICES ASSUME TypeOK, QueueInv, StandsFit, EndingFits, DataIsCurrent, [Next]_vars
             PROVE  EndingFits' /\ DataIsCurrent'
  BY QueueNext, StandsNext DEF CurrentInv
<1>1. CASE UNCHANGED vars
  BY <1>1, CurrentUnchanged DEF vars
<1>2. CASE \E p \in Players : Login(p) \/ EnterArena(p) \/ SaveArena(p) \/ SaveGlobal(p) \/ Moves(p)
  BY <1>2, CurrentUnchanged DEF Login, EnterArena, SaveArena, SaveGlobal, Moves
<1>3. CASE \E a \in Arenas : ArenaCreated(a) \/ ArenaLoads(a) \/ ArenaSaves(a)
  BY <1>3, CurrentUnchanged DEF ArenaCreated, ArenaLoads, ArenaSaves
<1>4. CASE Synced
  BY <1>4, CurrentUnchanged DEF Synced
<1>5. CASE \E x \in Accounts : Score(x)
  BY <1>5, CurrentUnchanged DEF Score
<1>6. CASE \/ SyncTimer
           \/ \E ag \in Groups, interval \in Intervals : EndInterval(ag, interval)
  BY <1>6, CurrentUnchanged DEF SyncTimer, EndInterval, Ask
<1>7. CASE DBCommand
  BY <1>7, CurrentDBCommand
<1>8. CASE EndStart
  BY <1>8, CurrentEndStart
<1>9. CASE EndStore
  BY <1>9, CurrentEndStore
<1>10. CASE EndClear
  BY <1>10, CurrentEndClear
<1>11. CASE EndArenas
  BY <1>11, CurrentEndArenas
<1>12. CASE EndFinish
  BY <1>12, CurrentEndFinish
<1> QED
  BY <1>1, <1>2, <1>3, <1>4, <1>5, <1>6, <1>7, <1>8, <1>9, <1>10, <1>11, <1>12
  DEF Next, DBThread

\* Data in memory belongs to the interval that runs: do_end_interval meets everybody
\* who comes, plays, leaves or is moved, but for those it is known to overlook.
THEOREM DataStaysCurrent == Spec => []DataIsCurrent
<1>1. CurrentInv => DataIsCurrent
  BY DEF CurrentInv
<1> QED
  BY <1>1, CurrentInit, CurrentNext, TypeCorrect, PTL DEF Spec

----------------------------------------------------------------------------
(* Points: the inductive invariant.                                        *)

\* Records that nobody else has, of data that does not end with AG_GLOBAL.
Own(x) ==
    /\ x[1] \in Players \/ x[2].interval \notin Shared
    /\ x[2].scope = "allarenas" \/ x[2].interval \in Lasting

SpoiledEnds == \A x \in spoiled : x[2].interval \notin Lasting

\* Whose record a key names: an account has few records, and none of a later interval.
Names(k, x) ==
    /\ k.data = x[2]
    /\ IF x[1] \in Players THEN k.who = x[1]
       ELSE k.who = None /\ k.ag = ArenaGroup(x[1], x[2].interval)

Records(x) == {k \in DOMAIN db : Names(k, x)}

RecordsFew == \A x \in Accounts : Own(x) => IsFiniteSet(Records(x))

RecordsOld == \A k \in DOMAIN db : k.serialno <= serial[<<k.ag, k.data.interval>>]

\* The key under which the thread would store the data now.
KeyOf(x) == CurrentKey(x[1], x[2], ArenaOf(x))

\* Data stands for a later interval only if it has been cleared for it already.
Early(x) ==
    /\ ending # None
    /\ standsFor[x].ag = ending.ag /\ standsFor[x].data.interval = ending.interval
    /\ standsFor[x].serialno = ending.serialno + 1
    /\ x \notin ending.todo \cup ending.stored
    /\ x[1] \in Players \/ ending.phase = "arenas"

NotAhead ==
    \A x \in Accounts :
        LET k == standsFor[x]
        IN  k # NoKey => k.serialno <= serial[<<k.ag, k.data.interval>>] \/ Early(x)

\* What is about to be cleared has been stored; and the players whose turn is to come
\* are in an arena of the group, and not just about to hear that their data is read.
StoredFits ==
    ending # None =>
        /\ \A x \in ending.stored :
               /\ x \notin ending.todo
               /\ Own(x) /\ standsFor[x] # NoKey /\ x \notin spoiled =>
                      mem[x] = RecordOf(standsFor[x])
        /\ \A x \in ending.todo \cup ending.stored :
               x[1] \in Players /\ ending.ag # Global =>
                   /\ status[x[1]] \in InArena \ {"wait_arena_sync1"}
                   /\ ArenaGroup(arena[x[1]], x[2].interval) = ending.ag

\* Players whose data has been saved and who have not heard of it yet: what the
\* modules still hold is what was saved, so that to store it again changes nothing.
Saved(x) ==
    /\ x[1] \in Players /\ x[2].scope = "allarenas"
    /\ status[x[1]] = "wait_arena_sync2" /\ ~Unanswered(x[1])

Cleared(x) ==
    /\ ending # None /\ x[2].interval = ending.interval
    /\ ArenaGroup(arena[x[1]], x[2].interval) = ending.ag
    /\ x \notin ending.todo \cup ending.stored

SavedFits ==
    \A x \in Accounts :
        Saved(x) => mem[x] = IF Cleared(x) THEN 0 ELSE RecordOf(KeyOf(x))

Counted == \A x \in Accounts : Own(x) => AccountedFor(x) = scored[x] \/ x \in spoiled

PointsInv ==
    /\ SpoiledEnds /\ RecordsFew /\ RecordsOld /\ NotAhead
    /\ StoredFits /\ SavedFits /\ Counted

OwnPointsAreConserved ==
    \A x \in Accounts :
        Own(x) => \/ AccountedFor(x) = scored[x]
                  \/ x \in spoiled /\ x[2].interval \notin Lasting

----------------------------------------------------------------------------
(* What an account's points are made of.                                   *)

Held(x) == IF standsFor[x] = NoKey THEN 0 ELSE mem[x]

LEMMA AccountedIs ==
    ASSUME NEW x
    PROVE  /\ AccountedFor(x) = Total(Held(x), db, OtherRecords(x))
           /\ AccountedFor(x)' = Total(Held(x)', db', OtherRecords(x)')
<1>1. AccountedFor(x) = Total(Held(x), db, OtherRecords(x))
  BY DEF AccountedFor, Total, Held
<1>2. AccountedFor(x)' = Total(Held(x)', db', OtherRecords(x)')
  BY DEF AccountedFor, Total, Held, MapThenFoldSet
<1> QED
  BY <1>1, <1>2

LEMMA OthersAre ==
    ASSUME NEW x
    PROVE  /\ OtherRecords(x) = Records(x) \ {standsFor[x]}
           /\ OtherRecords(x)' = Records(x)' \ {standsFor'[x]}
BY DEF OtherRecords, Records, Names

LEMMA NoKeyIsNoRecord ==
    ASSUME TypeOK
    PROVE  NoKey \notin DOMAIN db
<1>1. NoKey \notin Keys
  BY PersistAssumption DEF NoKey, Key, Keys, Groups
<1> QED
  BY <1>1 DEF TypeOK

\* Records are finite in number, and numbers of points.
LEMMA RecordsCount ==
    ASSUME TypeOK, RecordsFew, NEW x \in Accounts, Own(x)
    PROVE  /\ IsFiniteSet(Records(x)) /\ \A k \in Records(x) : db[k] \in Nat
           /\ IsFiniteSet(OtherRecords(x)) /\ \A k \in OtherRecords(x) : db[k] \in Nat
           /\ Held(x) \in Nat
<1>1. IsFiniteSet(Records(x)) /\ \A k \in Records(x) : db[k] \in Nat
  BY DEF RecordsFew, Records, TypeOK
<1>2. OtherRecords(x) \subseteq Records(x)
  BY OthersAre
<1>3. IsFiniteSet(OtherRecords(x))
  BY <1>1, <1>2, FS_Subset
<1>4. Held(x) \in Nat
  BY DEF Held, TypeOK
<1> QED
  BY <1>1, <1>2, <1>3, <1>4

Untouched(k) ==
    /\ k \in DOMAIN db' <=> k \in DOMAIN db
    /\ k \in DOMAIN db => db'[k] = db[k]

Untouching(x) == \A k : Names(k, x) => Untouched(k)

Stores(x) ==
    \A k : Names(k, x) =>
        IF k = KeyOf(x) THEN /\ k \in DOMAIN db' <=> mem[x] > 0
                             /\ k \in DOMAIN db' => db'[k] = mem[x]
        ELSE Untouched(k)

\* The names of an account's records are its own for ever.
LEMMA NamesStay ==
    ASSUME NEW x
    PROVE  /\ Records(x) = {k \in DOMAIN db : Names(k, x)}
           /\ Records(x)' = {k \in DOMAIN db' : Names(k, x)}
BY DEF Records, Names

LEMMA SameAccount ==
    ASSUME TypeOK, RecordsFew, NEW x \in Accounts, Own(x), Held(x)' = Held(x),
           \A k : Names(k, x) => k = standsFor[x] \/ Untouched(k),
           standsFor'[x] = standsFor[x]
    PROVE  AccountedFor(x)' = AccountedFor(x)
<1>1. OtherRecords(x)' = OtherRecords(x)
  BY OthersAre, NamesStay DEF Untouched
<1>2. Agree(db, db', OtherRecords(x))
  BY OthersAre, NamesStay DEF Untouched, Agree
<1>3. Total(Held(x), db, OtherRecords(x)) = Total(Held(x), db', OtherRecords(x))
  BY <1>2, RecordsCount, TotalSame
<1> QED
  BY <1>1, <1>3, AccountedIs

\* The keys under which the database thread stores and reads.
LEMMA KeyOfIs ==
    ASSUME TypeOK, NEW x \in Accounts
    PROVE  /\ KeyOf(x) \in Keys /\ KeyOf(x) # NoKey /\ Names(KeyOf(x), x)
           /\ KeyOf(x).ag = ArenaGroup(ArenaOf(x), x[2].interval) /\ KeyOf(x).data = x[2]
           /\ KeyOf(x).who = IF x[1] \in Players THEN x[1] ELSE None
           /\ KeyOf(x).serialno = serial[<<KeyOf(x).ag, x[2].interval>>]
<1>1. ArenaOf(x) \in Arenas \cup {None}
  BY AccountsAre DEF ArenaOf, TypeOK, Owners
<1>2. /\ KeyOf(x) \in Keys /\ KeyOf(x) # NoKey /\ KeyOf(x).data = x[2]
      /\ KeyOf(x).ag = ArenaGroup(ArenaOf(x), x[2].interval)
      /\ KeyOf(x).serialno = serial[<<KeyOf(x).ag, x[2].interval>>]
  BY <1>1, CurrentKeyIs DEF KeyOf
<1>3. KeyOf(x).who = IF x[1] \in Players THEN x[1] ELSE None
  BY DEF KeyOf, CurrentKey, Key
<1>4. Names(KeyOf(x), x)
  BY <1>2, <1>3, AccountsAre DEF Names, ArenaOf
<1> QED
  BY <1>2, <1>3, <1>4

\* While its interval is not being ended, and until its own data is cleared, an
\* account's data belongs where the thread would store it now.
LEMMA StandsForKey ==
    ASSUME TypeOK, StandsFit, DataIsCurrent, NotAhead, NEW x \in Accounts \ spoiled,
           standsFor[x] # NoKey, ending = None \/ x \in ending.todo \cup ending.stored
    PROVE  standsFor[x] = KeyOf(x)
<1> DEFINE k == standsFor[x]
<1>1. /\ k \in Keys /\ k.serialno \in Nat /\ serial[<<k.ag, k.data.interval>>] \in Nat
  BY KeysAre
<1>2. k.serialno >= serial[<<k.ag, k.data.interval>>]
  BY DEF DataIsCurrent
<1>3. k.serialno <= serial[<<k.ag, k.data.interval>>]
  BY DEF NotAhead, Early
<1>4. Stands(x)
  BY DEF StandsFit, StandsFor
<1>5. /\ k.who = KeyOf(x).who /\ k.data = KeyOf(x).data /\ k.ag = KeyOf(x).ag
      /\ k.data = x[2]
  BY <1>4, KeyOfIs DEF Stands
<1>6. k.serialno = KeyOf(x).serialno
  BY <1>1, <1>2, <1>3, <1>5, KeyOfIs
<1> DEFINE j == KeyOf(x)
<1>7. /\ j \in Keys /\ k \in Keys
      /\ k.who = j.who /\ k.ag = j.ag /\ k.data = j.data /\ k.serialno = j.serialno
  BY <1>1, <1>5, <1>6, KeyOfIs
<1> HIDE DEF j, k
<1>8. k = j
  BY <1>7 DEF Keys
<1> QED
  BY <1>8 DEF j, k

\* Such a record has one account only.
LEMMA OneAccount ==
    ASSUME TypeOK, NEW x \in Accounts, Own(x), NEW y \in Accounts, NEW k,
           Names(k, x), Names(k, y)
    PROVE  x = y
<1>1. /\ x[1] \in Owners /\ y[1] \in Owners /\ x = <<x[1], x[2]>> /\ y = <<y[1], y[2]>>
      /\ x[1] \in Players <=> x[1] \notin Arenas
      /\ y[1] \in Players <=> y[1] \notin Arenas
      /\ x[2] = y[2]
  BY AccountsAre DEF Names
<1>2. CASE x[1] \in Players
  BY <1>1, <1>2, PersistAssumption DEF Names
<1>3. CASE x[1] \notin Players
  <2>1. y[1] \notin Players /\ ArenaGroup(x[1], x[2].interval) = ArenaGroup(y[1], x[2].interval)
    BY <1>1, <1>3, PersistAssumption DEF Names
  <2>2. x[2].interval \notin Shared
    BY <1>3 DEF Own
  <2>3. x[1] # None /\ y[1] # None
    BY <1>1, <1>3, <2>1, PersistAssumption DEF Groups
  <2> QED
    BY <1>1, <2>1, <2>2, <2>3 DEF ArenaGroup
<1> QED
  BY <1>2, <1>3

----------------------------------------------------------------------------
(* What the steps of the database thread write.                            *)

Writes(pairs, x) == \E y \in pairs : y[1] = x /\ InScope(y[1][2], y[2])

LEMMA PutTheseStores ==
    ASSUME TypeOK, NEW pairs \in SUBSET (Accounts \X (Arenas \cup {None})),
           db' = PutThese(pairs),
           \A y \in pairs : InScope(y[1][2], y[2]) => y[2] = ArenaOf(y[1]),
           NEW x \in Accounts, Own(x)
    PROVE  IF Writes(pairs, x) THEN Stores(x) ELSE Untouching(x)
<1> DEFINE these    == {y \in pairs : InScope(y[1][2], y[2])}
           Of(y)    == CurrentKey(y[1][1], y[1][2], y[2])
           put      == {Of(y) : y \in these}
           Value(k) == mem[(CHOOSE y \in these : Of(y) = k)[1]]
<1>1. db' = [k \in (DOMAIN db \ put) \cup {j \in put : Value(j) > 0} |->
                IF k \in put THEN Value(k) ELSE db[k]]
  BY DEF PutThese
<1>2. \A y \in these : y[1] \in Accounts /\ Of(y) = KeyOf(y[1])
  BY DEF KeyOf
<1>3. ASSUME NEW y \in these, Names(Of(y), x)
      PROVE  y[1] = x /\ Of(y) = KeyOf(x)
  <2> DEFINE z == y[1]
  <2>1. z \in Accounts /\ Of(y) = KeyOf(z)
    BY <1>2
  <2> HIDE DEF z, Of
  <2>2. Names(KeyOf(z), z) /\ Names(KeyOf(z), x)
    BY <1>3, <2>1, KeyOfIs
  <2>3. x = z
    BY <2>1, <2>2, OneAccount
  <2> QED
    BY <2>1, <2>3 DEF z
<1>4. ASSUME NEW k \in put, Names(k, x)
      PROVE  k = KeyOf(x) /\ Value(k) = mem[x] /\ Writes(pairs, x)
  <2> DEFINE y == CHOOSE y \in these : Of(y) = k
  <2>1. y \in these /\ Of(y) = k
    OBVIOUS
  <2>2. Value(k) = mem[y[1]]
    OBVIOUS
  <2> HIDE DEF y
  <2>3. y[1] = x /\ k = KeyOf(x)
    BY <1>3, <1>4, <2>1
  <2>4. Writes(pairs, x)
    BY <2>1, <2>3 DEF Writes
  <2> QED
    BY <2>2, <2>3, <2>4
<1>5. Writes(pairs, x) => KeyOf(x) \in put
  BY <1>2 DEF Writes
<1> HIDE DEF put, Value, these, Of
<1>6. DOMAIN db' = (DOMAIN db \ put) \cup {j \in put : Value(j) > 0}
  BY <1>1
<1>7. \A k \in DOMAIN db' : db'[k] = IF k \in put THEN Value(k) ELSE db[k]
  BY <1>1
<1>8. \A k : k \notin put => Untouched(k)
  BY <1>6, <1>7 DEF Untouched
<1>9. CASE Writes(pairs, x)
  <2> SUFFICES ASSUME NEW k, Names(k, x)
               PROVE  IF k = KeyOf(x) THEN /\ k \in DOMAIN db' <=> mem[x] > 0
                                           /\ k \in DOMAIN db' => db'[k] = mem[x]
                      ELSE Untouched(k)
    BY <1>9 DEF Stores
  <2>1. CASE k = KeyOf(x)
    <3>1. k \in put
      BY <1>5, <1>9, <2>1
    <3>2. Value(k) = mem[x]
      BY <1>4, <3>1
    <3> QED
      BY <2>1, <3>1, <3>2, <1>6, <1>7
  <2>2. CASE k # KeyOf(x)
    BY <2>2, <1>4, <1>8
  <2> QED
    BY <2>1, <2>2
<1>10. CASE ~Writes(pairs, x)
  BY <1>4, <1>8, <1>10 DEF Untouching
<1> QED
  BY <1>9, <1>10

\* put_one_player and put_one_arena of an owner who has asked for it
LEMMA PutStores ==
    ASSUME TypeOK, QueueInv, NEW m \in Messages, PlayerAsks(m) \/ ArenaAsks(m),
           Put(m.owner, m.arena), NEW x \in Accounts, Own(x)
    PROVE  IF x[1] = m.owner /\ InScope(x[2], m.arena)
           THEN Stores(x) /\ ArenaOf(x) = m.arena
           ELSE Untouching(x)
<1> DEFINE pairs == {<<y, m.arena>> : y \in {z \in Accounts : z[1] = m.owner}}
<1>1. m.arena \in Arenas \cup {None}
  BY DEF PlayerAsks, ArenaAsks, TypeOK
<1>2. pairs \in SUBSET (Accounts \X (Arenas \cup {None})) /\ db' = PutThese(pairs)
  BY <1>1 DEF Put
<1>3. \A y \in Accounts : y[1] = m.owner /\ InScope(y[2], m.arena) => ArenaOf(y) = m.arena
  BY AsksOf
<1>4. \A y \in pairs : InScope(y[1][2], y[2]) => y[2] = ArenaOf(y[1])
  BY <1>3
<1>5. Writes(pairs, x) <=> x[1] = m.owner /\ InScope(x[2], m.arena)
  <2>1. ASSUME x[1] = m.owner, InScope(x[2], m.arena)
        PROVE  Writes(pairs, x)
    <3> DEFINE y == <<x, m.arena>>
    <3>1. y \in pairs /\ y[1] = x /\ y[2] = m.arena
      BY <2>1
    <3> HIDE DEF y, pairs
    <3> QED
      BY <2>1, <3>1 DEF Writes
  <2>2. ASSUME NEW y \in pairs, y[1] = x, InScope(y[1][2], y[2])
        PROVE  x[1] = m.owner /\ InScope(x[2], m.arena)
    BY <2>2
  <2> QED
    BY <2>1, <2>2 DEF Writes
<1> HIDE DEF pairs
<1>6. IF Writes(pairs, x) THEN Stores(x) ELSE Untouching(x)
  BY <1>2, <1>4, PutTheseStores
<1> QED
  BY <1>3, <1>5, <1>6

\* DBCMD_PUTALL stores what is held.
LEMMA PutAllStores ==
    ASSUME TypeOK, PutAll, NEW x \in Accounts, Own(x)
    PROVE  \/ Untouching(x)
           \/ /\ Stores(x) /\ Holds(x)
              /\ x[1] \in Players => status[x[1]] = "playing"
<1> DEFINE players == {p \in Players : status[p] = "playing"}
           arenas  == {a \in Arenas : astatus[a] = "running"}
           pairs   == {y \in Accounts \X (Arenas \cup {None}) :
                           \/ y[1][1] \in players /\ y[2] \in {None, arena[y[1][1]]}
                           \/ y[1][1] \in arenas /\ y[2] = y[1][1]}
<1>1. pairs \in SUBSET (Accounts \X (Arenas \cup {None})) /\ db' = PutThese(pairs)
  BY DEF PutAll
<1>2. ASSUME NEW y \in pairs, InScope(y[1][2], y[2])
      PROVE  y[2] = ArenaOf(y[1])
  <2> DEFINE z == y[1]
  <2>1. /\ z \in Accounts /\ (z[1] \in Players <=> z[1] \notin Arenas)
        /\ z[2].scope \in Scopes
    BY AccountsAre
  <2> QED
    BY <1>2, <2>1, PersistAssumption DEF InScope, ArenaOf, Scopes
<1>3. Writes(pairs, x) => x[1] \in players \cup arenas
  BY DEF Writes
<1>4. /\ x[1] \in players => x[1] \in Players /\ status[x[1]] = "playing"
      /\ x[1] \in arenas => x[1] \in Arenas /\ astatus[x[1]] = "running"
  OBVIOUS
<1> HIDE DEF pairs, players, arenas
<1>5. IF Writes(pairs, x) THEN Stores(x) ELSE Untouching(x)
  BY <1>1, <1>2, PutTheseStores
<1>6. x[1] \in players \cup arenas => Holds(x)
  BY <1>4, AccountsAre DEF Holds, HoldsGlobal, HoldsArena, ArenaHolds, InArena, Scopes
<1>7. x[1] \in players \cup arenas /\ x[1] \in Players => status[x[1]] = "playing"
  BY <1>4, PersistAssumption
<1> QED
  BY <1>3, <1>5, <1>6, <1>7

\* do_end_interval stores one account's data.
LEMMA EndStoreStores ==
    ASSUME TypeOK, EndingFits, NEW y \in ending.todo, ending # None,
           db' = PutThese({<<y, IF y[1] \in Players THEN arena[y[1]] ELSE y[1]>>}),
           NEW x \in Accounts, Own(x)
    PROVE  /\ y \in Accounts
           /\ x = y => /\ y[2].scope = "allarenas" /\ ending.ag # Global
                       /\ ArenaOf(y) = IF y[1] \in Players THEN arena[y[1]] ELSE y[1]
           /\ IF x = y /\ ArenaOf(y) # None THEN Stores(x) ELSE Untouching(x)
<1> DEFINE a == IF y[1] \in Players THEN arena[y[1]] ELSE y[1]
           pairs == {<<y, a>>}
<1>1. y \in Accounts /\ Ends(y, ending) /\ ending.interval \notin Lasting
  BY DEF TypeOK, Endings, EndingFits
<1>2. /\ y[2].scope \in Scopes /\ (y[1] \in Players <=> y[1] \notin Arenas)
      /\ y[1] \in Owners /\ (y[1] \in Arenas => y[2].scope = "allarenas")
  BY <1>1, AccountsAre
<1>3. x = y => y[2].scope = "allarenas" /\ ending.ag # Global
  BY <1>1 DEF Own, Ends
<1>4. y[2].scope = "allarenas" => ArenaOf(y) = a
  BY <1>2 DEF ArenaOf
<1>5. a \in Arenas \cup {None}
  BY <1>2 DEF TypeOK, Owners
<1>6. InScope(y[2], a) => a = ArenaOf(y)
  BY <1>2, <1>4 DEF InScope, ArenaOf, Scopes
<1>7. pairs \in SUBSET (Accounts \X (Arenas \cup {None})) /\ db' = PutThese(pairs)
  BY <1>1, <1>5
<1>8. Writes(pairs, x) <=> x = y /\ a # None
  BY <1>3 DEF Writes, InScope
<1>9. \A z \in pairs : InScope(z[1][2], z[2]) => z[2] = ArenaOf(z[1])
  BY <1>6
<1> HIDE DEF a, pairs
<1>10. IF Writes(pairs, x) THEN Stores(x) ELSE Untouching(x)
  BY <1>7, <1>9, PutTheseStores
<1> QED
  BY <1>1, <1>3, <1>4, <1>8, <1>10 DEF a

\* A new record has the current serial number.
LEMMA NewRecord ==
    ASSUME TypeOK, [Next]_vars, NEW k \in DOMAIN db', k \notin DOMAIN db
    PROVE  k.serialno = serial[<<k.ag, k.data.interval>>]
<1> DEFINE Kept == \A j : j.serialno # serial[<<j.ag, j.data.interval>>] =>
                      /\ j \in DOMAIN db' <=> j \in DOMAIN db
                      /\ j \in DOMAIN db => db'[j] = db[j]
<1>1. CASE DBCommand
  <2> DEFINE o == NextMessage.owner
             a == NextMessage.arena
  <2>1. /\ a \in Arenas \cup {None}
        /\ NextMessage.command \in {"getplayer", "getarena", "putplayer", "putarena", "putall"}
    BY <1>1, FirstMessage DEF DBCommand, Messages
  <2>2. CASE NextMessage.command \in {"getplayer", "getarena"}
    BY <1>1, <2>2 DEF DBCommand
  <2>3. CASE NextMessage.command \in {"putplayer", "putarena"}
    <3>1. Put(o, a)
      BY <1>1, <2>3 DEF DBCommand
    <3>2. Kept
      BY <2>1, <3>1, PutFits
    <3> QED
      BY <3>2
  <2>4. CASE NextMessage.command = "putall"
    <3>1. PutAll
      BY <1>1, <2>4 DEF DBCommand
    <3>2. Kept
      BY <3>1, PutAllFits
    <3> QED
      BY <3>2
  <2> QED
    BY <2>1, <2>2, <2>3, <2>4
<1>2. CASE EndStore
  <2>1. Kept
    BY <1>2, EndStoreFits
  <2> QED
    BY <2>1
<1>3. CASE ~DBCommand /\ ~EndStore
  <2>1. UNCHANGED db
    BY <1>3 DEF Next, vars, Login, EnterArena, SaveArena, SaveGlobal, Moves, ArenaCreated,
       ArenaLoads, ArenaSaves, Synced, Score, SyncTimer, Ask, EndInterval, DBThread, EndStart,
       EndClear, EndArenas, EndFinish
  <2> QED
    BY <2>1
<1> QED
  BY <1>1, <1>2, <1>3

----------------------------------------------------------------------------
(* What has met a defect ends, and no record is of a later interval.       *)

LEMMA SpoiledEndsNext ==
    ASSUME TypeOK, EndingFits, SpoiledEnds, [Next]_vars
    PROVE  SpoiledEnds'
<1>1. ASSUME ending # None
      PROVE  ending.interval \notin Lasting
             /\ \A x \in ending.todo \cup ending.stored : x[2].interval \notin Lasting
  <2>1. ending \in Endings
    BY <1>1 DEF TypeOK
  <2> QED
    BY <1>1, <2>1 DEF Endings, EndingFits, Ends
<1>2. CASE spoiled' = spoiled
  BY <1>2 DEF SpoiledEnds
<1>3. CASE \E x \in Accounts : Score(x)
  BY <1>1, <1>3 DEF Score, SpoiledEnds
<1>4. CASE EndStart
  <2>1. NextMessage.interval \notin Lasting
    BY <1>4, FirstMessage DEF EndStart
  <2> QED
    BY <1>4, <2>1 DEF EndStart, Overlooked, Ends, SpoiledEnds
<1>5. CASE EndStore
  BY <1>1, <1>5 DEF EndStore, SpoiledEnds
<1>6. CASE ~(\E x \in Accounts : Score(x)) /\ ~EndStart /\ ~EndStore
  <2>1. spoiled' = spoiled
    BY <1>6 DEF Next, vars, Login, EnterArena, SaveArena, SaveGlobal, Moves, ArenaCreated,
       ArenaLoads, ArenaSaves, Synced, SyncTimer, Ask, EndInterval, DBThread, DBCommand,
       EndClear, EndArenas, EndFinish
  <2> QED
    BY <1>2, <2>1
<1> QED
  BY <1>3, <1>4, <1>5, <1>6

\* No step stores under a number that is still to come.
LEMMA RecordsOldNext ==
    ASSUME TypeOK, RecordsOld, EndingFits, [Next]_vars
    PROVE  RecordsOld'
<1> SUFFICES ASSUME NEW k \in DOMAIN db'
             PROVE  k.serialno <= serial'[<<k.ag, k.data.interval>>]
  BY DEF RecordsOld
<1> DEFINE at == <<k.ag, k.data.interval>>
<1>1. k \in Keys
  BY TypesNext DEF TypeOK
<1>2. k.serialno \in Nat /\ at \in Groups \X Intervals /\ serial[at] \in Nat
  <2>1. k.serialno \in Nat /\ k.ag \in Groups /\ k.data \in Descriptors
    BY <1>1, PersistAssumption DEF Keys
  <2>2. at \in Groups \X Intervals
    BY <2>1 DEF Descriptors
  <2> QED
    BY <2>1, <2>2 DEF TypeOK
<1>3. k.serialno <= serial[at]
  <2>1. CASE k \in DOMAIN db
    BY <2>1 DEF RecordsOld
  <2>2. CASE k \notin DOMAIN db
    <3>1. k.serialno = serial[at]
      BY <2>2, NewRecord
    <3> QED
      BY <1>2, <3>1
  <2> QED
    BY <2>1, <2>2
<1>4. CASE serial' = serial
  BY <1>3, <1>4
<1>5. CASE EndFinish
  <2> DEFINE ended == <<ending.ag, ending.interval>>
  <2>1. /\ ending.serialno = serial[ended]
        /\ serial' = [serial EXCEPT ![ended] = ending.serialno + 1]
    BY <1>5 DEF EndFinish, Stage, EndingFits
  <2>2. serial'[at] = IF at = ended THEN serial[at] + 1 ELSE serial[at]
    BY <1>2, <2>1 DEF TypeOK
  <2> QED
    BY <1>2, <1>3, <2>2
<1>6. CASE ~EndFinish
  <2>1. serial' = serial
    BY <1>6 DEF Next, vars, Login, EnterArena, SaveArena, SaveGlobal, Moves, ArenaCreated,
       ArenaLoads, ArenaSaves, Synced, Score, SyncTimer, Ask, EndInterval, DBThread, DBCommand,
       EndStart, EndStore, EndClear, EndArenas
  <2> QED
    BY <1>4, <2>1
<1> QED
  BY <1>5, <1>6

----------------------------------------------------------------------------
(* An account has few records.                                             *)

LEMMA FewMore ==
    ASSUME RecordsFew, NEW x \in Accounts, Own(x), Untouching(x) \/ Stores(x)
    PROVE  IsFiniteSet(Records(x)')
<1>1. Records(x)' \subseteq Records(x) \cup {KeyOf(x)}
  BY NamesStay DEF Untouching, Stores, Untouched
<1>2. IsFiniteSet(Records(x) \cup {KeyOf(x)})
  BY FS_AddElement DEF RecordsFew
<1> QED
  BY <1>1, <1>2, FS_Subset

\* What a message of the queue asks of the thread, it asks for its owner.
LEMMA Asked ==
    ASSUME TypeOK, QueueInv, dbq # <<>>, ~Unowned(NextMessage)
    PROVE  /\ NextMessage \in Messages /\ (PlayerAsks(NextMessage) \/ ArenaAsks(NextMessage))
           /\ NextMessage.command \in {"getplayer", "getarena", "putplayer", "putarena"}
           /\ Unanswered(NextMessage.owner) /\ NextMessage.owner \in Owners
<1>1. NextMessage = dbq[1] /\ 1 \in DOMAIN dbq /\ NextMessage \in Messages
  BY FirstMessage
<1>2. NextMessage.command \in {"getplayer", "getarena", "putplayer", "putarena"}
  BY <1>1 DEF Messages, Unowned
<1> QED
  BY <1>1, <1>2, FirstMessage DEF QueueInv, RequestsFit, WaitsOnce

\* A step stores what the modules hold for an account, or leaves its records alone.
LEMMA StepStores ==
    ASSUME TypeOK, QueueInv, EndingFits, [Next]_vars,
           NEW x \in Accounts, Own(x)
    PROVE  Untouching(x) \/ Stores(x)
<1>1. CASE UNCHANGED db
  BY <1>1 DEF Untouching, Untouched
<1>2. CASE DBCommand
  <2>1. dbq # <<>> /\ NextMessage.command # "end"
    BY <1>2 DEF DBCommand
  <2>2. CASE NextMessage.command = "putall"
    <3>1. PutAll
      BY <1>2, <2>2 DEF DBCommand
    <3> QED
      BY <3>1, PutAllStores
  <2>3. CASE NextMessage.command # "putall"
    <3> DEFINE m == NextMessage
    <3>1. /\ m \in Messages /\ (PlayerAsks(m) \/ ArenaAsks(m))
          /\ m.command \in {"getplayer", "getarena", "putplayer", "putarena"}
      BY <2>1, <2>3, Asked DEF Unowned
    <3>2. m.command \in {"getplayer", "getarena"} => UNCHANGED db
      BY <1>2 DEF DBCommand
    <3>3. m.command \in {"putplayer", "putarena"} => Put(m.owner, m.arena)
      BY <1>2 DEF DBCommand
    <3> HIDE DEF m
    <3>4. ASSUME Put(m.owner, m.arena)
          PROVE  Untouching(x) \/ Stores(x)
      <4>1. IF x[1] = m.owner /\ InScope(x[2], m.arena)
            THEN Stores(x) /\ ArenaOf(x) = m.arena
            ELSE Untouching(x)
        BY <3>1, <3>4, PutStores
      <4> QED
        BY <4>1
    <3> QED
      BY <1>1, <3>1, <3>2, <3>3, <3>4
  <2> QED
    BY <2>2, <2>3
<1>3. CASE EndStore
  <2>1. /\ ending # None
        /\ \E y \in ending.todo :
              db' = PutThese({<<y, IF y[1] \in Players THEN arena[y[1]] ELSE y[1]>>})
    BY <1>3 DEF EndStore
  <2> QED
    BY <2>1, EndStoreStores
<1>4. CASE ~DBCommand /\ ~EndStore
  <2>1. UNCHANGED db
    BY <1>4 DEF Next, vars, Login, EnterArena, SaveArena, SaveGlobal, Moves, ArenaCreated,
       ArenaLoads, ArenaSaves, Synced, Score, SyncTimer, Ask, EndInterval, DBThread, EndStart,
       EndClear, EndArenas, EndFinish
  <2> QED
    BY <1>1, <2>1
<1> QED
  BY <1>2, <1>3, <1>4

LEMMA RecordsFewNext ==
    ASSUME TypeOK, QueueInv, EndingFits, RecordsFew, [Next]_vars
    PROVE  RecordsFew'
BY StepStores, FewMore DEF RecordsFew

----------------------------------------------------------------------------
(* No data stands for an interval that is still to come.                   *)

\* A step on the way to the end of an interval changes who is to come, not what ends.
LEMMA EndingStays ==
    ASSUME TypeOK, EndStore \/ EndClear \/ EndArenas
    PROVE  /\ ending \in Endings /\ ending # None /\ ending' \in Endings /\ ending' # None
           /\ ending'.ag = ending.ag /\ ending'.interval = ending.interval
           /\ ending'.serialno = ending.serialno /\ serial' = serial
<1>1. ending \in Endings /\ ending # None /\ serial' = serial
  BY DEF TypeOK, EndStore, EndClear, EndArenas, Stage
<1>2. CASE EndStore
  <2>1. PICK y \in ending.todo : ending' = [ending EXCEPT !.todo = @ \ {y}, !.stored = {y}]
    BY <1>2 DEF EndStore
  <2>2. {y} \in SUBSET Accounts /\ ending.todo \ {y} \in SUBSET Accounts
    BY <1>1 DEF Endings
  <2> QED
    BY <1>1, <2>1, <2>2, NoneAssumption DEF Endings
<1>3. CASE EndClear
  <2>1. ending' = [ending EXCEPT !.stored = {}]
    BY <1>3 DEF EndClear
  <2> QED
    BY <1>1, <2>1, NoneAssumption DEF Endings
<1>4. CASE EndArenas
  <2>1. ending' = [ending EXCEPT !.phase = "arenas", !.todo = EndedArenas(ending)]
    BY <1>4 DEF EndArenas
  <2>2. EndedArenas(ending) \subseteq Accounts
    BY EndedAre
  <2> QED
    BY <1>1, <2>1, <2>2, NoneAssumption DEF Endings
<1> QED
  BY <1>2, <1>3, <1>4

LEMMA NotAheadKept ==
    ASSUME NotAhead, UNCHANGED <<serial, ending, standsFor>>
    PROVE  NotAhead'
BY DEF NotAhead, Early

LEMMA NotAheadNext ==
    ASSUME TypeOK, StandsFit, EndingFits, StoredFits, NotAhead, [Next]_vars
    PROVE  NotAhead'
<1>1. CASE UNCHANGED <<serial, ending, standsFor>>
  BY <1>1, NotAheadKept
<1>2. CASE DBCommand
  <2>1. ending = None /\ ending' = None /\ serial' = serial /\ dbq # <<>> /\ NextMessage.command # "end"
    BY <1>2 DEF DBCommand
  <2>2. NextMessage \in Messages /\ NextMessage.arena \in Arenas \cup {None}
    BY <2>1, FirstMessage
  <2> SUFFICES ASSUME NEW x \in Accounts, NEW k, k = standsFor'[x], k # NoKey
               PROVE  k.serialno <= serial[<<k.ag, k.data.interval>>]
    BY <2>1 DEF NotAhead
  <2>3. CASE k = standsFor[x]
    BY <2>1, <2>3 DEF NotAhead, Early
  <2>4. CASE k # standsFor[x]
    <3> DEFINE o == NextMessage.owner
               a == NextMessage.arena
    <3>1. standsFor'[x] # standsFor[x] /\ standsFor'[x] # NoKey
      BY <2>4
    <3>2. x[1] = o /\ standsFor'[x] = CurrentKey(o, x[2], a)
      BY <1>2, <2>2, <3>1 DEF DBCommand, Get, Put, TypeOK, Messages
    <3>3. k = CurrentKey(x[1], x[2], a)
      BY <3>2
    <3>4. k \in Keys /\ k.serialno = serial[<<k.ag, k.data.interval>>]
      BY <2>2, <3>3, CurrentKeyIs
    <3> QED
      BY <3>4 DEF Keys
  <2> QED
    BY <2>3, <2>4
<1>3. CASE EndStart
  BY <1>3 DEF EndStart, NotAhead, Early
<1>4. CASE EndStore
  <2>1. ending \in Endings /\ ending # None /\ ending.stored = {}
    BY <1>4 DEF EndStore, TypeOK
  <2>2. PICK y \in ending.todo : ending' = [ending EXCEPT !.todo = @ \ {y}, !.stored = {y}]
    BY <1>4 DEF EndStore
  <2>3. /\ ending'.ag = ending.ag /\ ending'.interval = ending.interval /\ ending' # None
        /\ ending'.serialno = ending.serialno
    BY <1>4, EndingStays
  <2>5. /\ ending'.phase = ending.phase
        /\ ending'.todo \cup ending'.stored = ending.todo \cup ending.stored
    BY <2>1, <2>2 DEF Endings
  <2>4. UNCHANGED <<serial, standsFor>>
    BY <1>4 DEF EndStore
  <2> QED
    BY <2>1, <2>3, <2>4, <2>5 DEF NotAhead, Early
<1>5. CASE EndClear
  <2>1. ending \in Endings /\ ending # None /\ ending.serialno \in Nat
    BY <1>5 DEF EndClear, TypeOK, Endings
  <2>2. PICK y \in ending.stored : standsFor' = [standsFor EXCEPT ![y] =
                IF @ = NoKey THEN NoKey ELSE [@ EXCEPT !.serialno = ending.serialno + 1]]
    BY <1>5 DEF EndClear
  <2>3. ending' = [ending EXCEPT !.stored = {}] /\ serial' = serial
    BY <1>5 DEF EndClear
  <2>4. /\ ending'.ag = ending.ag /\ ending'.interval = ending.interval
        /\ ending'.serialno = ending.serialno /\ ending'.phase = ending.phase
        /\ ending'.stored = {} /\ ending'.todo = ending.todo
    BY <2>1, <2>3 DEF Endings
  <2>5. /\ y \in Accounts /\ Ends(y, ending) /\ y \notin ending.todo
        /\ y[1] \in Players <=> ending.phase = "players"
        /\ standsFor[y] # NoKey => standsFor[y].ag = ending.ag
        /\ ending.phase \in {"players", "arenas"}
    BY <2>1 DEF Endings, EndingFits, StoredFits
  <2>6. ending' # None
    BY <1>5, EndingStays
  <2> SUFFICES ASSUME NEW x \in Accounts, standsFor'[x] # NoKey
               PROVE  \/ standsFor'[x].serialno <=
                             serial[<<standsFor'[x].ag, standsFor'[x].data.interval>>]
                      \/ Early(x)'
    BY <2>3 DEF NotAhead
  <2>7. CASE x = y
    <3>1. standsFor[y] # NoKey /\ standsFor[y] \in Keys
      BY <2>2, <2>5, <2>7, KeysAre DEF TypeOK
    <3>2. standsFor'[y] = [standsFor[y] EXCEPT !.serialno = ending.serialno + 1]
      BY <2>2, <2>5, <3>1 DEF TypeOK
    <3>3. standsFor[y].data.interval = ending.interval
      BY <2>5, <3>1 DEF Ends, StandsFit, StandsFor, Stands
    <3>4. /\ standsFor'[y].ag = ending.ag /\ standsFor'[y].data.interval = ending.interval
          /\ standsFor'[y].serialno = ending.serialno + 1
      BY <2>5, <3>1, <3>2, <3>3 DEF Keys
    <3> QED
      BY <2>4, <2>5, <2>6, <2>7, <3>4 DEF Early
  <2>8. CASE x # y
    <3>1. standsFor'[x] = standsFor[x]
      BY <2>2, <2>8 DEF TypeOK
    <3> QED
      BY <2>3, <2>4, <2>6, <3>1 DEF NotAhead, Early
  <2> QED
    BY <2>7, <2>8
<1>6. CASE EndArenas
  <2>1. /\ ending \in Endings /\ ending # None /\ ending.phase = "players"
        /\ ending.todo = {} /\ ending.stored = {}
    BY <1>6 DEF EndArenas, Stage, TypeOK
  <2>2. /\ ending' = [ending EXCEPT !.phase = "arenas", !.todo = EndedArenas(ending)]
        /\ UNCHANGED <<serial, standsFor>>
    BY <1>6 DEF EndArenas
  <2>3. /\ ending'.ag = ending.ag /\ ending'.interval = ending.interval
        /\ ending'.serialno = ending.serialno /\ ending'.phase = "arenas"
        /\ ending'.stored = {} /\ ending'.todo = EndedArenas(ending)
    BY <2>1, <2>2 DEF Endings
  <2>4. ending' # None
    BY <1>6, EndingStays
  <2>5. \A x \in Accounts : x[1] \in Players => x \notin EndedArenas(ending)
    BY PersistAssumption DEF EndedArenas
  <2> QED
    BY <2>1, <2>2, <2>3, <2>4, <2>5 DEF NotAhead, Early
<1>7. CASE EndFinish
  <2> DEFINE ended == <<ending.ag, ending.interval>>
  <2>1. /\ ending \in Endings /\ ending # None /\ ending' = None
        /\ ending.serialno = serial[ended] /\ ending.serialno \in Nat
        /\ serial' = [serial EXCEPT ![ended] = ending.serialno + 1] /\ standsFor' = standsFor
    BY <1>7 DEF EndFinish, Stage, EndingFits, TypeOK, Endings
  <2> SUFFICES ASSUME NEW x \in Accounts, NEW k, k = standsFor[x], k # NoKey
               PROVE  k.serialno <= serial'[<<k.ag, k.data.interval>>]
    BY <2>1 DEF NotAhead
  <2>2. /\ k.serialno \in Nat /\ <<k.ag, k.data.interval>> \in Groups \X Intervals
        /\ serial[<<k.ag, k.data.interval>>] \in Nat
    BY KeysAre
  <2>3. CASE <<k.ag, k.data.interval>> = ended
    <3>1. serial'[ended] = serial[ended] + 1
      BY <2>1, <2>2, <2>3 DEF TypeOK
    <3>2. k.serialno <= serial[ended] \/ k.serialno = serial[ended] + 1
      BY <2>1, <2>3 DEF NotAhead, Early
    <3> QED
      BY <2>2, <2>3, <3>1, <3>2
  <2>4. CASE <<k.ag, k.data.interval>> # ended
    <3>1. serial'[<<k.ag, k.data.interval>>] = serial[<<k.ag, k.data.interval>>]
      BY <2>1, <2>2, <2>4 DEF TypeOK
    <3>2. ~Early(x)
      BY <2>4 DEF Early
    <3> QED
      BY <3>1, <3>2 DEF NotAhead
  <2> QED
    BY <2>3, <2>4
<1>8. CASE ~DBThread
  <2>1. UNCHANGED <<serial, ending, standsFor>>
    BY <1>8 DEF Next, vars, Login, EnterArena, SaveArena, SaveGlobal, Moves, ArenaCreated,
       ArenaLoads, ArenaSaves, Synced, Score, SyncTimer, Ask, EndInterval
  <2> QED
    BY <1>1, <2>1
<1> QED
  BY <1>2, <1>3, <1>4, <1>5, <1>6, <1>7, <1>8 DEF DBThread

----------------------------------------------------------------------------
(* What is about to be cleared has been stored.                            *)

\* No player moves while the thread goes through them, and afterwards none is to come.
LEMMA StoredKept ==
    ASSUME EndingFits, StoredFits, UNCHANGED <<mem, db, ending, standsFor>>,
           spoiled \subseteq spoiled',
           PlayersLocked => UNCHANGED <<status, arena>>
    PROVE  StoredFits'
<1> SUFFICES ASSUME ending # None PROVE StoredFits'
  BY DEF StoredFits
<1>1. \A x \in ending.stored :
          /\ x \notin ending.todo
          /\ Own(x) /\ standsFor[x] # NoKey /\ x \notin spoiled => mem[x] = RecordOf(standsFor[x])
  BY DEF StoredFits
<1>2. \A x \in ending.todo \cup ending.stored :
          x[1] \in Players /\ ending.ag # Global =>
              /\ status'[x[1]] \in InArena \ {"wait_arena_sync1"}
              /\ ArenaGroup(arena'[x[1]], x[2].interval) = ending.ag
  <2>1. CASE PlayersLocked
    BY <2>1 DEF StoredFits
  <2>2. CASE ~PlayersLocked
    BY <2>2 DEF PlayersLocked, EndingFits
  <2> QED
    BY <2>1, <2>2
<1>3. \A x : RecordOf(standsFor[x])' = RecordOf(standsFor[x])
  BY DEF RecordOf
<1> QED
  BY <1>1, <1>2, <1>3 DEF StoredFits, ArenaGroup

LEMMA StoredScore ==
    ASSUME TypeOK, StoredFits, NEW y \in Accounts, Score(y)
    PROVE  StoredFits'
<1>1. /\ mem' = [mem EXCEPT ![y] = @ + 1]
      /\ UNCHANGED <<status, arena, db, ending, standsFor>>
      /\ spoiled' = IF ending # None /\ y \in ending.stored THEN spoiled \cup {y} ELSE spoiled
  BY DEF Score
<1> SUFFICES ASSUME ending # None PROVE StoredFits'
  BY <1>1 DEF StoredFits
<1>2. ASSUME NEW x \in ending.stored, Own(x), standsFor[x] # NoKey, x \notin spoiled'
      PROVE  mem'[x] = RecordOf(standsFor[x])
  <2>1. x \in Accounts /\ x # y /\ x \notin spoiled
    BY <1>1, <1>2 DEF TypeOK, Endings
  <2>2. mem'[x] = mem[x]
    BY <1>1, <2>1 DEF TypeOK
  <2> QED
    BY <1>2, <2>1, <2>2 DEF StoredFits
<1>3. \A x : RecordOf(standsFor[x])' = RecordOf(standsFor[x])
  BY <1>1 DEF RecordOf
<1> QED
  BY <1>1, <1>2, <1>3 DEF StoredFits, ArenaGroup

LEMMA StoredEndStart ==
    ASSUME TypeOK, QueueInv, EndStart
    PROVE  StoredFits'
<1> DEFINE m == NextMessage
<1>1. /\ ending' = [ag |-> m.ag, interval |-> m.interval,
                    serialno |-> serial[<<m.ag, m.interval>>],
                    phase |-> "players", todo |-> EndedPlayers(m), stored |-> {}]
      /\ UNCHANGED <<status, arena>>
  BY DEF EndStart
<1> HIDE DEF m
<1> SUFFICES ASSUME ending' # None PROVE StoredFits'
  BY DEF StoredFits
<1>3. ASSUME NEW x \in EndedPlayers(m), m.ag # Global
      PROVE  /\ status[x[1]] \in InArena \ {"wait_arena_sync1"}
             /\ ArenaGroup(arena[x[1]], x[2].interval) = m.ag
  <2>1. x[1] \in Players /\ InRange(x[1], m.ag) /\ x[2].interval = m.interval
        /\ ArenaGroup(arena[x[1]], m.interval) = m.ag
    BY <1>3 DEF EndedPlayers, Ends
  <2>2. status[x[1]] \in Statuses
    BY <2>1, StatusesAre DEF TypeOK
  <2> QED
    BY <1>3, <2>1, <2>2, InRangeAre
<1> QED
  BY <1>1, <1>3 DEF StoredFits, ArenaGroup

\* What is in memory after it has been stored is what the record says.
LEMMA StoredIs ==
    ASSUME TypeOK, NEW x \in Accounts, Stores(x), NEW k, k = KeyOf(x)
    PROVE  mem[x] = IF k \in DOMAIN db' THEN db'[k] ELSE 0
<1>1. Names(k, x) /\ mem[x] \in Nat
  BY KeyOfIs DEF TypeOK
<1> QED
  BY <1>1 DEF Stores

LEMMA ArenaIsThere ==
    ASSUME TypeOK, QueueInv, StandsFit, NEW x \in Accounts, x[2].scope = "allarenas",
           standsFor[x] # NoKey \/ (x[1] \in Players => status[x[1]] \in InArena)
    PROVE  ArenaOf(x) # None
<1>1. /\ x[1] \in Owners /\ (x[1] \in Players <=> x[1] \notin Arenas)
  BY AccountsAre
<1>2. CASE x[1] \in Arenas
  BY <1>2, PersistAssumption DEF ArenaOf, Groups
<1>3. CASE x[1] \in Players
  <2>1. status[x[1]] \in InArena
    BY <1>1, <1>3 DEF StandsFit, StandsFor, Holds, HoldsArena
  <2> QED
    BY <1>1, <1>3, <2>1 DEF ArenaOf, QueueInv, HasArena
<1> QED
  BY <1>1, <1>2, <1>3

LEMMA StoredEndStore ==
    ASSUME TypeOK, QueueInv, StandsFit, DataIsCurrent, EndingFits, 
           NotAhead, StoredFits, EndStore
    PROVE  StoredFits'
<1>1. /\ ending \in Endings /\ ending # None /\ ending.stored = {}
      /\ UNCHANGED <<status, arena, mem, standsFor>> /\ spoiled \subseteq spoiled'
      /\ ending'.ag = ending.ag
  BY EndingStays DEF EndStore, TypeOK
<1>2. PICK y \in ending.todo :
          /\ ending' = [ending EXCEPT !.todo = @ \ {y}, !.stored = {y}]
          /\ db' = PutThese({<<y, IF y[1] \in Players THEN arena[y[1]] ELSE y[1]>>})
  BY DEF EndStore
<1>3. ending'.todo = ending.todo \ {y} /\ ending'.stored = {y}
  BY <1>1, <1>2 DEF Endings
<1>4. ASSUME Own(y), standsFor[y] # NoKey, y \notin spoiled', NEW k, k = standsFor[y]
      PROVE  mem[y] = IF k \in DOMAIN db' THEN db'[k] ELSE 0
  <2>1. y \in Accounts /\ y[2].scope = "allarenas"
        /\ (ArenaOf(y) # None => Stores(y))
    BY <1>1, <1>2, <1>4, EndStoreStores DEF TypeOK, Endings
  <2>2. ArenaOf(y) # None
    BY <1>4, <2>1, ArenaIsThere
  <2>3. k = KeyOf(y)
    BY <1>1, <1>4, <2>1, StandsForKey
  <2> QED
    BY <2>1, <2>2, <2>3, StoredIs
<1>5. \A x \in ending.todo \cup {y} :
          x[1] \in Players /\ ending.ag # Global =>
              /\ status[x[1]] \in InArena \ {"wait_arena_sync1"}
              /\ ArenaGroup(arena[x[1]], x[2].interval) = ending.ag
  BY <1>1 DEF StoredFits
<1> QED
  BY <1>1, <1>3, <1>4, <1>5 DEF StoredFits, RecordOf, ArenaGroup

LEMMA StoredNext ==
    ASSUME TypeOK, QueueInv, StandsFit, DataIsCurrent, EndingFits, 
           NotAhead, StoredFits, [Next]_vars
    PROVE  StoredFits'
<1>1. CASE UNCHANGED vars
  BY <1>1, StoredKept DEF vars
<1>2. CASE \E p \in Players : Login(p) \/ EnterArena(p) \/ SaveArena(p) \/ SaveGlobal(p) \/ Moves(p)
  BY <1>2, StoredKept DEF Login, EnterArena, SaveArena, SaveGlobal, Moves, Goes
<1>3. CASE \E a \in Arenas : ArenaCreated(a) \/ ArenaLoads(a) \/ ArenaSaves(a)
  BY <1>3, StoredKept DEF ArenaCreated, ArenaLoads, ArenaSaves
<1>4. CASE Synced
  <2>1. UNCHANGED <<db, ending, standsFor, spoiled>>
    BY <1>4 DEF Synced
  <2>2. CASE PlayerSynced(Head(mainq))
    BY <2>1, <2>2, StoredKept DEF PlayerSynced, Goes
  <2>3. CASE ArenaSynced(Head(mainq))
    <3>1. CASE ending = None
      BY <2>1, <3>1 DEF StoredFits
    <3>2. CASE ending # None
      BY <2>1, <2>3, <3>2, StoredKept DEF ArenaSynced
    <3> QED
      BY <3>1, <3>2
  <2> QED
    BY <1>4, <2>2, <2>3 DEF Synced
<1>5. CASE \E x \in Accounts : Score(x)
  BY <1>5, StoredScore
<1>6. CASE \/ SyncTimer
           \/ \E ag \in Groups, interval \in Intervals : EndInterval(ag, interval)
  BY <1>6, StoredKept DEF SyncTimer, EndInterval, Ask
<1>7. CASE DBCommand
  BY <1>7 DEF DBCommand, StoredFits
<1>8. CASE EndStart
  BY <1>8, StoredEndStart
<1>9. CASE EndStore
  BY <1>9, StoredEndStore
<1>10. CASE EndClear
  <2>1. /\ ending \in Endings /\ ending # None /\ ending'.ag = ending.ag
        /\ ending' = [ending EXCEPT !.stored = {}]
        /\ UNCHANGED <<status, arena>>
    BY <1>10, EndingStays DEF EndClear
  <2>2. ending'.stored = {} /\ ending'.todo = ending.todo
    BY <2>1 DEF Endings
  <2> QED
    BY <2>1, <2>2 DEF StoredFits, ArenaGroup
<1>11. CASE EndArenas
  <2>1. /\ ending \in Endings /\ ending.stored = {}
        /\ ending' = [ending EXCEPT !.phase = "arenas", !.todo = EndedArenas(ending)]
    BY <1>11, EndingStays DEF EndArenas, Stage
  <2>2. ending'.stored = {} /\ ending'.todo = EndedArenas(ending)
    BY <2>1 DEF Endings
  <2>3. \A x \in EndedArenas(ending) : x[1] \notin Players
    BY PersistAssumption DEF EndedArenas
  <2> QED
    BY <2>2, <2>3 DEF StoredFits
<1>12. CASE EndFinish
  BY <1>12 DEF EndFinish, StoredFits
<1> QED
  BY <1>1, <1>2, <1>3, <1>4, <1>5, <1>6, <1>7, <1>8, <1>9, <1>10, <1>11, <1>12
  DEF Next, DBThread

----------------------------------------------------------------------------
(* What is still in memory after it has been saved.                        *)

SavedAs(x) == mem[x] = IF Cleared(x) THEN 0 ELSE RecordOf(KeyOf(x))

LEMMA SavedKept ==
    ASSUME TypeOK, SavedFits, NEW x \in Accounts, Saved(x),
           mem'[x] = mem[x], arena' = arena, serial' = serial,
           Cleared(x)' <=> Cleared(x), Untouching(x)
    PROVE  SavedAs(x)'
<1>1. SavedAs(x)
  BY DEF SavedFits, SavedAs
<1>2. KeyOf(x)' = KeyOf(x)
  BY DEF KeyOf, CurrentKey, ArenaOf, ArenaGroup, Key
<1>3. RecordOf(KeyOf(x))' = RecordOf(KeyOf(x))
  BY <1>2, KeyOfIs DEF RecordOf, Untouching, Untouched
<1> QED
  BY <1>1, <1>3 DEF SavedAs

\* Steps by which nobody's data gets saved, and which leave what is in memory.
LEMMA SavedUnchanged ==
    ASSUME TypeOK, SavedFits, NEW x \in Accounts, Saved(x)' => Saved(x) /\ arena'[x[1]] = arena[x[1]],
           mem'[x] = mem[x], UNCHANGED <<db, ending, serial>>
    PROVE  Saved(x)' => SavedAs(x)'
<1> SUFFICES ASSUME Saved(x)' PROVE SavedAs(x)'
  OBVIOUS
<1>1. SavedAs(x)
  BY DEF SavedFits, SavedAs
<1>2. arena'[x[1]] = arena[x[1]]
  OBVIOUS
<1>3. KeyOf(x)' = KeyOf(x)
  BY <1>2 DEF KeyOf, CurrentKey, ArenaOf, ArenaGroup, Key
<1>4. Cleared(x)' <=> Cleared(x)
  BY <1>2 DEF Cleared, ArenaGroup
<1>5. RecordOf(KeyOf(x))' = RecordOf(KeyOf(x))
  BY <1>3 DEF RecordOf
<1> QED
  BY <1>1, <1>4, <1>5 DEF SavedAs

LEMMA SavedPlayers ==
    ASSUME TypeOK, QueueInv, SavedFits, NEW p \in Players,
           Login(p) \/ EnterArena(p) \/ SaveArena(p) \/ SaveGlobal(p) \/ Moves(p),
           NEW x \in Accounts
    PROVE  Saved(x)' => SavedAs(x)'
<1>1. UNCHANGED <<mem, db, ending, serial, mainq>>
  BY DEF Login, EnterArena, SaveArena, SaveGlobal, Moves
<1>2. \A o : Unanswered(o)' <=> Unanswered(o)
  BY <1>1 DEF Unanswered
<1>3. p \in Owners /\ p \notin Arenas /\ status[p] \notin Waits
  BY PersistAssumption DEF Owners, Login, EnterArena, SaveArena, SaveGlobal, Moves, Goes, Waits
<1>4. Unanswered(p)
  BY <1>3, IdleUnlessWaiting DEF Idle
<1>5. \A q \in Players \ {p} : status'[q] = status[q] /\ arena'[q] = arena[q]
  BY DEF TypeOK, Login, EnterArena, SaveArena, SaveGlobal, Moves, Goes
<1>6. Saved(x)' => Saved(x) /\ arena'[x[1]] = arena[x[1]]
  BY <1>2, <1>4, <1>5 DEF Saved
<1> QED
  BY <1>1, <1>6, SavedUnchanged

LEMMA SavedSynced ==
    ASSUME TypeOK, QueueInv, SavedFits, Synced, NEW x \in Accounts
    PROVE  Saved(x)' => SavedAs(x)'
<1> DEFINE o == Head(mainq)
<1>1. /\ mainq \in Seq(Owners) /\ mainq # <<>> /\ mainq' = Tail(mainq)
      /\ UNCHANGED <<db, ending, serial>>
  BY DEF Synced, TypeOK
<1>2. /\ 1 \in DOMAIN mainq /\ mainq[1] = o
      /\ \A i \in DOMAIN mainq : i # 1 => i - 1 \in DOMAIN mainq' /\ mainq'[i - 1] = mainq[i]
      /\ \A i \in DOMAIN mainq' : i + 1 \in DOMAIN mainq /\ mainq'[i] = mainq[i + 1]
  BY <1>1, TailIs
<1>3. o \in Owners
  BY <1>1, <1>2
<1> HIDE DEF o
<1>4. \A q : q # o => (Unanswered(q)' <=> Unanswered(q))
  BY <1>2 DEF Unanswered
<1>5. CASE o \in Players
  <2>1. PlayerSynced(o)
    BY <1>5 DEF Synced, o
  <2>2. /\ mem' = mem /\ status'[o] # "wait_arena_sync2"
        /\ \A q \in Players \ {o} : status'[q] = status[q] /\ arena'[q] = arena[q]
    BY <1>5, <2>1 DEF TypeOK, PlayerSynced, Goes
  <2>3. Saved(x)' => Saved(x) /\ arena'[x[1]] = arena[x[1]]
    BY <1>4, <2>2 DEF Saved
  <2> QED
    BY <1>1, <2>2, <2>3, SavedUnchanged
<1>6. CASE o \notin Players
  <2>1. ArenaSynced(o)
    BY <1>6 DEF Synced, o
  <2>2. /\ status' = status /\ arena' = arena
        /\ x[1] # o => mem'[x] = mem[x]
    BY <2>1 DEF TypeOK, ArenaSynced
  <2>3. Saved(x)' => Saved(x) /\ arena'[x[1]] = arena[x[1]] /\ x[1] # o
    BY <1>4, <1>6, <2>2 DEF Saved
  <2> QED
    BY <1>1, <2>2, <2>3, SavedUnchanged
<1> QED
  BY <1>5, <1>6

LEMMA SavedScore ==
    ASSUME TypeOK, SavedFits, NEW y \in Accounts, Score(y), NEW x \in Accounts
    PROVE  Saved(x)' => SavedAs(x)'
<1>1. UNCHANGED <<status, arena, db, ending, serial, mainq>>
  BY DEF Score
<1>2. Saved(x)' <=> Saved(x)
  BY <1>1 DEF Saved, Unanswered
<1>3. Saved(x) => x # y
  BY DEF Saved, Score
<1>4. x # y => mem'[x] = mem[x]
  BY DEF Score, TypeOK
<1> QED
  BY <1>1, <1>2, <1>3, <1>4, SavedUnchanged

LEMMA SavedDBCommand ==
    ASSUME TypeOK, QueueInv, SavedFits, DBCommand, NEW x \in Accounts, Own(x)
    PROVE  Saved(x)' => SavedAs(x)'
<1> SUFFICES ASSUME Saved(x)' PROVE SavedAs(x)'
  OBVIOUS
<1>1. /\ ending = None /\ dbq # <<>> /\ NextMessage.command # "end"
      /\ UNCHANGED <<status, arena, serial, ending>>
  BY DEF DBCommand
<1>2. ~Cleared(x) /\ ~Cleared(x)'
  BY <1>1 DEF Cleared
<1>3. CASE NextMessage.command = "putall"
  <2>1. PutAll /\ mem' = mem /\ mainq' = mainq
    BY <1>3 DEF DBCommand, Unowned
  <2>2. Saved(x)
    BY <1>1, <2>1 DEF Saved, Unanswered
  <2>3. Untouching(x)
    BY <2>1, <2>2, PutAllStores DEF Saved
  <2> QED
    BY <1>1, <1>2, <2>1, <2>2, <2>3, SavedKept
<1>4. CASE NextMessage.command # "putall"
  <2> DEFINE m == NextMessage
  <2>1. /\ m \in Messages /\ (PlayerAsks(m) \/ ArenaAsks(m))
        /\ m.command \in {"getplayer", "getarena", "putplayer", "putarena"}
        /\ Unanswered(m.owner) /\ m.owner \in Owners
    BY <1>1, <1>4, Asked DEF Unowned
  <2>2. /\ m.command \in {"getplayer", "getarena"} => Get(m.owner, m.arena) /\ UNCHANGED db
        /\ m.command \in {"putplayer", "putarena"} => Put(m.owner, m.arena) /\ UNCHANGED mem
        /\ mainq' = Append(mainq, m.owner)
    BY <1>1, <1>4, <2>1 DEF DBCommand, Unowned
  <2> HIDE DEF m
  <2>3. \A q : q # m.owner => (Unanswered(q)' <=> Unanswered(q))
    BY <2>1, <2>2, AnswersAppended
  <2>4. CASE x[1] # m.owner
    <3>1. Saved(x)
      BY <1>1, <2>3, <2>4 DEF Saved
    <3>2. mem'[x] = mem[x]
      BY <2>1, <2>2, <2>4 DEF Get, TypeOK
    <3>3. Untouching(x)
      <4>1. CASE UNCHANGED db
        BY <4>1 DEF Untouching, Untouched
      <4>2. CASE Put(m.owner, m.arena)
        <5>1. IF x[1] = m.owner /\ InScope(x[2], m.arena)
              THEN Stores(x) /\ ArenaOf(x) = m.arena
              ELSE Untouching(x)
          BY <2>1, <4>2, PutStores
        <5> QED
          BY <2>4, <5>1
      <4> QED
        BY <2>1, <2>2, <4>1, <4>2
    <3> QED
      BY <1>1, <1>2, <3>1, <3>2, <3>3, SavedKept
  <2>5. CASE x[1] = m.owner
    <3>1. /\ x[1] \in Players /\ x[2].scope = "allarenas" /\ status[x[1]] = "wait_arena_sync2"
          /\ x[1] \notin Arenas
      BY <1>1, AccountsAre DEF Saved
    <3>2. m.command = "putplayer" /\ m.arena = arena[x[1]]
      BY <2>1, <2>5, <3>1 DEF PlayerAsks, ArenaAsks
    <3>3. m.arena # None
      BY <3>1, <3>2 DEF QueueInv, HasArena, InArena
    <3>4. InScope(x[2], m.arena)
      BY <3>1, <3>3 DEF InScope
    <3>5. IF x[1] = m.owner /\ InScope(x[2], m.arena)
          THEN Stores(x) /\ ArenaOf(x) = m.arena
          ELSE Untouching(x)
      BY <2>1, <2>2, <3>2, PutStores
    <3>6. mem' = mem /\ Stores(x)
      BY <2>2, <2>5, <3>2, <3>4, <3>5
    <3>7. KeyOf(x)' = KeyOf(x)
      BY <1>1 DEF KeyOf, CurrentKey, ArenaOf, ArenaGroup, Key
    <3> DEFINE k == KeyOf(x)
    <3>8. mem[x] = IF k \in DOMAIN db' THEN db'[k] ELSE 0
      BY <3>6, StoredIs
    <3>9. mem'[x] = RecordOf(KeyOf(x))'
      BY <3>6, <3>7, <3>8 DEF RecordOf
    <3> QED
      BY <1>2, <3>9 DEF SavedAs
  <2> QED
    BY <2>4, <2>5
<1> QED
  BY <1>3, <1>4


\* The thread goes through the players: those who have been saved are among them.
LEMMA SavedEndStart ==
    ASSUME TypeOK, QueueInv, SavedFits, EndStart, NEW x \in Accounts
    PROVE  Saved(x)' => SavedAs(x)'
<1> SUFFICES ASSUME Saved(x)' PROVE SavedAs(x)'
  OBVIOUS
<1> DEFINE m == NextMessage
<1>1. /\ ending' = [ag |-> m.ag, interval |-> m.interval,
                    serialno |-> serial[<<m.ag, m.interval>>],
                    phase |-> "players", todo |-> EndedPlayers(m), stored |-> {}]
      /\ ending = None /\ UNCHANGED <<status, arena, serial, mem, db, mainq>>
  BY DEF EndStart
<1> HIDE DEF m
<1>2. Saved(x)
  BY <1>1 DEF Saved, Unanswered
<1>3. ~Cleared(x)
  BY <1>1 DEF Cleared
<1>4. ASSUME Cleared(x)' PROVE FALSE
  <2>1. /\ x[2].interval = m.interval /\ ArenaGroup(arena[x[1]], m.interval) = m.ag
        /\ x \notin EndedPlayers(m)
    BY <1>1, <1>4 DEF Cleared, ArenaGroup
  <2>2. /\ x[1] \in Players /\ x[2].scope = "allarenas" /\ status[x[1]] = "wait_arena_sync2"
        /\ arena[x[1]] # None /\ arena[x[1]] \in Arenas \cup {None}
    BY <1>2 DEF Saved, QueueInv, HasArena, InArena, TypeOK
  <2>3. m.ag # Global
    BY <2>1, <2>2, GroupsAre
  <2>4. InRange(x[1], m.ag)
    BY <2>2, <2>3, InRangeAre DEF Statuses, InArena
  <2> QED
    BY <2>1, <2>2, <2>3, <2>4 DEF EndedPlayers, Ends
<1>5. Untouching(x)
  BY <1>1 DEF Untouching, Untouched
<1> QED
  BY <1>1, <1>2, <1>3, <1>4, <1>5, SavedKept

LEMMA SavedEndStore ==
    ASSUME TypeOK, QueueInv, StandsFit, EndingFits, 
           SavedFits, EndStore, NEW x \in Accounts, Own(x)
    PROVE  Saved(x)' => SavedAs(x)'
<1> SUFFICES ASSUME Saved(x)' PROVE SavedAs(x)'
  OBVIOUS
<1>1. /\ ending \in Endings /\ ending # None /\ ending.stored = {}
      /\ UNCHANGED <<status, arena, mem, serial, mainq>>
      /\ ending'.ag = ending.ag /\ ending'.interval = ending.interval /\ ending' # None
  BY EndingStays DEF EndStore, TypeOK
<1>2. PICK y \in ending.todo :
          /\ ending' = [ending EXCEPT !.todo = @ \ {y}, !.stored = {y}]
          /\ db' = PutThese({<<y, IF y[1] \in Players THEN arena[y[1]] ELSE y[1]>>})
  BY DEF EndStore
<1>3. ending'.todo \cup ending'.stored = ending.todo \cup ending.stored
  BY <1>1, <1>2 DEF Endings
<1>4. Saved(x)
  BY <1>1 DEF Saved, Unanswered
<1>5. Cleared(x)' <=> Cleared(x)
  BY <1>1, <1>3 DEF Cleared, ArenaGroup
<1>6. IF x = y /\ ArenaOf(y) # None THEN Stores(x) ELSE Untouching(x)
  BY <1>1, <1>2, EndStoreStores
<1>7. CASE Untouching(x)
  BY <1>1, <1>4, <1>5, <1>7, SavedKept
<1>8. CASE x = y /\ Stores(x)
  <2>1. ~Cleared(x)'
    BY <1>2, <1>5, <1>8 DEF Cleared
  <2>2. KeyOf(x)' = KeyOf(x)
    BY <1>1 DEF KeyOf, CurrentKey, ArenaOf, ArenaGroup, Key
  <2> DEFINE k == KeyOf(x)
  <2>3. mem[x] = IF k \in DOMAIN db' THEN db'[k] ELSE 0
    BY <1>8, StoredIs
  <2>4. mem'[x] = RecordOf(KeyOf(x))'
    BY <1>1, <2>2, <2>3 DEF RecordOf
  <2> QED
    BY <2>1, <2>4 DEF SavedAs
<1> QED
  BY <1>6, <1>7, <1>8

LEMMA SavedEndClear ==
    ASSUME TypeOK, EndingFits, StoredFits, SavedFits, EndClear, NEW x \in Accounts
    PROVE  Saved(x)' => SavedAs(x)'
<1> SUFFICES ASSUME Saved(x)' PROVE SavedAs(x)'
  OBVIOUS
<1>1. /\ ending \in Endings /\ ending # None
      /\ UNCHANGED <<status, arena, db, serial, mainq>>
      /\ ending' = [ending EXCEPT !.stored = {}]
      /\ ending'.ag = ending.ag /\ ending'.interval = ending.interval /\ ending' # None
  BY EndingStays DEF EndClear, TypeOK
<1>2. PICK y \in ending.stored : mem' = [mem EXCEPT ![y] = 0]
  BY DEF EndClear
<1>3. ending'.stored = {} /\ ending'.todo = ending.todo
  BY <1>1 DEF Endings
<1>4. Saved(x)
  BY <1>1 DEF Saved, Unanswered
<1>5. CASE x = y
  <2>1. mem'[x] = 0
    BY <1>2, <1>5 DEF TypeOK
  <2>2. /\ x[2].interval = ending.interval
        /\ ArenaGroup(arena[x[1]], x[2].interval) = ending.ag
        /\ x \notin ending.todo
    BY <1>1, <1>2, <1>4, <1>5 DEF StoredFits, EndingFits, Ends, Saved
  <2>3. Cleared(x)'
    BY <1>1, <1>3, <2>2 DEF Cleared, ArenaGroup
  <2> QED
    BY <2>1, <2>3 DEF SavedAs
<1>6. CASE x # y
  <2>1. mem'[x] = mem[x]
    BY <1>2, <1>6 DEF TypeOK
  <2>2. x \notin ending.stored
    BY <1>1, <1>2, <1>6 DEF EndingFits
  <2>3. Cleared(x)' <=> Cleared(x)
    BY <1>1, <1>3, <2>2 DEF Cleared, ArenaGroup
  <2>4. Untouching(x)
    BY <1>1 DEF Untouching, Untouched
  <2> QED
    BY <1>1, <1>4, <2>1, <2>3, <2>4, SavedKept
<1> QED
  BY <1>5, <1>6

LEMMA SavedEndArenas ==
    ASSUME TypeOK, SavedFits, EndArenas, NEW x \in Accounts
    PROVE  Saved(x)' => SavedAs(x)'
<1> SUFFICES ASSUME Saved(x)' PROVE SavedAs(x)'
  OBVIOUS
<1>1. /\ ending \in Endings /\ ending # None /\ ending.todo = {} /\ ending.stored = {}
      /\ UNCHANGED <<status, arena, mem, db, serial, mainq>>
      /\ ending' = [ending EXCEPT !.phase = "arenas", !.todo = EndedArenas(ending)]
      /\ ending'.ag = ending.ag /\ ending'.interval = ending.interval /\ ending' # None
  BY EndingStays DEF EndArenas, Stage, TypeOK
<1>2. ending'.stored = {} /\ ending'.todo = EndedArenas(ending)
  BY <1>1 DEF Endings
<1>3. Saved(x)
  BY <1>1 DEF Saved, Unanswered
<1>4. x \notin EndedArenas(ending)
  BY <1>3, PersistAssumption DEF EndedArenas, Saved
<1>5. Cleared(x)' <=> Cleared(x)
  BY <1>1, <1>2, <1>4 DEF Cleared, ArenaGroup
<1>6. Untouching(x)
  BY <1>1 DEF Untouching, Untouched
<1> QED
  BY <1>1, <1>3, <1>5, <1>6, SavedKept

\* The new interval has no records yet.
LEMMA NextIsNew ==
    ASSUME TypeOK, EndingFits, RecordsOld, ending # None, NEW k,
           k.ag = ending.ag, k.data.interval = ending.interval,
           k.serialno = ending.serialno + 1
    PROVE  k \notin DOMAIN db
<1>1. /\ ending.serialno \in Nat /\ ending.serialno = serial[<<k.ag, k.data.interval>>]
  BY DEF TypeOK, Endings, EndingFits
<1>2. k \in DOMAIN db => k.serialno <= serial[<<k.ag, k.data.interval>>]
  BY DEF RecordsOld
<1> QED
  BY <1>1, <1>2

LEMMA SavedEndFinish ==
    ASSUME TypeOK, QueueInv, EndingFits, RecordsOld, SavedFits, EndFinish, NEW x \in Accounts
    PROVE  Saved(x)' => SavedAs(x)'
<1> SUFFICES ASSUME Saved(x)' PROVE SavedAs(x)'
  OBVIOUS
<1> DEFINE ended == <<ending.ag, ending.interval>>
           k == KeyOf(x)
           j == CurrentKey(x[1], x[2], ArenaOf(x))'
<1>1. /\ ending \in Endings /\ ending # None /\ ending.todo = {} /\ ending.stored = {}
      /\ UNCHANGED <<status, arena, mem, db, mainq>> /\ ending' = None
      /\ ended \in Groups \X Intervals
      /\ serial' = [serial EXCEPT ![ended] = ending.serialno + 1]
  BY DEF EndFinish, Stage, TypeOK, Endings
<1>2. Saved(x) /\ x \notin ending.todo \cup ending.stored
  BY <1>1 DEF Saved, Unanswered
<1>3. SavedAs(x)
  BY <1>2 DEF SavedFits, SavedAs
<1>4. ~Cleared(x)'
  BY <1>1 DEF Cleared
<1>5. x[1] \notin Arenas /\ x[2].scope # "global"
  BY <1>2, AccountsAre DEF Saved
<1>6. ArenaOf(x) = arena[x[1]] /\ ArenaOf(x)' = arena[x[1]]
  BY <1>1, <1>5 DEF ArenaOf
<1>7. /\ k.ag = ArenaGroup(arena[x[1]], x[2].interval) /\ k.data = x[2]
      /\ k.serialno = serial[<<k.ag, x[2].interval>>]
      /\ <<k.ag, x[2].interval>> \in Groups \X Intervals
  <2>1. k.ag \in Groups
    BY KeyOfIs DEF Keys
  <2> QED
    BY <1>6, <2>1, KeyOfIs, AccountsAre
<1>8. /\ KeyOf(x)'.who = k.who /\ KeyOf(x)'.ag = k.ag /\ KeyOf(x)'.data = k.data
      /\ KeyOf(x)'.serialno = serial'[<<k.ag, x[2].interval>>]
  BY <1>6, <1>7 DEF KeyOf, CurrentKey, Key, ArenaGroup
<1>9. CASE <<k.ag, x[2].interval>> = ended
  <2>1. Cleared(x)
    BY <1>1, <1>2, <1>7, <1>9 DEF Cleared
  <2>2. mem'[x] = 0
    BY <1>1, <1>3, <2>1 DEF SavedAs
  <2>3. serial'[ended] = ending.serialno + 1
    BY <1>1 DEF TypeOK
  <2>4. KeyOf(x)' \notin DOMAIN db
    <3> DEFINE n == KeyOf(x)'
    <3>1. /\ n.ag = ending.ag /\ n.data.interval = ending.interval
          /\ n.serialno = ending.serialno + 1
      BY <1>7, <1>8, <1>9, <2>3
    <3> HIDE DEF n
    <3>2. n \notin DOMAIN db
      BY <1>1, <3>1, NextIsNew
    <3> QED
      BY <3>2 DEF n
  <2> QED
    BY <1>1, <1>4, <2>2, <2>4 DEF SavedAs, RecordOf
<1>10. CASE <<k.ag, x[2].interval>> # ended
  <2>1. ~Cleared(x)
    BY <1>7, <1>10 DEF Cleared
  <2>2. serial'[<<k.ag, x[2].interval>>] = serial[<<k.ag, x[2].interval>>]
    BY <1>1, <1>7, <1>10 DEF TypeOK
  <2>3. KeyOf(x)' = KeyOf(x)
    BY <1>1, <1>6, <1>7, <2>2 DEF KeyOf, CurrentKey, Key, ArenaGroup
  <2>4. RecordOf(KeyOf(x))' = RecordOf(KeyOf(x))
    BY <1>1, <2>3 DEF RecordOf
  <2> QED
    BY <1>1, <1>3, <1>4, <2>1, <2>4 DEF SavedAs
<1> QED
  BY <1>9, <1>10

LEMMA SavedNext ==
    ASSUME TypeOK, QueueInv, StandsFit, EndingFits, 
           RecordsOld, StoredFits, SavedFits, [Next]_vars
    PROVE  SavedFits'
<1> SUFFICES ASSUME NEW x \in Accounts, Own(x)
             PROVE  Saved(x)' => SavedAs(x)'
  BY DEF SavedFits, SavedAs, Saved, Own
<1>1. CASE UNCHANGED <<status, arena, mem, db, serial, mainq, ending>>
  <2>1. Saved(x)' => Saved(x) /\ arena'[x[1]] = arena[x[1]]
    BY <1>1 DEF Saved, Unanswered
  <2> QED
    BY <1>1, <2>1, SavedUnchanged
<1>2. CASE \E p \in Players : Login(p) \/ EnterArena(p) \/ SaveArena(p) \/ SaveGlobal(p) \/ Moves(p)
  BY <1>2, SavedPlayers
<1>3. CASE \E a \in Arenas : ArenaCreated(a) \/ ArenaLoads(a) \/ ArenaSaves(a)
  BY <1>1, <1>3 DEF ArenaCreated, ArenaLoads, ArenaSaves
<1>4. CASE Synced
  BY <1>4, SavedSynced
<1>5. CASE \E y \in Accounts : Score(y)
  BY <1>5, SavedScore
<1>6. CASE \/ SyncTimer
           \/ \E ag \in Groups, interval \in Intervals : EndInterval(ag, interval)
  BY <1>1, <1>6 DEF SyncTimer, EndInterval, Ask
<1>7. CASE DBCommand
  BY <1>7, SavedDBCommand
<1>8. CASE EndStart
  BY <1>8, SavedEndStart
<1>9. CASE EndStore
  BY <1>9, SavedEndStore
<1>10. CASE EndClear
  BY <1>10, SavedEndClear
<1>11. CASE EndArenas
  BY <1>11, SavedEndArenas
<1>12. CASE EndFinish
  BY <1>12, SavedEndFinish
<1>13. UNCHANGED vars => UNCHANGED <<status, arena, mem, db, serial, mainq, ending>>
  BY DEF vars
<1> QED
  BY <1>1, <1>2, <1>3, <1>4, <1>5, <1>6, <1>7, <1>8, <1>9, <1>10, <1>11, <1>12, <1>13
  DEF Next, DBThread

----------------------------------------------------------------------------
(* Every point is counted once.                                            *)

IsCounted(x) == AccountedFor(x) = scored[x] \/ x \in spoiled

\* It is the same whether a record is counted or what it says.
LEMMA TotalWhole ==
    ASSUME NEW g, NEW S, IsFiniteSet(S), \A j \in S : g[j] \in Nat, NEW k,
           NEW h, h = IF k \in S THEN g[k] ELSE 0
    PROVE  Total(h, g, S \ {k}) = Total(0, g, S)
<1>1. CASE k \in S
  <2>1. Total(g[k], g, S \ {k}) = Total(0, g, S)
    BY <1>1, TotalTaken
  <2>2. h = g[k]
    BY <1>1
  <2> QED
    BY <2>1, <2>2
<1>2. CASE k \notin S
  <2>1. S \ {k} = S /\ h = 0
    BY <1>2
  <2> QED
    BY <2>1
<1> QED
  BY <1>1, <1>2

\* An account whose data is not held, or is held as the record has it.
LEMMA AccountStored ==
    ASSUME TypeOK, RecordsFew, NEW x \in Accounts, Own(x), NEW k, k = standsFor[x],
           k = NoKey \/ (Names(k, x) /\ mem[x] = RecordOf(k))
    PROVE  AccountedFor(x) = Total(0, db, Records(x))
<1> DEFINE S == Records(x)
           h == Held(x)
<1>1. IsFiniteSet(S) /\ \A j \in S : db[j] \in Nat
  BY RecordsCount
<1>2. h = IF k \in S THEN db[k] ELSE 0
  <2>1. k \in S <=> k \in DOMAIN db /\ Names(k, x)
    BY DEF Records
  <2>2. CASE k = NoKey
    BY <2>1, <2>2, NoKeyIsNoRecord DEF Held
  <2>3. CASE k # NoKey
    BY <2>1, <2>3 DEF Held, RecordOf
  <2> QED
    BY <2>2, <2>3
<1>3. AccountedFor(x) = Total(h, db, S \ {k})
  BY AccountedIs, OthersAre
<1> HIDE DEF S, h
<1>4. Total(h, db, S \ {k}) = Total(0, db, S)
  BY <1>1, <1>2, TotalWhole
<1> QED
  BY <1>3, <1>4 DEF S

LEMMA AccountStoredNext ==
    ASSUME TypeOK', RecordsFew', NEW x \in Accounts, Own(x), NEW k, k = standsFor'[x],
           \/ k = NoKey
           \/ Names(k, x) /\ mem'[x] = IF k \in DOMAIN db' THEN db'[k] ELSE 0
    PROVE  AccountedFor(x)' = Total(0, db', Records(x)')
<1> DEFINE S == Records(x)'
           h == Held(x)'
<1>1. S = {j \in DOMAIN db' : Names(j, x)}
  BY NamesStay
<1>2. IsFiniteSet(S) /\ \A j \in S : db'[j] \in Nat
  BY <1>1 DEF RecordsFew, TypeOK
<1>3. h = IF k \in S THEN db'[k] ELSE 0
  <2>1. CASE k = NoKey
    <3>1. NoKey \notin Keys
      BY PersistAssumption DEF NoKey, Key, Keys, Groups
    <3> QED
      BY <1>1, <2>1, <3>1 DEF Held, TypeOK
  <2>2. CASE k # NoKey
    BY <1>1, <2>2 DEF Held
  <2> QED
    BY <2>1, <2>2
<1>4. AccountedFor(x)' = Total(h, db', S \ {k})
  BY AccountedIs, OthersAre
<1> HIDE DEF S, h
<1>5. Total(h, db', S \ {k}) = Total(0, db', S)
  BY <1>2, <1>3, TotalWhole
<1> QED
  BY <1>4, <1>5 DEF S

\* Steps that change what an account holds only if it stands for nothing, and its
\* records only if they are what is held.
LEMMA CountedSame ==
    ASSUME TypeOK, RecordsFew, Counted, NEW x \in Accounts, Own(x),
           spoiled \subseteq spoiled', scored'[x] = scored[x],
           standsFor'[x] = standsFor[x],
           mem'[x] = mem[x] \/ standsFor[x] = NoKey,
           \A k : Names(k, x) => k = standsFor[x] \/ Untouched(k)
    PROVE  IsCounted(x)'
<1>1. Held(x)' = Held(x)
  BY DEF Held
<1>2. AccountedFor(x)' = AccountedFor(x)
  BY <1>1, SameAccount
<1> QED
  BY <1>2 DEF Counted, IsCounted

LEMMA CountedScore ==
    ASSUME TypeOK, StandsFit, RecordsFew, Counted, NEW y \in Accounts, Score(y),
           NEW x \in Accounts, Own(x)
    PROVE  IsCounted(x)'
<1>1. /\ UNCHANGED <<db, standsFor>> /\ spoiled \subseteq spoiled'
      /\ mem' = [mem EXCEPT ![y] = @ + 1] /\ scored' = [scored EXCEPT ![y] = @ + 1]
  BY DEF Score
<1>2. Untouching(x)
  BY <1>1 DEF Untouching, Untouched
<1>3. CASE x # y
  <2>1. mem'[x] = mem[x] /\ scored'[x] = scored[x]
    BY <1>1, <1>3 DEF TypeOK
  <2> QED
    BY <1>1, <1>2, <2>1, CountedSame DEF Untouching
<1>4. CASE x = y
  <2>1. mem'[x] = mem[x] + 1 /\ scored'[x] = scored[x] + 1
    BY <1>1, <1>4 DEF TypeOK
  <2>2. Holds(x)
    BY <1>4, AccountsAre DEF Score, Holds, HoldsGlobal, HoldsArena, ArenaHolds, InArena,
       Scopes, Owners
  <2>3. standsFor[x] # NoKey
    BY <2>2 DEF StandsFit, StandsFor
  <2>4. Held(x)' = Held(x) + 1
    BY <1>1, <2>1, <2>3 DEF Held
  <2>5. OtherRecords(x)' = OtherRecords(x)
    BY <1>1 DEF OtherRecords, ArenaGroup
  <2> DEFINE h == Held(x)  S == OtherRecords(x)
  <2>6. h \in Nat /\ IsFiniteSet(S) /\ \A k \in S : db[k] \in Nat
    BY RecordsCount
  <2>7. AccountedFor(x) = Total(h, db, S) /\ AccountedFor(x)' = Total(h + 1, db, S)
    BY <1>1, <2>4, <2>5, AccountedIs
  <2> HIDE DEF h, S
  <2>8. Total(h + 1, db, S) = Total(h, db, S) + 1
    BY <2>6, TotalMore
  <2> QED
    BY <1>1, <2>1, <2>7, <2>8 DEF Counted, IsCounted
<1> QED
  BY <1>3, <1>4

LEMMA CountedSynced ==
    ASSUME TypeOK, StandsFit, RecordsFew, Counted, Synced, NEW x \in Accounts, Own(x)
    PROVE  IsCounted(x)'
<1> DEFINE o == Head(mainq)
<1>1. /\ mainq \in Seq(Owners) /\ mainq # <<>>
      /\ UNCHANGED <<db, scored, standsFor, spoiled>>
  BY DEF Synced, TypeOK
<1>2. 1 \in DOMAIN mainq /\ mainq[1] = o
  BY <1>1, TailIs
<1>3. o \in Owners /\ ~Unanswered(o)
  BY <1>1, <1>2 DEF Unanswered
<1> HIDE DEF o
<1>4. Untouching(x)
  BY <1>1 DEF Untouching, Untouched
<1>5. mem'[x] = mem[x] \/ standsFor[x] = NoKey
  <2>1. CASE o \in Players
    BY <2>1 DEF Synced, PlayerSynced, o
  <2>2. CASE o \notin Players
    <3>1. ArenaSynced(o) /\ o \in Arenas
      BY <1>3, <2>2 DEF Synced, Owners, o
    <3>2. \/ mem' = mem
          \/ /\ astatus[o] = "wait_sync2"
             /\ mem' = [z \in Accounts |-> IF z[1] = o THEN 0 ELSE mem[z]]
      BY <3>1 DEF ArenaSynced, AGoes
    <3>3. CASE astatus[o] = "wait_sync2" /\ x[1] = o
      <4>1. ~Holds(x)
        BY <1>3, <3>1, <3>3, AccountsAre DEF Holds, ArenaHolds
      <4> QED
        BY <4>1 DEF StandsFit, StandsFor
    <3>4. CASE x[1] # o
      BY <3>2, <3>4
    <3> QED
      BY <3>2, <3>3, <3>4
  <2> QED
    BY <2>1, <2>2
<1> QED
  BY <1>1, <1>4, <1>5, CountedSame DEF Untouching

LEMMA CountedDBCommand ==
    ASSUME TypeOK, TypeOK', QueueInv, StandsFit, DataIsCurrent, RecordsFew,
           RecordsFew', NotAhead, Counted, DBCommand, NEW x \in Accounts, Own(x)
    PROVE  IsCounted(x)'
<1>1. /\ ending = None /\ dbq # <<>> /\ NextMessage.command # "end"
      /\ UNCHANGED <<status, arena, astatus, serial, scored, spoiled>>
  BY DEF DBCommand
<1> SUFFICES ASSUME x \notin spoiled PROVE AccountedFor(x)' = scored'[x]
  BY <1>1 DEF IsCounted
<1>2. AccountedFor(x) = scored[x]
  BY DEF Counted
<1>3. CASE NextMessage.command = "putall"
  <2>1. PutAll /\ UNCHANGED <<mem, standsFor>>
    BY <1>3 DEF DBCommand
  <2>2. CASE Untouching(x)
    BY <1>1, <2>1, <2>2, CountedSame DEF Untouching, IsCounted
  <2>3. CASE Stores(x) /\ Holds(x)
    <3>1. standsFor[x] # NoKey
      BY <2>3 DEF StandsFit, StandsFor
    <3>2. standsFor[x] = KeyOf(x)
      BY <1>1, <3>1, StandsForKey
    <3>3. \A k : Names(k, x) => k = standsFor[x] \/ Untouched(k)
      BY <2>3, <3>2 DEF Stores
    <3>4. IsCounted(x)'
      BY <1>1, <2>1, <3>3, CountedSame
    <3> QED
      BY <1>1, <3>4 DEF IsCounted
  <2> QED
    BY <2>1, <2>2, <2>3, PutAllStores
<1>4. CASE NextMessage.command # "putall"
  <2> DEFINE m == NextMessage
  <2>1. /\ m \in Messages /\ (PlayerAsks(m) \/ ArenaAsks(m))
        /\ m.command \in {"getplayer", "getarena", "putplayer", "putarena"}
        /\ Unanswered(m.owner) /\ m.owner \in Owners
    BY <1>1, <1>4, Asked DEF Unowned
  <2>2. /\ m.command \in {"getplayer", "getarena"} => Get(m.owner, m.arena) /\ UNCHANGED db
        /\ m.command \in {"putplayer", "putarena"} => Put(m.owner, m.arena) /\ UNCHANGED mem
    BY <1>1, <1>4, <2>1 DEF DBCommand, Unowned
  <2> HIDE DEF m
  <2> DEFINE Mine == x[1] = m.owner /\ InScope(x[2], m.arena)
  <2>3. CASE m.command \in {"getplayer", "getarena"}
    <3>1. Get(m.owner, m.arena) /\ UNCHANGED db
      BY <2>2, <2>3
    <3>2. CASE ~Mine
      <4>1. mem'[x] = mem[x] /\ standsFor'[x] = standsFor[x]
        BY <3>1, <3>2 DEF Get
      <4>2. Untouching(x)
        BY <3>1 DEF Untouching, Untouched
      <4> QED
        BY <1>1, <4>1, <4>2, CountedSame DEF Untouching, IsCounted
    <3>3. CASE Mine
      <4>1. ArenaOf(x) = m.arena
        BY <2>1, <3>3, AsksOf
      <4>2. standsFor[x] = NoKey
        <5>1. ~Holds(x)
          BY <2>1, <2>3, <3>3, AsksOf
        <5> QED
          BY <5>1 DEF StandsFit, StandsFor
      <4>3. AccountedFor(x) = Total(0, db, Records(x))
        BY <4>2, AccountStored
      <4> DEFINE k == KeyOf(x)
      <4>4. standsFor'[x] = k /\ mem'[x] = IF k \in DOMAIN db' THEN db'[k] ELSE 0
        BY <3>1, <3>3, <4>1 DEF Get, KeyOf, Loaded, RecordOf
      <4>5. Names(k, x)
        BY KeyOfIs
      <4> HIDE DEF k
      <4>6. AccountedFor(x)' = Total(0, db', Records(x)')
        BY <4>4, <4>5, AccountStoredNext
      <4>7. Records(x)' = Records(x)
        BY <3>1, NamesStay
      <4> QED
        BY <1>1, <1>2, <3>1, <4>3, <4>6, <4>7
    <3> QED
      BY <3>2, <3>3
  <2>4. CASE m.command \in {"putplayer", "putarena"}
    <3>1. Put(m.owner, m.arena) /\ UNCHANGED mem
      BY <2>2, <2>4
    <3>2. IF Mine THEN Stores(x) /\ ArenaOf(x) = m.arena ELSE Untouching(x)
      BY <2>1, <3>1, PutStores
    <3>3. CASE ~Mine
      <4>1. standsFor'[x] = standsFor[x] /\ Untouching(x)
        BY <3>1, <3>2, <3>3 DEF Put
      <4> QED
        BY <1>1, <3>1, <4>1, CountedSame DEF Untouching, IsCounted
    <3>4. CASE Mine
      <4>1. Stores(x) /\ standsFor'[x] = NoKey
        BY <3>1, <3>2, <3>4 DEF Put
      <4>2. standsFor[x] # NoKey
        <5>1. Holds(x)
          BY <2>1, <2>4, <3>4, AsksOf
        <5> QED
          BY <5>1 DEF StandsFit, StandsFor
      <4>3. standsFor[x] = KeyOf(x)
        BY <1>1, <4>2, StandsForKey
      <4> DEFINE k == KeyOf(x)
                 h == mem[x]
                 R == Records(x) \ {k}
                 S == Records(x)'
      <4>4. AccountedFor(x) = Total(h, db, R)
        BY <4>2, <4>3, AccountedIs, OthersAre DEF Held
      <4>5. IsFiniteSet(R) /\ Agree(db, db', R) /\ R = S \ {k}
        <5>1. IsFiniteSet(R)
          BY RecordsCount, FS_Subset
        <5>2. Agree(db, db', R)
          BY <4>1, NamesStay DEF Stores, Untouched, Agree
        <5>3. R = S \ {k}
          BY <4>1, NamesStay DEF Stores, Untouched
        <5> QED
          BY <5>1, <5>2, <5>3
      <4>6. IsFiniteSet(S) /\ \A j \in S : db'[j] \in Nat
        BY NamesStay DEF RecordsFew, TypeOK
      <4>7. h = IF k \in S THEN db'[k] ELSE 0
        <5>1. k \in S <=> k \in DOMAIN db'
          BY NamesStay, KeyOfIs
        <5> QED
          BY <4>1, <5>1, StoredIs
      <4>8. AccountedFor(x)' = Total(0, db', S)
        BY <4>1, AccountStoredNext
      <4> HIDE DEF k, h, R, S
      <4>9. Total(h, db, R) = Total(h, db', R)
        <5>1. h \in Nat /\ \A j \in R : db[j] \in Nat
          BY <4>5, <4>6, <4>7 DEF Agree
        <5> QED
          BY <4>5, <5>1, TotalSame
      <4>10. Total(h, db', S \ {k}) = Total(0, db', S)
        BY <4>6, <4>7, TotalWhole
      <4> QED
        BY <1>1, <1>2, <4>4, <4>5, <4>8, <4>9, <4>10
    <3> QED
      BY <3>3, <3>4
  <2> QED
    BY <2>1, <2>3, <2>4
<1> QED
  BY <1>3, <1>4

LEMMA CountedEndStore ==
    ASSUME TypeOK, QueueInv, StandsFit, DataIsCurrent, EndingFits, 
           NotAhead, StoredFits, SavedFits, RecordsFew, Counted, EndStore, NEW x \in Accounts, Own(x)
    PROVE  IsCounted(x)'
<1>1. /\ ending \in Endings /\ ending # None /\ ending.stored = {}
      /\ UNCHANGED <<status, arena, mem, serial, scored, standsFor>> /\ spoiled \subseteq spoiled'
  BY DEF EndStore, TypeOK
<1> SUFFICES ASSUME x \notin spoiled' PROVE IsCounted(x)'
  BY DEF IsCounted
<1>2. PICK y \in ending.todo :
          LET a == IF y[1] \in Players THEN arena[y[1]] ELSE y[1]
          IN  /\ db' = PutThese({<<y, a>>})
              /\ y[1] \in Arenas /\ standsFor[y] = NoKey
                 /\ mem[y] # RecordOf(CurrentKey(y[1], y[2], a)) => y \in spoiled'
  BY DEF EndStore
<1>3. /\ y \in Accounts
      /\ x = y => /\ y[2].scope = "allarenas" /\ ending.ag # Global
                  /\ ArenaOf(y) = IF y[1] \in Players THEN arena[y[1]] ELSE y[1]
      /\ IF x = y /\ ArenaOf(y) # None THEN Stores(x) ELSE Untouching(x)
  BY <1>1, <1>2, EndStoreStores
<1>4. CASE Untouching(x)
  BY <1>1, <1>4, CountedSame DEF Untouching
<1>5. CASE x = y /\ Stores(x) /\ standsFor[x] # NoKey
  <2>1. standsFor[x] = KeyOf(x)
    BY <1>1, <1>2, <1>5, StandsForKey
  <2>2. \A k : Names(k, x) => k = standsFor[x] \/ Untouched(k)
    BY <1>5, <2>1 DEF Stores
  <2> QED
    BY <1>1, <2>2, CountedSame
<1>6. CASE x = y /\ Stores(x) /\ standsFor[x] = NoKey
  <2>1. mem[x] = RecordOf(KeyOf(x))
    <3>1. CASE x[1] \in Arenas
      BY <1>2, <1>3, <1>6, <3>1 DEF KeyOf
    <3>2. CASE x[1] \notin Arenas
      <4>1. x[1] \in Players
        BY <3>2, AccountsAre
      <4>2. status[x[1]] \in InArena \ {"wait_arena_sync1"}
        BY <1>1, <1>2, <1>3, <1>6, <4>1 DEF StoredFits
      <4>3. ~Holds(x)
        BY <1>6 DEF StandsFit, StandsFor
      <4>4. status[x[1]] = "wait_arena_sync2" /\ ~Unanswered(x[1])
        BY <1>3, <1>6, <4>1, <4>2, <4>3 DEF Holds, HoldsArena
      <4>5. Saved(x) /\ ~Cleared(x)
        BY <1>2, <1>3, <1>6, <4>1, <4>4 DEF Saved, Cleared
      <4> QED
        BY <4>5 DEF SavedFits
    <3> QED
      BY <3>1, <3>2
  <2> DEFINE k == KeyOf(x)
  <2>2. /\ k \in DOMAIN db => mem[x] = db[k] /\ db[k] \in Nat \ {0}
        /\ k \notin DOMAIN db => mem[x] = 0
    BY <2>1 DEF RecordOf, TypeOK
  <2>3. k \in DOMAIN db => mem[x] > 0
    BY <2>2
  <2>4. Names(k, x)
    BY KeyOfIs
  <2> HIDE DEF k
  <2>5. /\ k \in DOMAIN db' <=> mem[x] > 0
        /\ k \in DOMAIN db' => db'[k] = mem[x]
        /\ \A j : Names(j, x) => j = k \/ Untouched(j)
    BY <1>6, <2>4 DEF Stores, k
  <2>6. Untouched(k)
    BY <2>2, <2>3, <2>5 DEF Untouched
  <2>7. Untouching(x)
    BY <2>5, <2>6 DEF Untouching
  <2> QED
    BY <1>4, <2>7
<1> QED
  BY <1>3, <1>4, <1>5, <1>6

LEMMA CountedEndClear ==
    ASSUME TypeOK, TypeOK', StandsFit, EndingFits, StoredFits, RecordsFew, RecordsFew',
           RecordsOld, Counted, EndClear, NEW x \in Accounts, Own(x)
    PROVE  IsCounted(x)'
<1>1. /\ ending \in Endings /\ ending # None
      /\ UNCHANGED <<arena, db, serial, scored, spoiled>>
  BY DEF EndClear, TypeOK
<1>2. PICK y \in ending.stored :
          /\ mem' = [mem EXCEPT ![y] = 0]
          /\ standsFor' = [standsFor EXCEPT ![y] =
                IF @ = NoKey THEN NoKey ELSE [@ EXCEPT !.serialno = ending.serialno + 1]]
  BY DEF EndClear
<1>3. \A k : Names(k, x) => Untouched(k)
  BY <1>1 DEF Untouched
<1>4. CASE x # y \/ standsFor[x] = NoKey
  <2>1. /\ standsFor'[x] = standsFor[x]
        /\ mem'[x] = mem[x] \/ standsFor[x] = NoKey
    BY <1>2, <1>4 DEF TypeOK
  <2> QED
    BY <1>1, <1>3, <2>1, CountedSame
<1>5. CASE x = y /\ standsFor[x] # NoKey
  <2> SUFFICES ASSUME x \notin spoiled PROVE AccountedFor(x)' = scored'[x]
    BY <1>1 DEF IsCounted
  <2> DEFINE k == standsFor[x]
             n == standsFor'[x]
  <2>1. k \in Keys /\ k # NoKey
    BY <1>5, KeysAre
  <2>2. n = [k EXCEPT !.serialno = ending.serialno + 1] /\ mem'[x] = 0
    BY <1>2, <1>5 DEF TypeOK
  <2>3. Stands(x) /\ k.ag = ending.ag /\ mem[x] = RecordOf(k) /\ Ends(x, ending)
    BY <1>1, <1>2, <1>5 DEF StandsFit, StandsFor, EndingFits, StoredFits
  <2>4. Names(k, x)
    BY <2>3, AccountsAre DEF Stands, Names, ArenaOf
  <2>5. /\ n.who = k.who /\ n.ag = k.ag /\ n.data = k.data
        /\ n.serialno = ending.serialno + 1
    BY <2>1, <2>2 DEF Keys
  <2>6. Names(n, x) /\ n.data.interval = ending.interval
    BY <2>3, <2>4, <2>5 DEF Names, Stands, Ends
  <2>7. n \notin DOMAIN db
    <3> HIDE DEF n, k
    <3> QED
      BY <1>1, <2>3, <2>5, <2>6, NextIsNew
  <2>8. AccountedFor(x) = Total(0, db, Records(x))
    <3>1. k = standsFor[x]
      OBVIOUS
    <3> HIDE DEF k
    <3> QED
      BY <2>3, <2>4, <3>1, AccountStored
  <2>9. AccountedFor(x)' = Total(0, db', Records(x)')
    <3>1. n = standsFor'[x]
      OBVIOUS
    <3> HIDE DEF n
    <3>2. mem'[x] = IF n \in DOMAIN db' THEN db'[n] ELSE 0
      BY <1>1, <2>2, <2>7
    <3> QED
      BY <2>6, <3>1, <3>2, AccountStoredNext
  <2>10. Records(x)' = Records(x)
    BY <1>1, NamesStay
  <2> QED
    BY <1>1, <2>8, <2>9, <2>10 DEF Counted
<1> QED
  BY <1>4, <1>5

LEMMA CountedNext ==
    ASSUME TypeOK, TypeOK', QueueInv, StandsFit, DataIsCurrent, EndingFits,
           RecordsFew, RecordsFew', RecordsOld, NotAhead, StoredFits,
           SavedFits, Counted, [Next]_vars
    PROVE  Counted'
<1> SUFFICES ASSUME NEW x \in Accounts, Own(x)
             PROVE  IsCounted(x)'
  BY DEF Counted, IsCounted
<1>1. CASE UNCHANGED <<mem, db, scored, standsFor>> /\ spoiled \subseteq spoiled'
  BY <1>1, CountedSame DEF Untouched
<1>2. CASE \E p \in Players : Login(p) \/ EnterArena(p) \/ SaveArena(p) \/ SaveGlobal(p) \/ Moves(p)
  BY <1>1, <1>2 DEF Login, EnterArena, SaveArena, SaveGlobal, Moves
<1>3. CASE \E a \in Arenas : ArenaCreated(a) \/ ArenaLoads(a) \/ ArenaSaves(a)
  BY <1>1, <1>3 DEF ArenaCreated, ArenaLoads, ArenaSaves
<1>4. CASE Synced
  BY <1>4, CountedSynced
<1>5. CASE \E y \in Accounts : Score(y)
  BY <1>5, CountedScore
<1>6. CASE \/ SyncTimer
           \/ \E ag \in Groups, interval \in Intervals : EndInterval(ag, interval)
  BY <1>1, <1>6 DEF SyncTimer, EndInterval, Ask
<1>7. CASE DBCommand
  BY <1>7, CountedDBCommand
<1>8. CASE EndStart \/ EndArenas \/ EndFinish
  BY <1>1, <1>8 DEF EndStart, EndArenas, EndFinish
<1>9. CASE EndStore
  BY <1>9, CountedEndStore
<1>10. CASE EndClear
  BY <1>10, CountedEndClear
<1>11. UNCHANGED vars => UNCHANGED <<mem, db, scored, standsFor, spoiled>>
  BY DEF vars
<1> QED
  BY <1>1, <1>2, <1>3, <1>4, <1>5, <1>6, <1>7, <1>8, <1>9, <1>10, <1>11 DEF Next, DBThread

----------------------------------------------------------------------------
(* The theorems.                                                           *)

LEMMA PointsInit == Init => PointsInv
<1> SUFFICES ASSUME Init PROVE PointsInv
  OBVIOUS
<1>1. DOMAIN db = {} /\ ending = None /\ dbq = <<>> /\ spoiled = {}
  BY DEF Init
<1>2. SpoiledEnds /\ RecordsOld /\ NotAhead /\ StoredFits
  BY <1>1 DEF Init, SpoiledEnds, RecordsOld, NotAhead, StoredFits
<1>3. RecordsFew
  BY <1>1, FS_EmptySet DEF RecordsFew, Records
<1>4. SavedFits
  BY DEF Init, SavedFits, Saved
<1>5. ASSUME NEW x \in Accounts PROVE AccountedFor(x) = scored[x]
  <2>1. OtherRecords(x) = {} /\ Held(x) = 0 /\ scored[x] = 0
    BY <1>1 DEF Init, OtherRecords, Held
  <2> QED
    BY <2>1, AccountedIs, TotalEmpty
<1>6. Counted
  BY <1>5 DEF Counted
<1> QED
  BY <1>2, <1>3, <1>4, <1>6 DEF PointsInv

LEMMA PointsNext ==
    ASSUME TypeOK, TypeOK', CurrentInv, PointsInv, [Next]_vars
    PROVE  PointsInv'
<1>1. /\ QueueInv /\ StandsFit /\ EndingFits /\ DataIsCurrent
      /\ SpoiledEnds /\ RecordsFew /\ RecordsOld /\ NotAhead
      /\ StoredFits /\ SavedFits /\ Counted
  BY DEF CurrentInv, PointsInv
<1>3. SpoiledEnds'
  BY <1>1, SpoiledEndsNext
<1>4. RecordsFew'
  BY <1>1, RecordsFewNext
<1>5. RecordsOld'
  BY <1>1, RecordsOldNext
<1>6. NotAhead'
  BY <1>1, NotAheadNext
<1>7. StoredFits'
  BY <1>1, StoredNext
<1>8. SavedFits'
  BY <1>1, SavedNext
<1>9. Counted'
  BY <1>1, <1>4, CountedNext
<1> QED
  BY <1>3, <1>4, <1>5, <1>6, <1>7, <1>8, <1>9 DEF PointsInv

\* Every point that is scored for a player, or for an arena that shares no record, is in
\* one record of the database or in the data in memory that will be stored there, whoever
\* comes, goes, moves, is saved or reaped meanwhile: do_end_interval stores before it
\* clears, and what it stores for players who have just been saved is what was saved.
\* Excepted are points of an interval that ends whose owner met a known defect, and data
\* of AG_GLOBAL that ends, which do_end_interval clears without storing it.
THEOREM OwnPointsStay == Spec => []OwnPointsAreConserved
<1>1. PointsInv => OwnPointsAreConserved
  BY DEF PointsInv, Counted, SpoiledEnds, OwnPointsAreConserved
<1>2. TypeOK /\ TypeOK' /\ CurrentInv /\ PointsInv /\ [Next]_vars => PointsInv'
  BY PointsNext
<1> QED
  BY <1>1, <1>2, PointsInit, CurrentInit, CurrentNext, TypeCorrect, PTL DEF Spec

\* So nothing is lost or counted twice if the registered descriptors are like those of the
\* C modules whose data are counts: no data is kept for AG_GLOBAL and ends, and no two
\* arenas share a record.
THEOREM PointsStay ==
    ASSUME \A x \in Accounts : Own(x)
    PROVE  Spec => []PointsAreConserved
<1>1. OwnPointsAreConserved => PointsAreConserved
  BY DEF OwnPointsAreConserved, PointsAreConserved
<1> QED
  BY <1>1, OwnPointsStay, PTL

=============================================================================
