------------------------------ MODULE Persist -------------------------------
(***************************************************************************)
(* persist.c: what becomes of the points that players and arenas score.    *)
(*                                                                         *)
(* Modules keep the data of players and arenas in memory; DBThread moves   *)
(* it to and from the database, one message at a time, under a serial      *)
(* number for each interval.  An interval is ended by storing the data     *)
(* under the old number, clearing it and counting up.  Meanwhile players   *)
(* go through the statuses of core.c, arenas through those of arenaman.c,  *)
(* both reduced here to what persist looks at, and modules score at any    *)
(* time.                                                                   *)
(***************************************************************************)
EXTENDS Naturals, Sequences, FiniteSets, Folds

CONSTANTS
    Players, Arenas,
    Group,          \* the score group of each arena
    PlayerData,     \* the registered descriptors of data about players
    ArenaData,      \* ... and of data about arenas
    Global,         \* AG_GLOBAL
    None,           \* NULL
    MayEnd,         \* bound: the groups and intervals that end
    MaxPoints,      \* bound: points scored for one descriptor of one owner
    MaxSerial,      \* bound: how often each interval ends
    MaxQueue        \* bound: messages in the queue that no player or arena waits for

Scopes == {"global", "allarenas"}
Intervals == {"forever", "reset", "game", "forever_nonshared"}
Shared == {"forever", "reset"}
Lasting == {"forever", "forever_nonshared"}    \* these never end
Descriptors == [key : Nat, scope : Scopes, interval : Intervals]
Groups == {Global} \cup Arenas \cup {Group[a] : a \in Arenas}

ASSUME PersistAssumption ==
    /\ PlayerData \subseteq Descriptors /\ ArenaData \subseteq Descriptors
    /\ \A d \in ArenaData : d.scope = "allarenas"   \* no module registers others
    /\ Global \notin Arenas /\ \A a \in Arenas : Group[a] # Global
    /\ Players \cap Arenas = {} /\ None \notin Players \cup Groups

VARIABLES
    status, arena,  \* p->status, p->arena
    astatus,        \* a->status
    mem,            \* the data that the modules hold
    db,             \* the database: a function from keys to numbers of points
    serial,         \* the current serial number of each group and interval
    dbq,            \* the messages to DBThread
    mainq,          \* the callbacks that wait in the main loop
    ending,         \* the interval DBThread is ending
    scored,         \* history: the points scored
    standsFor,      \* history: the key that data in memory was read for
    spoiled         \* history: owners and descriptors that met a known defect

vars == <<status, arena, astatus, mem, db, serial, dbq, mainq, ending, scored,
          standsFor, spoiled>>

\* In the order of their numbers; several of core.c's are one here.
StatusOrder ==
    <<"out", "wait_global_sync1", "do_global_callbacks", "loggedin",
      "wait_arena_sync1", "arena_resp_and_cbs", "playing", "leaving_arena",
      "do_arena_sync2", "wait_arena_sync2", "leaving_zone", "wait_global_sync2",
      "timewait">>

Number(s) == CHOOSE i \in DOMAIN StatusOrder : StatusOrder[i] = s

AStatuses == {"absent", "created", "wait_sync1", "running", "wait_sync2"}

Owners == Players \cup Arenas
DataOf(o) == IF o \in Players THEN PlayerData ELSE ArenaData
Accounts == {x \in Owners \X (PlayerData \cup ArenaData) : x[2] \in DataOf(x[1])}

----------------------------------------------------------------------------
(* Keys of the database.                                                   *)

\* fill_in_ag
ArenaGroup(a, interval) ==
    IF a = None THEN Global
    ELSE IF interval \in Shared THEN Group[a]
    ELSE a

\* player_record_key and arena_record_key
Key(o, ag, d, number) ==
    [who |-> IF o \in Players THEN o ELSE None, ag |-> ag, data |-> d, serialno |-> number]

InScope(d, a) == (d.scope = "global") <=> (a = None)

\* Mistaken variant: does not ask for the current serial number.
FirstKey(o, d, a) == Key(o, ArenaGroup(a, d.interval), d, 0)

CurrentKey(o, d, a) ==
    LET ag == ArenaGroup(a, d.interval)
    IN  Key(o, ag, d, serial[<<ag, d.interval>>])

NoKey == Key(None, None, None, 0)

----------------------------------------------------------------------------
Init ==
    /\ status = [p \in Players |-> "out"]
    /\ arena = [p \in Players |-> None]
    /\ astatus = [a \in Arenas |-> "absent"]
    /\ mem = [x \in Accounts |-> 0]
    /\ db = <<>>
    /\ serial = [x \in Groups \X Intervals |-> 0]
    /\ dbq = <<>> /\ mainq = <<>>
    /\ ending = None
    /\ scored = [x \in Accounts |-> 0]
    /\ standsFor = [x \in Accounts |-> NoKey]
    /\ spoiled = {}

Message(command, o, a) == [command |-> command, owner |-> o, arena |-> a]
Unowned(m) == m.command \in {"putall", "end"}

\* DBThread holds the player list lock, or the arena list lock, while it ends
\* an interval: nobody changes a status.
PlayersLocked == ending # None /\ ending.phase = "players"
ArenasLocked  == ending # None /\ ending.phase = "arenas"

----------------------------------------------------------------------------
(* core.c: the statuses of players.                                        *)

Goes(p, from, to) ==
    /\ ~PlayersLocked
    /\ status[p] = from
    /\ status' = [status EXCEPT ![p] = to]

\* GetPlayer, PutPlayer
AsksDB(command, p, a) == dbq' = Append(dbq, Message(command, p, a))

Login(p) ==
    /\ Goes(p, "out", "wait_global_sync1")
    /\ AsksDB("getplayer", p, None)
    /\ UNCHANGED <<arena, astatus, mem, db, serial, mainq, ending, scored, standsFor, spoiled>>

EnterArena(p) ==
    /\ Goes(p, "loggedin", "wait_arena_sync1")
    /\ \E a \in Arenas :
         /\ astatus[a] = "running"
         /\ arena' = [arena EXCEPT ![p] = a]
         /\ AsksDB("getplayer", p, a)
    /\ UNCHANGED <<astatus, mem, db, serial, mainq, ending, scored, standsFor, spoiled>>

SaveArena(p) ==
    /\ Goes(p, "do_arena_sync2", "wait_arena_sync2")
    /\ AsksDB("putplayer", p, arena[p])
    /\ UNCHANGED <<arena, astatus, mem, db, serial, mainq, ending, scored, standsFor, spoiled>>

SaveGlobal(p) ==
    /\ Goes(p, "leaving_zone", "wait_global_sync2")
    /\ AsksDB("putplayer", p, None)
    /\ UNCHANGED <<arena, astatus, mem, db, serial, mainq, ending, scored, standsFor, spoiled>>

Moves(p) ==
    /\ \/ Goes(p, "do_global_callbacks", "loggedin")
       \/ Goes(p, "loggedin", "leaving_zone")
       \/ Goes(p, "arena_resp_and_cbs", "playing")
       \/ Goes(p, "playing", "leaving_arena")
       \/ Goes(p, "leaving_arena", "do_arena_sync2")
       \/ Goes(p, "timewait", "out")
    /\ UNCHANGED <<arena, astatus, mem, db, serial, dbq, mainq, ending, scored, standsFor, spoiled>>

\* player_sync_done, called from main.  A player who has been told to leave
\* while he waited does not enter.
PlayerSynced(p) ==
    /\ \/ Goes(p, "wait_global_sync1", "do_global_callbacks")
       \/ Goes(p, "wait_arena_sync1", "arena_resp_and_cbs")
       \/ Goes(p, "wait_arena_sync1", "do_arena_sync2")
       \/ Goes(p, "wait_arena_sync2", "loggedin")
       \/ Goes(p, "wait_global_sync2", "timewait")
    /\ arena' = [arena EXCEPT ![p] = IF status'[p] = "loggedin" THEN None ELSE @]
    /\ UNCHANGED <<astatus, mem>>

----------------------------------------------------------------------------
(* arenaman.c: the statuses of arenas.                                     *)

AGoes(a, from, to) ==
    /\ ~ArenasLocked
    /\ astatus[a] = from
    /\ astatus' = [astatus EXCEPT ![a] = to]

\* AA_CREATE: aaction fills in the names by which data is kept.  It waits for
\* dbmtx, so not while an interval is being ended.
ArenaCreated(a) ==
    /\ ending = None
    /\ AGoes(a, "absent", "created")
    /\ UNCHANGED <<status, arena, mem, db, serial, dbq, mainq, ending, scored, standsFor, spoiled>>

ArenaLoads(a) ==
    /\ AGoes(a, "created", "wait_sync1")
    /\ AsksDB("getarena", a, a)
    /\ UNCHANGED <<status, arena, mem, db, serial, mainq, ending, scored, standsFor, spoiled>>

\* An empty arena is reaped.
ArenaSaves(a) ==
    /\ \A p \in Players : arena[p] # a
    /\ AGoes(a, "running", "wait_sync2")
    /\ AsksDB("putarena", a, a)
    /\ UNCHANGED <<status, arena, mem, db, serial, mainq, ending, scored, standsFor, spoiled>>

\* arena_sync_done, called from main.  What follows the second one is AA_DESTROY,
\* which takes the names away, and then a new struct or the same one cleared.
ArenaSynced(a) ==
    /\ \/ AGoes(a, "wait_sync1", "running") /\ UNCHANGED mem
       \/ /\ ending = None /\ AGoes(a, "wait_sync2", "absent")
          /\ mem' = [x \in Accounts |-> IF x[1] = a THEN 0 ELSE mem[x]]
    /\ UNCHANGED <<status, arena>>

Synced ==
    /\ mainq # <<>>
    /\ LET o == Head(mainq) IN
         IF o \in Players THEN PlayerSynced(o) ELSE ArenaSynced(o)
    /\ mainq' = Tail(mainq)
    /\ UNCHANGED <<db, serial, dbq, ending, scored, standsFor, spoiled>>

----------------------------------------------------------------------------
(* The modules: they count something for a player who plays, or for an     *)
(* arena that runs.  Whatever is counted after an interval's data has been *)
(* stored and before it is cleared is gone.                                *)

Score(x) ==
    /\ scored[x] < MaxPoints
    /\ IF x[1] \in Players THEN status[x[1]] = "playing" ELSE astatus[x[1]] = "running"
    /\ mem' = [mem EXCEPT ![x] = @ + 1]
    /\ scored' = [scored EXCEPT ![x] = @ + 1]
    /\ spoiled' = IF ending # None /\ x \in ending.stored THEN spoiled \cup {x} ELSE spoiled
    /\ UNCHANGED <<status, arena, astatus, db, serial, dbq, mainq, ending, standsFor>>

----------------------------------------------------------------------------
(* The calls that no player or arena waits for.                            *)

Ask(m) ==
    /\ Cardinality({i \in DOMAIN dbq : Unowned(dbq[i])}) < MaxQueue
    /\ dbq' = Append(dbq, m)
    /\ UNCHANGED <<status, arena, astatus, mem, db, serial, mainq, ending, scored, standsFor, spoiled>>

\* SyncTimer, StabilizeScores
SyncTimer == Ask(Message("putall", None, None))

\* EndInterval.  do_end_interval returns at once if the interval is to last.
EndInterval(ag, interval) ==
    /\ interval \notin Lasting
    /\ \E d \in PlayerData \cup ArenaData :
           /\ d.interval = interval
           /\ ag \in IF d.scope = "global" THEN {Global} ELSE {ArenaGroup(a, interval) : a \in Arenas}
    /\ Ask([command |-> "end", ag |-> ag, interval |-> interval])

----------------------------------------------------------------------------
(* DBThread.                                                               *)

RecordOf(k) == IF k \in DOMAIN db THEN db[k] ELSE 0

\* Mistaken variant: what is not in the database is not cleared.
LoadedOrKept(x, k) == IF k \in DOMAIN db THEN db[k] ELSE mem[x]

\* ClearData, then SetData with what db->get finds
Loaded(x, k) == RecordOf(k)

\* get_one_player, get_one_arena for all descriptors
Get(o, a) ==
    LET these == {x \in Accounts : x[1] = o /\ InScope(x[2], a)}
        Of(x) == CurrentKey(o, x[2], a)
    IN  /\ mem' = [x \in Accounts |-> IF x \in these THEN Loaded(x, Of(x)) ELSE mem[x]]
        /\ standsFor' = [x \in Accounts |-> IF x \in these THEN Of(x) ELSE standsFor[x]]

\* put_one_player, put_one_arena for the accounts and arenas of these pairs, where
\* the scope fits: db->put, or db->del if there is nothing to keep.  Arenas may
\* share a record; which of them comes last does not matter to anybody.
PutThese(pairs) ==
    LET these    == {y \in pairs : InScope(y[1][2], y[2])}
        Of(y)    == CurrentKey(y[1][1], y[1][2], y[2])
        put      == {Of(y) : y \in these}
        Value(k) == mem[(CHOOSE y \in these : Of(y) = k)[1]]
    IN  [k \in (DOMAIN db \ put) \cup {j \in put : Value(j) > 0} |->
            IF k \in put THEN Value(k) ELSE db[k]]

Put(o, a) ==
    /\ db' = PutThese({<<x, a>> : x \in {y \in Accounts : y[1] = o}})
    /\ standsFor' = [x \in Accounts |->
                        IF x[1] = o /\ InScope(x[2], a) THEN NoKey ELSE standsFor[x]]

\* DBCMD_PUTALL: players who play, arenas that run
PutAll ==
    LET players == {p \in Players : status[p] = "playing"}
        arenas  == {a \in Arenas : astatus[a] = "running"}
    IN  db' = PutThese({y \in Accounts \X (Arenas \cup {None}) :
                           \/ y[1][1] \in players /\ y[2] \in {None, arena[y[1][1]]}
                           \/ y[1][1] \in arenas /\ y[2] = y[1][1]})

NextMessage == Head(dbq)

DBCommand ==
    /\ ending = None
    /\ dbq # <<>> /\ NextMessage.command # "end"
    /\ LET o == NextMessage.owner
           a == NextMessage.arena
       IN  CASE NextMessage.command \in {"getplayer", "getarena"} -> Get(o, a) /\ UNCHANGED db
             [] NextMessage.command \in {"putplayer", "putarena"} -> Put(o, a) /\ UNCHANGED mem
             [] NextMessage.command = "putall" -> PutAll /\ UNCHANGED <<mem, standsFor>>
    /\ mainq' = IF Unowned(NextMessage) THEN mainq ELSE Append(mainq, NextMessage.owner)
    /\ dbq' = Tail(dbq)
    /\ UNCHANGED <<status, arena, astatus, serial, ending, scored, spoiled>>

----------------------------------------------------------------------------
(* do_end_interval, account by account.                                    *)

\* Mistaken variant: forgets those who come and go.
OnlyPlaying(p, ag) == status[p] = "playing"

\* The players whose data has been read and not been saved for the last time.
InRange(p, ag) ==
    IF ag = Global
      THEN Number(status[p]) \in Number("do_global_callbacks") .. Number("wait_global_sync2")
      ELSE Number(status[p]) \in Number("arena_resp_and_cbs") .. Number("wait_arena_sync2")

Ends(x, m) ==
    /\ x[2].interval = m.interval
    /\ x[2].scope = (IF m.ag = Global THEN "global" ELSE "allarenas")

EndedPlayers(m) ==
    {x \in Accounts :
        /\ x[1] \in Players /\ Ends(x, m) /\ InRange(x[1], m.ag)
        /\ m.ag # Global => arena[x[1]] # None /\ ArenaGroup(arena[x[1]], m.interval) = m.ag}

EndedArenas(m) ==
    {x \in Accounts :
        /\ x[1] \in Arenas /\ Ends(x, m)
        /\ astatus[x[1]] # "absent" /\ ArenaGroup(x[1], m.interval) = m.ag}

\* Players whose data has just been read, and whose status does not say so yet.
\* They keep what they earned before.
Overlooked(m) ==
    {x \in Accounts :
        /\ x[1] \in Players /\ Ends(x, m)
        /\ status[x[1]] \in {"wait_global_sync1", "wait_arena_sync1"}
        /\ standsFor[x] # NoKey /\ standsFor[x].ag = m.ag}

EndStart ==
    /\ ending = None
    /\ dbq # <<>> /\ NextMessage.command = "end"
    /\ ending' = [ag |-> NextMessage.ag, interval |-> NextMessage.interval,
                  serialno |-> serial[<<NextMessage.ag, NextMessage.interval>>],
                  phase |-> "players", todo |-> EndedPlayers(NextMessage), stored |-> {}]
    /\ spoiled' = spoiled \cup Overlooked(NextMessage)
    /\ dbq' = Tail(dbq)
    /\ UNCHANGED <<status, arena, astatus, mem, db, serial, mainq, scored, standsFor>>

\* put_one_player(data, p, p->arena, serialno), put_one_arena(data, arena,
\* serialno).  An arena's data may not have been read yet: what was stored for
\* it is overwritten.
EndStore ==
    /\ ending # None /\ ending.stored = {}
    /\ \E x \in ending.todo :
         LET a == IF x[1] \in Players THEN arena[x[1]] ELSE x[1]
             unread == x[1] \in Arenas /\ standsFor[x] = NoKey
                       /\ mem[x] # RecordOf(CurrentKey(x[1], x[2], a))
         IN  /\ db' = PutThese({<<x, a>>})
             /\ spoiled' = IF unread THEN spoiled \cup {x} ELSE spoiled
             /\ ending' = [ending EXCEPT !.todo = @ \ {x}, !.stored = {x}]
    /\ UNCHANGED <<status, arena, astatus, mem, serial, dbq, mainq, scored, standsFor>>

\* ClearData
EndClear ==
    /\ ending # None
    /\ \E x \in ending.stored :
         /\ mem' = [mem EXCEPT ![x] = 0]
         /\ standsFor' = [standsFor EXCEPT ![x] =
                             IF @ = NoKey THEN NoKey ELSE [@ EXCEPT !.serialno = ending.serialno + 1]]
    /\ ending' = [ending EXCEPT !.stored = {}]
    /\ UNCHANGED <<status, arena, astatus, db, serial, dbq, mainq, scored, spoiled>>

Stage(phase) == ending # None /\ ending.phase = phase /\ ending.todo = {} /\ ending.stored = {}

\* pd->Unlock(), aman->Lock()
EndArenas ==
    /\ Stage("players")
    /\ ending' = [ending EXCEPT !.phase = "arenas", !.todo = EndedArenas(ending)]
    /\ UNCHANGED <<status, arena, astatus, mem, db, serial, dbq, mainq, scored, standsFor, spoiled>>

EndFinish ==
    /\ Stage("arenas")
    /\ serial' = [serial EXCEPT ![<<ending.ag, ending.interval>>] = ending.serialno + 1]
    /\ ending' = None
    /\ UNCHANGED <<status, arena, astatus, mem, db, dbq, mainq, scored, standsFor, spoiled>>

DBThread == DBCommand \/ EndStart \/ EndStore \/ EndClear \/ EndArenas \/ EndFinish

----------------------------------------------------------------------------
EndAsked(ag, interval) ==
    Cardinality({i \in DOMAIN dbq : dbq[i].command = "end" /\ dbq[i].ag = ag
                                    /\ dbq[i].interval = interval})
    + (IF ending # None /\ ending.ag = ag /\ ending.interval = interval THEN 1 ELSE 0)

Next ==
    \/ \E p \in Players : Login(p) \/ EnterArena(p) \/ SaveArena(p) \/ SaveGlobal(p) \/ Moves(p)
    \/ \E a \in Arenas : ArenaCreated(a) \/ ArenaLoads(a) \/ ArenaSaves(a)
    \/ Synced
    \/ \E x \in Accounts : Score(x)
    \/ SyncTimer
    \/ \E ag \in Groups, interval \in Intervals :
           /\ <<ag, interval>> \in MayEnd
           /\ serial[<<ag, interval>>] + EndAsked(ag, interval) < MaxSerial
           /\ EndInterval(ag, interval)
    \/ DBThread

Spec == Init /\ [][Next]_vars

----------------------------------------------------------------------------
(* Properties.                                                             *)

Keys == [who : Players \cup {None}, ag : Groups, data : PlayerData \cup ArenaData,
         serialno : Nat]

Messages ==
    [command : {"getplayer", "putplayer", "getarena", "putarena"},
     owner : Owners, arena : Arenas \cup {None}]
    \cup [command : {"putall"}, owner : {None}, arena : {None}]
    \cup [command : {"end"}, ag : Groups, interval : Intervals \ Lasting]

Endings == [ag : Groups, interval : Intervals \ Lasting, serialno : Nat,
            phase : {"players", "arenas"}, todo : SUBSET Accounts, stored : SUBSET Accounts]

\* NULL is not an interval that is being ended.
ASSUME NoneAssumption == None \notin Endings

TypeOK ==
    /\ status \in [Players -> {StatusOrder[i] : i \in DOMAIN StatusOrder}]
    /\ arena \in [Players -> Arenas \cup {None}]
    /\ astatus \in [Arenas -> AStatuses]
    /\ mem \in [Accounts -> Nat]
    /\ DOMAIN db \subseteq Keys /\ \A k \in DOMAIN db : db[k] \in Nat \ {0}
    /\ serial \in [Groups \X Intervals -> Nat]
    /\ dbq \in Seq(Messages) /\ mainq \in Seq(Owners)
    /\ ending \in {None} \cup Endings
    /\ scored \in [Accounts -> Nat]
    /\ standsFor \in [Accounts -> Keys \cup {NoKey}]
    /\ spoiled \subseteq Accounts

\* The records of an account, but for the one that the data in memory stands for.
OtherRecords(x) ==
    {k \in DOMAIN db :
        /\ k.data = x[2] /\ k # standsFor[x]
        /\ IF x[1] \in Players THEN k.who = x[1]
           ELSE k.who = None /\ k.ag = ArenaGroup(x[1], x[2].interval)}

AccountedFor(x) ==
    MapThenFoldSet(+, IF standsFor[x] = NoKey THEN 0 ELSE mem[x], LAMBDA k : db[k],
                   LAMBDA S : CHOOSE k \in S : TRUE, OtherRecords(x))

\* Every point that was scored is in exactly one record of the database or in
\* the data in memory that will be stored there: none is lost, none counts
\* twice, whoever comes, goes, moves, is saved and whatever is reaped meanwhile.
\* Excepted are points of an interval that ends whose owner has met one of three
\* defects: he scored between the storing and the clearing of his data, he was
\* just being read when the interval ended, or (arenas) was going to be.
PointsAreConserved ==
    \A x \in Accounts :
        \/ AccountedFor(x) = scored[x]
        \/ x \in spoiled /\ x[2].interval \notin Lasting

\* What DBThread is about to clear it has stored, if nobody scored meanwhile
\* (persist.c: "first, grab the latest data and dump it under the old serialno").
StoredBeforeCleared ==
    ending # None =>
        \A x \in ending.stored \ spoiled :
            mem[x] = RecordOf(Key(x[1], ending.ag, x[2], ending.serialno))

\* Data in memory belongs to the interval that runs, but for the data of those who
\* met the defects: whoever comes, plays, leaves or is moved while an interval
\* ends starts the new one with nothing (persist.c: "similar to above, but for
\* arena data").
DataIsCurrent ==
    \A x \in Accounts \ spoiled :
        LET k == standsFor[x]
        IN  k # NoKey => k.serialno >= serial[<<k.ag, k.data.interval>>]

\* Once an interval is over, nobody changes its records.
EndedIntervalsAreFinal ==
    [][\A k \in DOMAIN db \cup DOMAIN db' :
          k.serialno < serial[<<k.ag, k.data.interval>>] =>
              k \in DOMAIN db /\ k \in DOMAIN db' /\ db'[k] = db[k]]_vars
=============================================================================
