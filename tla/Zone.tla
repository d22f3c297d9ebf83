-------------------------------- MODULE Zone --------------------------------
(***************************************************************************)
(* The zone: core, playerdata and arenaman, with the database thread and   *)
(* the main loop that connect them.                                        *)
(***************************************************************************)
EXTENDS Core

----------------------------------------------------------------------------
(* The database thread (persist.c, DBThread), as far as core and arenaman  *)
(* see it: commands are carried out in order, and the answer is queued for *)
(* the main thread.                                                        *)

CallbackOf(m) ==
    IF m.cmd \in {"get_player", "put_player"}
      THEN MainMsg("player_sync_done", m.p, NoArena)
      ELSE MainMsg("arena_sync_done", NoPlayer, m.a)

DBThread ==
    /\ dbq # <<>>
    /\ LET m == Head(dbq)
       IN  /\ loaded' =
                 CASE m.cmd = "get_player" ->
                          [loaded EXCEPT ![m.p] = @ \cup {ScopeOf(m.a)}]
                   [] m.cmd = "put_player" ->
                          [loaded EXCEPT ![m.p] = @ \ {ScopeOf(m.a)}]
                   [] OTHER -> loaded
           /\ mainq' = Append(mainq, CallbackOf(m))
    /\ dbq' = Tail(dbq)
    /\ UNCHANGED <<pvars, cvars, avars, tvars, authq, told>>

----------------------------------------------------------------------------
(* The main thread runs the oldest function of runinmain_queue             *)
(* (mainloop.c, drainRunInMain).                                           *)

RunInMain ==
    /\ MayRunInMain
    /\ mainq # <<>>
    /\ mainq' = Tail(mainq)
    /\ LET m == Head(mainq)
       IN  CASE m.cb = "newplayer_new" ->
                  /\ stage' = [stage EXCEPT ![m.p] = "listed"]
                  /\ UNCHANGED <<status, whenloggedin, arena, newarena, leaveflag,
                                 name, cvars, avars>>
             [] m.cb = "newplayer_free" ->
                  /\ ForgetPlayer(m.p)
                  /\ UNCHANGED avars
             [] m.cb = "player_sync_done" ->
                  /\ PlayerSyncDone(m.p)
                  /\ UNCHANGED <<stage, whenloggedin, arena, newarena, leaveflag,
                                 name, gsync, async, gcallbacks, avars>>
             [] m.cb = "arena_sync_done" ->
                  /\ astatus' = [astatus EXCEPT ![m.a] = SyncedArenaStatus(@)]
                  /\ UNCHANGED <<pvars, cvars, aname, keepalive, holds, resurrect>>
    /\ UNCHANGED <<pending, draining, authq, dbq, gvars>>

----------------------------------------------------------------------------
\* What clients, operators and modules start.
Input ==
    \/ \E p \in Players :
          \/ NewConnection(p) \/ Login(p) \/ KickPlayer(p) \/ Leaving(p)
          \/ \E n \in ArenaNames : Go(p, n)
    \/ \E a \in Arenas : RecycleArena(a)

\* What the server does on its own.
Server ==
    \/ PlayerPass
    \/ \E p \in Players : RunAction(p) \/ AuthDone(p) \/ FreePlayer(p)
    \/ DBThread \/ RunInMain
    \/ Reap \/ ArenaFree
    \/ \E a \in Arenas : ProcessArenaStates(a) \/ Unhold(a)

Next == Input \/ Server

Spec == Init /\ [][Next]_vars
----------------------------------------------------------------------------
(* Fairness.  RunLoop calls every timer that is due and every function that *)
(* is queued, in every turn: what main can do again and again it does       *)
(* (strong, since actions or a drain may be in the way for a while).  The   *)
(* other threads are scheduled, authenticators answer, the network threads  *)
(* look for S_TIMEWAIT again and again, and modules release their holds.    *)
(* Nothing is assumed of Input.                                             *)

Fairness ==
    /\ SF_vars(PlayerPass) /\ SF_vars(RunInMain) /\ SF_vars(Reap)
    /\ SF_vars(ArenaFree)
    /\ WF_vars(DBThread)
    /\ \A p \in Players :
          WF_vars(RunAction(p)) /\ SF_vars(AuthDone(p)) /\ SF_vars(FreePlayer(p))
    /\ \A a \in Arenas : SF_vars(ProcessArenaStates(a)) /\ SF_vars(Unhold(a))

FairSpec == Spec /\ Fairness

----------------------------------------------------------------------------
(* Properties.                                                             *)

\* The arena of a listed player is open: it is never written out, destroyed or
\* freed around him, at whatever point of his way in or out he is (ReapArenas:
\* an arena is left alone while somebody's p->arena is that arena).
OccupiedArenasOpen ==
    \A p \in Listed :
        arena[p] # NoArena => astatus[arena[p]] \in {"running", "closing"}

\* A player between S_DO_FREQ_AND_ARENA_SYNC and S_WAIT_ARENA_SYNC2 is in an
\* arena, and it is open, whatever reaping, recycling and his own requests do
\* (player.h: "p->arena is valid starting here").
PlayersInOpenArenas ==
    \A p \in Listed :
        status[p] \in InArenaStatuses =>
            /\ arena[p] # NoArena
            /\ astatus[arena[p]] \in {"running", "closing"}

\* An arena that somebody wants to enter and that is on its way out comes back
\* into existence (complete_go, ReapArenas and RecycleArena set resurrect).
WantedArenasReturn ==
    \A p \in Listed :
        newarena[p] # NoArena /\ astatus[newarena[p]] \in OnTheWayOut =>
            newarena[p] \in resurrect

\* No pointer to an Arena survives the afree of ProcessArenaStates: not in a
\* player, nor in a message of the database thread or of the main loop.
NoDanglingArena ==
    LET references ==
                 {arena[p] : p \in Listed} \cup {newarena[p] : p \in Listed}
            \cup {dbq[i].a : i \in DOMAIN dbq} \cup {mainq[i].a : i \in DOMAIN mainq}
    IN  \A a \in references \ {NoArena} : Exists(a) /\ a # draining

\* No pointer to a Player survives the afree of run_newplayer_free: not in the
\* actions list, with the authenticator, in a message, or as replaced_by.
NoDanglingPlayer ==
    \A p \in Players \ Allocated :
        /\ pending[p] = "idle"
        /\ p \notin authq
        /\ \A i \in DOMAIN dbq : dbq[i].p # p
        /\ \A i \in DOMAIN mainq : mainq[i].p # p
        /\ \A q \in Allocated : replacedBy[q] # p

\* No structure is freed that something still points to, whatever is in the queues of the
\* threads: what ProcessArenaStates and run_newplayer_free give back is forgotten by all.
NoDangling == NoDanglingArena /\ NoDanglingPlayer

\* When a Player is freed, modules have seen him disconnect and all his data
\* are saved (process_player_states, S_LEAVING_ZONE).
FreedPlayersAreSaved ==
    \A p \in Players \ Allocated : told[p] = "out" /\ loaded[p] = {}

\* Someone who is in S_WAIT_AUTH and has his answer is waiting for exactly one
\* player of his name, who is on his way out and will let him in (AuthDone,
\* player_sync_done: "we'll do it when the other player leaves").
ReplacementsWaitForOne ==
    \A p \in Listed :
        status[p] = "wait_auth" /\ p \notin authq /\ pending[p] = "idle" =>
            \E old \in Listed :
                /\ {q \in Listed : replacedBy[q] = p} = {old}
                /\ name[old] = name[p]
                /\ old \in whenloggedin \/ status[old] \in OutStatuses \ {"timewait"}

\* The assertions of ProcessArenaStates: no arena goes through
\* ARENA_DO_INIT0, ARENA_DO_INIT1 or ARENA_DO_DESTROY1 while it is held.
HoldsAssertions ==
    \A a \in Arenas :
        Turn(a) \in {"do_init0", "do_init1", "do_destroy1"} => holds[a] = 0

\* Of the arenas that players can ask for there is one of each name
\* (complete_go finds and creates under one lock).
OneArenaPerName ==
    \A a, b \in Arenas :
        Exists(a) /\ Exists(b) /\ aname[a] = aname[b] /\ aname[a] \in ArenaNames
            => a = b

\* A player who has an arena to go to is outside or on his way out of the one
\* he is in (complete_go: "don't mess with player status yet, let him stay in
\* S_LOGGEDIN. it will be incremented when the arena is ready").
PlacedPlayersAreLeaving ==
    \A p \in Listed :
        newarena[p] # NoArena =>
            /\ status[p] \notin {"do_freq_and_arena_sync", "arena_resp_and_cbs", "playing"}
            /\ status[p] = "wait_arena_sync1" => p \in leaveflag

\* The arena somebody is to go to is the only one of its name, it is there or comes back,
\* and he goes there as soon as he has left the one he is in.
PlacesAreKept == WantedArenasReturn /\ PlacedPlayersAreLeaving /\ OneArenaPerName

\* The flag says that "the player needs to transition to a leaving arena state
\* while wainting for the database to return" (player.h).
LeaveFlagMeansWaiting == \A p \in leaveflag : status[p] = "wait_arena_sync1"

\* There are no two sessions of one name with their data in memory (AuthDone:
\* "make sure we don't have two identical players").
OneSessionPerName ==
    \A p, q \in Allocated :
        name[p] = name[q] /\ name[p] # NoName
            /\ "global" \in loaded[p] /\ "global" \in loaded[q] => p = q

\* The "transitions to:" comments of the status codes in player.h, and the
\* release of the struct.
Documented ==
    {<<"uninitialized", "connected">>,
     <<"connected", "need_auth">>, <<"connected", "leaving_zone">>,
     <<"need_auth", "wait_auth">>,
     <<"wait_auth", "connected">>, <<"wait_auth", "need_global_sync">>,
     <<"need_global_sync", "wait_global_sync1">>,
     <<"wait_global_sync1", "do_global_callbacks">>,
     <<"do_global_callbacks", "send_login_response">>,
     <<"send_login_response", "loggedin">>,
     <<"loggedin", "do_freq_and_arena_sync">>, <<"loggedin", "leaving_zone">>,
     <<"do_freq_and_arena_sync", "wait_arena_sync1">>,
     <<"do_freq_and_arena_sync", "loggedin">>,
     <<"wait_arena_sync1", "arena_resp_and_cbs">>,
     <<"wait_arena_sync1", "do_arena_sync2">>,
     <<"arena_resp_and_cbs", "playing">>, <<"arena_resp_and_cbs", "do_arena_sync2">>,
     <<"playing", "leaving_arena">>, <<"leaving_arena", "do_arena_sync2">>,
     <<"do_arena_sync2", "wait_arena_sync2">>, <<"wait_arena_sync2", "loggedin">>,
     <<"leaving_zone", "wait_global_sync2">>, <<"wait_global_sync2", "timewait">>,
     <<"timewait", "uninitialized">>}

\* No step moves a player along a transition that player.h does not document,
\* whatever the handlers, the main loop and the database do at the same time.
DocumentedTransitions ==
    [][\A p \in Players :
          status'[p] # status[p] => <<status[p], status'[p]>> \in Documented]_vars

OnHisWayOut(p) == p \in whenloggedin \/ status[p] \in OutStatuses

\* Who has been kicked stays kicked until his struct is freed (KickPlayer).
KicksStick ==
    [][\A p \in Players : OnHisWayOut(p) => OnHisWayOut(p)' \/ stage'[p] = "none"]_vars

\* The zone keeps the promises of Session to the modules.
Promises == INSTANCE Session
KeepsPromises == Promises!Spec

\* Whoever is kicked after his login is gone in the end, with everything saved,
\* although his requests, recycling and other logins go on (KickPlayer: "the
\* player will be set to leave the zone when the S_LEAVING_ARENA-initiated
\* actions are completed").  Before his login a client can put it off by
\* sending login packets that are refused.
KickedPlayersGo ==
    \A p \in Players : p \in whenloggedin /\ name[p] # NoName ~> stage[p] = "none"

\* A player who waits for the database or the authenticator, or for another
\* player of his name to leave, does not wait for ever.
NobodyWaitsForEver ==
    \A p \in Players :
        \A s \in {"wait_auth", "wait_global_sync1", "wait_arena_sync1",
                  "wait_arena_sync2", "wait_global_sync2"} :
            status[p] = s ~> status[p] # s

\* An arena that nobody is in or wants is destroyed, or somebody comes, or it
\* could not be detached and is kept (ReapArenas, ProcessArenaStates), unless
\* it is recycled again and again.
Needed(a) == a \in keepalive \/ \E p \in Allocated : a \in {arena[p], newarena[p]}
EmptyArenasGo ==
    \A a \in Arenas :
        <>[](astatus[a] # "closing") => (Exists(a) ~> Needed(a) \/ ~Exists(a))

\* An arena that is recycled, or that is wanted while it closes, is up again
\* in the end.
ClosedArenasReopen ==
    \A a \in Arenas : a \in resurrect ~> astatus[a] \in {"running", "none"}

\* What is asked of main is done in the end, as the database and the authenticator answer:
\* nobody waits for ever, who is kicked goes, and arenas go and come back.
EverythingGoesOn == KickedPlayersGo /\ NobodyWaitsForEver /\ EmptyArenasGo /\ ClosedArenasReopen

----------------------------------------------------------------------------
(* The inductive invariant from which the safety of the arenas is proved.  *)

\* A status between "p->arena is valid starting here" and "no longer valid"
\* goes with an arena and a place on the player list.
InsideIsListed ==
    \A p \in Players :
        status[p] \in InArenaStatuses => stage[p] = "listed" /\ arena[p] # NoArena

\* A player who is not on the list yet has no arena.
NewcomersHaveNoArena ==
    \A p \in Players :
        stage[p] \in {"none", "new"} => arena[p] = NoArena /\ newarena[p] = NoArena

\* A struct is put on the list, or given back, once for each time that it was
\* allocated, or freed.
LifeQueuedOnce ==
    \A i \in DOMAIN mainq :
        /\ mainq[i].cb = "newplayer_new"  => stage[mainq[i].p] = "new"
        /\ mainq[i].cb = "newplayer_free" => stage[mainq[i].p] = "freeing"
        /\ \A j \in DOMAIN mainq :
              /\ mainq[i].cb \in {"newplayer_new", "newplayer_free"}
              /\ mainq[j].cb \in {"newplayer_new", "newplayer_free"}
              /\ mainq[i].p = mainq[j].p
              => i = j

\* The arena that is drained is the one that nobody asked to come back, and
\* nobody finds it any more, although packets are handled while it is drained.
DrainedIsGone ==
    draining # NoArena =>
        /\ astatus[draining] = "do_destroy2"
        /\ aname[draining] = NoName
        /\ draining \notin resurrect

\* Only an arena that waits for its holds is held.
HeldArenasWait == \A a \in Arenas : holds[a] > 0 => astatus[a] \in HoldStatuses

\* All of it together: it is preserved by every step.
ZoneInv ==
    /\ InsideIsListed
    /\ NewcomersHaveNoArena
    /\ LifeQueuedOnce
    /\ DrainedIsGone
    /\ HeldArenasWait
    /\ OccupiedArenasOpen
    /\ WantedArenasReturn

\* Until his login is answered a player has no arena and none to go to.
LoggingIn ==
    {"uninitialized", "connected", "need_auth", "wait_auth", "need_global_sync",
     "wait_global_sync1", "do_global_callbacks", "send_login_response"}
StrangersHaveNoArena ==
    \A p \in Players :
        status[p] \in LoggingIn => arena[p] = NoArena /\ newarena[p] = NoArena

\* A struct that is not in use has no status, and one that waits to be given
\* back keeps the status in which it was freed.
UnlistedStatus ==
    \A p \in Players :
        /\ stage[p] = "none" => status[p] = "uninitialized"
        /\ stage[p] = "freeing" => status[p] = "timewait"

\* What the transitions of the players rest on: given ZoneInv it is preserved by
\* every step.
StatusInv ==
    /\ StrangersHaveNoArena
    /\ UnlistedStatus
    /\ PlacedPlayersAreLeaving

----------------------------------------------------------------------------
(* What the promises to the modules rest on: how far a player's session is,   *)
(* told by his status and by what is pending, asked and answered of him.      *)

Asked(p)    == \E i \in DOMAIN dbq : dbq[i].p = p
Answered(p) == \E i \in DOMAIN mainq : mainq[i].cb = "player_sync_done" /\ mainq[i].p = p

\* The four statuses in which the database has something to do for a player.
Requests ==
    {<<"wait_global_sync1", "get_player", "global">>,
     <<"wait_arena_sync1",  "get_player", "arena">>,
     <<"wait_arena_sync2",  "put_player", "arena">>,
     <<"wait_global_sync2", "put_player", "global">>}
Wait4 == {"wait_global_sync1", "wait_arena_sync1", "wait_arena_sync2", "wait_global_sync2"}

\* A player has one request or answer at most, it is of the status he waits in, and
\* what the last pass left to be done was done before.
RequestsFit ==
    \A i \in DOMAIN dbq : dbq[i].p # NoPlayer =>
        LET p == dbq[i].p
        IN  /\ HasPersist /\ pending[p] = "idle" /\ ~Answered(p)
            /\ <<status[p], dbq[i].cmd, ScopeOf(dbq[i].a)>> \in Requests
            /\ \A j \in DOMAIN dbq : dbq[j].p = p => i = j
AnswersFit ==
    \A i \in DOMAIN mainq : mainq[i].cb = "player_sync_done" =>
        LET p == mainq[i].p
        IN  /\ HasPersist /\ pending[p] = "idle" /\ status[p] \in Wait4
            /\ \A j \in DOMAIN mainq :
                   mainq[j].cb = "player_sync_done" /\ mainq[j].p = p => i = j

\* While main drains, no action of process_player_states is left to be done.
DrainsAlone == draining # NoArena => \A p \in Players : pending[p] = "idle"

\* What is left to be done for a player, and what may have become of his status
\* meanwhile: an answer, or somebody who makes him leave.
LeftToDo ==
    {<<"need_auth", "connected">>, <<"need_auth", "need_auth">>, <<"need_auth", "wait_auth">>,
     <<"need_auth", "need_global_sync">>,
     <<"need_global_sync", "wait_global_sync1">>,
     <<"do_global_callbacks", "send_login_response">>,
     <<"send_login_response", "loggedin">>,
     <<"do_freq_and_arena_sync", "wait_arena_sync1">>,
     <<"arena_resp_and_cbs", "playing">>, <<"arena_resp_and_cbs", "leaving_arena">>,
     <<"leaving_arena", "do_arena_sync2">>,
     <<"do_arena_sync2", "wait_arena_sync2">>,
     <<"leaving_zone", "wait_global_sync2">>}

Early  == {"uninitialized", "connected", "need_auth", "wait_auth", "need_global_sync"}
Middle == {"do_global_callbacks", "send_login_response", "loggedin", "do_freq_and_arena_sync",
           "wait_arena_sync1", "arena_resp_and_cbs", "playing", "leaving_arena",
           "do_arena_sync2", "wait_arena_sync2"}
Inside == {"arena_resp_and_cbs", "playing", "leaving_arena", "do_arena_sync2"}

HasEntered(p) ==
    \/ status[p] \in {"playing", "leaving_arena"} /\ pending[p] # "arena_resp_and_cbs"
    \/ status[p] = "do_arena_sync2" /\ pending[p] = "leaving_arena"
HasConnected(p) ==
    \/ status[p] = "send_login_response" /\ pending[p] # "do_global_callbacks"
    \/ status[p] \in Middle \ {"do_global_callbacks", "send_login_response"}
ToldFits(p) ==
    /\ told[p] = "entered" <=> HasEntered(p)
    /\ status[p] \in Early \cup {"wait_global_sync1"} \cup Middle =>
          (p \in gcallbacks <=> HasConnected(p)) /\ (told[p] # "out" <=> HasConnected(p))
    /\ status[p] = "leaving_zone" => (told[p] # "out" <=> p \in gcallbacks)
    /\ status[p] = "wait_global_sync2" =>
          (told[p] # "out" <=> pending[p] = "leaving_zone" /\ p \in gcallbacks)
    /\ status[p] = "timewait" => told[p] = "out"

GlobalFits(p) ==
    /\ status[p] \in Early => "global" \notin loaded[p] /\ p \notin gsync
    /\ status[p] = "wait_global_sync1" =>
          /\ "global" \in loaded[p] <=> Answered(p)
          /\ p \in gsync <=> pending[p] # "need_global_sync"
    /\ status[p] \in Middle => ("global" \in loaded[p] <=> HasPersist) /\ p \in gsync
    /\ status[p] = "leaving_zone" =>
          ("global" \in loaded[p] <=> HasPersist /\ p \in gsync)
    /\ status[p] = "wait_global_sync2" =>
          /\ "global" \in loaded[p] <=>
                \/ HasPersist /\ pending[p] = "leaving_zone" /\ p \in gsync
                \/ Asked(p)
          /\ pending[p] # "leaving_zone" => p \notin gsync
    /\ status[p] = "timewait" => "global" \notin loaded[p] /\ p \notin gsync

ArenaFits(p) ==
    /\ status[p] \in Inside => ("arena" \in loaded[p] <=> HasPersist) /\ p \in async
    /\ status[p] = "wait_arena_sync1" =>
          /\ "arena" \in loaded[p] <=> Answered(p)
          /\ p \in async <=> pending[p] # "do_freq_and_arena_sync"
    /\ status[p] = "wait_arena_sync2" =>
          /\ "arena" \in loaded[p] <=>
                HasPersist /\ (pending[p] = "do_arena_sync2" \/ Asked(p))
          /\ p \in async <=> pending[p] = "do_arena_sync2"
    /\ status[p] \notin Inside \cup {"wait_arena_sync1", "wait_arena_sync2"} =>
          "arena" \notin loaded[p] /\ p \notin async

PendingFits(p) == pending[p] = "idle" \/ <<pending[p], status[p]>> \in LeftToDo

SessionFits(p) == PendingFits(p) /\ ToldFits(p) /\ GlobalFits(p) /\ ArenaFits(p)

\* Given TypeOK, ZoneInv and StatusInv it is preserved by every step.
SessionInv ==
    /\ DrainsAlone /\ RequestsFit /\ AnswersFit
    /\ \A p \in Players : SessionFits(p)
----------------------------------------------------------------------------
(* What the absence of dangling pointers rests on: who is pointed to by what. *)

\* The authenticator is asked about a player once, and until it has answered he has no name.
LoginsFit ==
    \A p \in Players :
        /\ p \in authq => pending[p] = "idle"
        /\ p \in authq \/ pending[p] = "need_auth" =>
              stage[p] = "listed" /\ status[p] = "wait_auth" /\ name[p] = NoName
        /\ status[p] \in {"uninitialized", "connected", "need_auth"} => name[p] = NoName

\* Who is replaced is listed and on his way out; who replaces him has the same name, has
\* had his answer, and waits for nobody else.
ReplacedFit ==
    \A old \in Players : replacedBy[old] # NoPlayer =>
        LET new == replacedBy[old]
        IN  /\ stage[old] = "listed" /\ stage[new] = "listed" /\ new # old
            /\ OnHisWayOut(old) /\ status[old] # "timewait"
            /\ status[new] = "wait_auth" /\ pending[new] = "idle" /\ new \notin authq
            /\ name[new] = name[old] /\ name[old] # NoName
            /\ \A other \in Players : replacedBy[other] = new => other = old

\* Who has had his answer and still waits replaces somebody.
WaitersFit ==
    \A p \in Players :
        status[p] = "wait_auth" /\ p \notin authq /\ pending[p] = "idle" =>
            \E old \in Players : replacedBy[old] = p

\* Given TypeOK, UnlistedStatus and SessionInv it is preserved by every step.
LoginInv == LoginsFit /\ ReplacedFit /\ WaitersFit

\* An arena that somebody is to go to has not been freed, and a request for data of a
\* player in an arena is about the arena that he is in.
PlacesExist == \A p \in Listed : newarena[p] # NoArena => Exists(newarena[p])
RequestsNameArena ==
    \A i \in DOMAIN dbq :
        dbq[i].p # NoPlayer /\ dbq[i].a # NoArena => dbq[i].a = arena[dbq[i].p]

\* An arena has one request or answer at most, and waits for it.
Syncing == {"wait_sync1", "wait_sync2"}
ArenaRequestsFit ==
    \A i \in DOMAIN dbq : dbq[i].p = NoPlayer =>
        /\ astatus[dbq[i].a] \in Syncing
        /\ \A j \in DOMAIN dbq : dbq[j].p = NoPlayer /\ dbq[j].a = dbq[i].a => i = j
        /\ \A j \in DOMAIN mainq : mainq[j].cb = "arena_sync_done" => mainq[j].a # dbq[i].a
ArenaAnswersFit ==
    \A i \in DOMAIN mainq : mainq[i].cb = "arena_sync_done" =>
        /\ astatus[mainq[i].a] \in Syncing
        /\ \A j \in DOMAIN mainq :
              mainq[j].cb = "arena_sync_done" /\ mainq[j].a = mainq[i].a => i = j

\* Given TypeOK, ZoneInv and SessionInv it is preserved by every step.
ReferenceInv == PlacesExist /\ RequestsNameArena /\ ArenaRequestsFit /\ ArenaAnswersFit
=============================================================================
