----------------------------- MODULE ZoneSafety -----------------------------
(***************************************************************************)
(* The zone is safe, for any number of players and arenas.  ZoneInv is     *)
(* inductive, and the safety properties of the arenas follow from it.  The *)
(* status of a player moves as player.h documents it, the zone keeps the   *)
(* promises of Session, and who is freed is saved; who waits for another   *)
(* player of his name to leave waits for one, and nothing points to a      *)
(* structure that has been freed.                                          *)
(***************************************************************************)
EXTENDS Zone, TLAPS

----------------------------------------------------------------------------
(* Type correctness.                                                       *)

\* initiate_leave_arena yields a status.
LEMMA LeftStatusType == \A s \in Statuses : LeftStatus(s) \in Statuses
BY DEF LeftStatus, Statuses

\* process_player_states yields a status.
LEMMA NextStatusType == \A s \in DOMAIN NextStatus : NextStatus[s] \in Statuses
BY DEF NextStatus, Statuses

LEMMA NextStatusDomain == DOMAIN NextStatus \subseteq Statuses
BY DEF NextStatus, Statuses

\* The initial state has the right type.
LEMMA InitType == Init => TypeOK
BY ZoneAssumption DEF Init, TypeOK, Stages, Statuses, ArenaStatuses, Scopes

\* The three things that happen to status and leave flag inside other actions.
LEMMA LeaveType ==
    ASSUME TypeOK, NEW L \in SUBSET Players, InitiateLeaveArena(L)
    PROVE  status' \in [Players -> Statuses] /\ leaveflag' \subseteq Players
BY LeftStatusType DEF TypeOK, InitiateLeaveArena

LEMMA SyncDoneType ==
    ASSUME TypeOK, NEW p \in Players, PlayerSyncDone(p)
    PROVE  /\ status' \in [Players -> Statuses]
           /\ replacedBy' \in [Players -> Players \cup {NoPlayer}]
<1>1. SyncedStatus(p) \in Statuses
  BY DEF TypeOK, SyncedStatus, Statuses
<1>2. "need_global_sync" \in Statuses
  BY DEF Statuses
<1> QED
  BY <1>1, <1>2 DEF TypeOK, PlayerSyncDone

LEMMA DbMsgType ==
    \A p \in Players, a \in Arenas \cup {NoArena}, c \in {"get_player", "put_player"} :
        DbMsg(c, p, a) \in DbMessages
BY DEF DbMsg, DbMessages

LEMMA ArenaDbMsgType ==
    \A a \in Arenas, c \in {"get_arena", "put_arena"} : DbMsg(c, NoPlayer, a) \in DbMessages
BY DEF DbMsg, DbMessages

LEMMA CallbackType == \A m \in DbMessages : CallbackOf(m) \in MainMessages
BY DEF DbMessages, MainMessages, CallbackOf, MainMsg

LEMMA SyncPlayerType ==
    ASSUME TypeOK, NEW p \in Players, NEW c \in {"get_player", "put_player"},
           NEW a \in Arenas \cup {NoArena}, NEW w \in BOOLEAN, SyncPlayer(p, w, c, a)
    PROVE  /\ status' \in [Players -> Statuses]
           /\ replacedBy' \in [Players -> Players \cup {NoPlayer}]
           /\ dbq' \in Seq(DbMessages)
<1>1. CASE w = TRUE
  <2>1. dbq' = Append(dbq, DbMsg(c, p, a)) /\ UNCHANGED <<status, replacedBy>>
    BY <1>1 DEF SyncPlayer
  <2>2. DbMsg(c, p, a) \in DbMessages
    BY DbMsgType
  <2> QED
    BY <2>1, <2>2 DEF TypeOK
<1>2. CASE w = FALSE
  BY <1>2, SyncDoneType DEF SyncPlayer, TypeOK
<1> QED
  BY <1>1, <1>2 DEF SyncPlayer

\* Each action preserves the type invariant.
LEMMA GoType ==
    ASSUME TypeOK, NEW p \in Players, NEW n \in ArenaNames, Go(p, n)
    PROVE  TypeOK'
<1>1. status' \in [Players -> Statuses] /\ leaveflag' \subseteq Players
  <2>1. InArena({p}) \in SUBSET Players
    BY DEF InArena
  <2> QED
    BY <2>1, LeaveType DEF Go, LeaveArena
<1>2. PICK a \in Arenas : PlaceIn(p, n, a)
  BY DEF Go
<1>3. /\ astatus' \in [Arenas -> ArenaStatuses \cup {"none"}]
      /\ aname' \in [Arenas -> ArenaNames \cup {BrokenName, NoName}]
      /\ keepalive' \subseteq Arenas
      /\ holds' \in [Arenas -> Nat]
      /\ resurrect' \subseteq Arenas
  <2>1. CASE FoundArenas(n) = {}
    <3>1. CreateArena(a, n)
      BY <1>2, <2>1 DEF PlaceIn
    <3> QED
      BY <3>1 DEF TypeOK, CreateArena, ArenaStatuses
  <2>2. CASE FoundArenas(n) # {}
    BY <1>2, <2>2 DEF TypeOK, PlaceIn
  <2> QED
    BY <2>1, <2>2
<1>4. newarena' \in [Players -> Arenas \cup {NoArena}]
  BY <1>2 DEF TypeOK, PlaceIn
<1> QED
  BY <1>1, <1>3, <1>4 DEF TypeOK, Go, cvars, tvars, qvars, gvars

LEMMA InputType == TypeOK /\ Input => TypeOK'
<1> SUFFICES ASSUME TypeOK, Input PROVE TypeOK'
  OBVIOUS
<1>1. ASSUME NEW p \in Players, NewConnection(p) PROVE TypeOK'
  <2>1. MainMsg("newplayer_new", p, NoArena) \in MainMessages
    BY DEF MainMsg, MainMessages
  <2> QED
    BY <1>1, <2>1 DEF TypeOK, NewConnection, Stages, Statuses, cvars, avars, tvars, gvars
<1>2. ASSUME NEW p \in Players, Login(p) PROVE TypeOK'
  BY <1>2 DEF TypeOK, Login, Statuses, cvars, avars, tvars, qvars, gvars
<1>3. ASSUME NEW p \in Players, KickPlayer(p) PROVE TypeOK'
  <2>1. InArena({p}) \in SUBSET Players
    BY DEF InArena
  <2> QED
    BY <1>3, <2>1, LeaveType DEF TypeOK, KickPlayer, Kick, cvars, avars, tvars, qvars, gvars
<1>4. ASSUME NEW p \in Players, Leaving(p) PROVE TypeOK'
  <2>1. InArena({p}) \in SUBSET Players
    BY DEF InArena
  <2> QED
    BY <1>4, <2>1, LeaveType DEF TypeOK, Leaving, LeaveArena, cvars, avars, tvars, qvars, gvars
<1>5. ASSUME NEW p \in Players, NEW n \in ArenaNames, Go(p, n) PROVE TypeOK'
  BY <1>5, GoType
<1>6. ASSUME NEW a \in Arenas, RecycleArena(a) PROVE TypeOK'
  <2>1. {p \in Listed : arena[p] = a} \in SUBSET Players
    BY DEF Listed
  <2> QED
    BY <1>6, <2>1, LeaveType DEF TypeOK, RecycleArena, ArenaStatuses, cvars, tvars, qvars, gvars
<1> QED
  BY <1>1, <1>2, <1>3, <1>4, <1>5, <1>6 DEF Input

\* What an action of process_player_states leaves alone.
LEMMA ActedType ==
    ASSUME TypeOK, NEW p \in Players, NEW s, Acted(p, s)
    PROVE  /\ pending' \in [Players -> Statuses \cup {"idle"}]
           /\ UNCHANGED <<stage, whenloggedin, arena, newarena, leaveflag, name,
                          astatus, aname, keepalive, holds, resurrect,
                          draining, mainq>>
BY DEF TypeOK, Acted, avars

LEMMA RunActionType ==
    ASSUME TypeOK, NEW p \in Players, RunAction(p)
    PROVE  TypeOK'
<1> USE ActedType
<1>1. ASSUME ActAuthenticate(p) PROVE TypeOK'
  BY <1>1 DEF TypeOK, ActAuthenticate, cvars, gvars
<1>2. ASSUME ActGetGlobal(p) PROVE TypeOK'
  <2>1. HasPersist \in BOOLEAN /\ SyncPlayer(p, HasPersist, "get_player", NoArena)
    BY <1>2, ZoneAssumption DEF ActGetGlobal
  <2>2. /\ status' \in [Players -> Statuses]
        /\ replacedBy' \in [Players -> Players \cup {NoPlayer}]
        /\ dbq' \in Seq(DbMessages)
    BY <2>1, SyncPlayerType
  <2> QED
    BY <1>2, <2>2 DEF TypeOK, ActGetGlobal, gvars
<1>3. ASSUME ActConnect(p) PROVE TypeOK'
  BY <1>3 DEF TypeOK, ActConnect
<1>4. ASSUME ActLoginResponse(p) PROVE TypeOK'
  BY <1>4 DEF TypeOK, ActLoginResponse, cvars, gvars
<1>5. ASSUME ActGetArena(p) PROVE TypeOK'
  <2>1. HasPersist \in BOOLEAN /\ SyncPlayer(p, HasPersist, "get_player", arena[p])
    BY <1>5, ZoneAssumption DEF ActGetArena
  <2>2. arena[p] \in Arenas \cup {NoArena}
    BY DEF TypeOK
  <2>3. /\ status' \in [Players -> Statuses]
        /\ replacedBy' \in [Players -> Players \cup {NoPlayer}]
        /\ dbq' \in Seq(DbMessages)
    BY <2>1, <2>2, SyncPlayerType
  <2> QED
    BY <1>5, <2>3 DEF TypeOK, ActGetArena, gvars
<1>6. ASSUME ActEnterArena(p) PROVE TypeOK'
  BY <1>6 DEF TypeOK, ActEnterArena, cvars
<1>7. ASSUME ActLeaveArena(p) PROVE TypeOK'
  BY <1>7 DEF TypeOK, ActLeaveArena, cvars
<1>8. ASSUME ActPutArena(p) PROVE TypeOK'
  <2>1. /\ (HasPersist /\ p \in async) \in BOOLEAN
        /\ SyncPlayer(p, HasPersist /\ p \in async, "put_player", arena[p])
    BY <1>8 DEF ActPutArena
  <2>2. arena[p] \in Arenas \cup {NoArena}
    BY DEF TypeOK
  <2> QED
    BY <1>8, <2>1, <2>2, SyncPlayerType DEF TypeOK, ActPutArena, gvars
<1>9. ASSUME ActLeaveZone(p) PROVE TypeOK'
  <2>1. /\ (HasPersist /\ p \in gsync) \in BOOLEAN
        /\ SyncPlayer(p, HasPersist /\ p \in gsync, "put_player", NoArena)
    BY <1>9 DEF ActLeaveZone
  <2>2. told' \in [Players -> {"out", "connected", "entered"}]
    BY <1>9 DEF TypeOK, ActLeaveZone
  <2> QED
    BY <1>9, <2>1, <2>2, SyncPlayerType DEF TypeOK, ActLeaveZone
<1> QED
  BY <1>1, <1>2, <1>3, <1>4, <1>5, <1>6, <1>7, <1>8, <1>9 DEF RunAction

LEMMA AuthDoneType ==
    ASSUME TypeOK, NEW p \in Players, AuthDone(p)
    PROVE  TypeOK'
<1>1. /\ status' \in [Players -> Statuses]
      /\ whenloggedin' \subseteq Players
      /\ leaveflag' \subseteq Players
      /\ name' \in [Players -> UserNames \cup {NoName}]
      /\ replacedBy' \in [Players -> Players \cup {NoPlayer}]
  <2>1. CASE UNCHANGED <<status, whenloggedin, leaveflag, name, replacedBy>>
    BY <2>1 DEF TypeOK
  <2>2. CASE AuthRefused(p)
    BY <2>2 DEF TypeOK, AuthRefused, Statuses
  <2>3. ASSUME NEW n \in UserNames, AuthAccepted(p, n)
        PROVE  <1>1!:
    BY <2>3 DEF TypeOK, AuthAccepted, Statuses
  <2>4. ASSUME NEW n \in UserNames, AuthReplaces(p, n)
        PROVE  <1>1!:
    <3>1. PICK old \in FindPlayer(n) \ {p} :
             /\ name' = [name EXCEPT ![p] = n]
             /\ replacedBy' = [replacedBy EXCEPT ![old] = p]
             /\ InitiateLeaveArena(InArena({old}))
             /\ whenloggedin' = whenloggedin \cup {old}
      BY <2>4 DEF AuthReplaces, Kick
    <3>2. old \in Players /\ InArena({old}) \in SUBSET Players
      BY DEF FindPlayer, Listed, InArena
    <3> QED
      BY <3>1, <3>2, LeaveType DEF TypeOK
  <2> QED
    BY <2>1, <2>2, <2>3, <2>4 DEF AuthDone
<1> QED
  BY <1>1 DEF TypeOK, AuthDone, avars, tvars, gvars

\* One pass of process_player_states.
LEMMA PlayerPassType == TypeOK /\ PlayerPass => TypeOK'
<1> SUFFICES ASSUME TypeOK, PlayerPass PROVE TypeOK'
  OBVIOUS
<1>1. \A p \in Players : PassedStatus(p) \in Statuses
  <2>1. /\ "leaving_zone" \in Statuses
        /\ "do_freq_and_arena_sync" \in Statuses
        /\ \A p \in Players : status[p] \in Statuses
    BY DEF TypeOK, Statuses
  <2> QED
    BY <2>1, NextStatusType DEF PassedStatus
<1>2. status' \in [Players -> Statuses]
  BY <1>1 DEF TypeOK, PlayerPass
<1>3. /\ arena' \in [Players -> Arenas \cup {NoArena}]
      /\ newarena' \in [Players -> Arenas \cup {NoArena}]
      /\ whenloggedin' \subseteq Players
  BY DEF TypeOK, PlayerPass
<1>4. pending' \in [Players -> Statuses \cup {"idle"}]
  BY DEF TypeOK, PlayerPass
<1> QED
  BY <1>2, <1>3, <1>4 DEF TypeOK, PlayerPass, cvars, avars, qvars, gvars

\* Removal from memory, the database thread and the main loop.
LEMMA FreePlayerType == ASSUME TypeOK, NEW p \in Players, FreePlayer(p) PROVE TypeOK'
<1>1. MainMsg("newplayer_free", p, NoArena) \in MainMessages
  BY DEF MainMsg, MainMessages
<1> QED
  BY <1>1 DEF TypeOK, FreePlayer, Stages, cvars, avars, tvars, gvars

LEMMA DBThreadType == TypeOK /\ DBThread => TypeOK'
<1> SUFFICES ASSUME TypeOK, DBThread PROVE TypeOK'
  OBVIOUS
<1>1. Head(dbq) \in DbMessages /\ dbq' \in Seq(DbMessages)
  BY DEF TypeOK, DBThread
<1>2. mainq' \in Seq(MainMessages)
  BY <1>1, CallbackType DEF TypeOK, DBThread
<1>3. Head(dbq).cmd \in {"get_player", "put_player"} => Head(dbq).p \in Players
  BY <1>1 DEF DbMessages
<1>4. \A a : ScopeOf(a) \in Scopes
  BY DEF ScopeOf, Scopes
<1>5. loaded' \in [Players -> SUBSET Scopes]
  <2> DEFINE m == Head(dbq)
  <2>1. CASE m.cmd = "get_player"
    <3>1. loaded' = [loaded EXCEPT ![m.p] = @ \cup {ScopeOf(m.a)}]
      BY <2>1 DEF DBThread
    <3> QED
      BY <3>1, <2>1, <1>3, <1>4 DEF TypeOK
  <2>2. CASE m.cmd = "put_player"
    <3>1. loaded' = [loaded EXCEPT ![m.p] = @ \ {ScopeOf(m.a)}]
      BY <2>2 DEF DBThread
    <3> QED
      BY <3>1, <2>2, <1>3, <1>4 DEF TypeOK
  <2>3. CASE m.cmd \notin {"get_player", "put_player"}
    BY <2>3 DEF DBThread, TypeOK
  <2> QED
    BY <2>1, <2>2, <2>3
<1> QED
  BY <1>1, <1>2, <1>5 DEF TypeOK, DBThread, pvars, cvars, avars, tvars

LEMMA RunInMainType == TypeOK /\ RunInMain => TypeOK'
<1> SUFFICES ASSUME TypeOK, RunInMain PROVE TypeOK'
  OBVIOUS
<1> DEFINE m == Head(mainq)
<1>1. m \in MainMessages /\ mainq' \in Seq(MainMessages)
  BY DEF TypeOK, RunInMain
<1>2. /\ m.cb \in {"newplayer_new", "newplayer_free", "player_sync_done"} => m.p \in Players
      /\ m.cb = "arena_sync_done" => m.a \in Arenas
      /\ m.cb \in {"newplayer_new", "newplayer_free", "player_sync_done", "arena_sync_done"}
  BY <1>1 DEF MainMessages
<1>3. UNCHANGED <<pending, draining, authq, dbq, told, loaded>>
  BY DEF RunInMain, gvars
<1>4. CASE m.cb = "newplayer_new"
  BY <1>1, <1>2, <1>3, <1>4 DEF TypeOK, RunInMain, Stages, cvars, avars
<1>5. CASE m.cb = "newplayer_free"
  <2>1. ForgetPlayer(m.p) /\ UNCHANGED avars
    BY <1>5 DEF RunInMain
  <2> QED
    BY <1>1, <1>2, <1>3, <1>5, <2>1 DEF TypeOK, ForgetPlayer, Stages, Statuses, avars
<1>6. CASE m.cb = "player_sync_done"
  <2>1. PlayerSyncDone(m.p) /\ UNCHANGED <<stage, whenloggedin, arena, newarena,
            leaveflag, name, gsync, async, gcallbacks, avars>>
    BY <1>6 DEF RunInMain
  <2>2. /\ status' \in [Players -> Statuses]
        /\ replacedBy' \in [Players -> Players \cup {NoPlayer}]
    BY <1>2, <1>6, <2>1, SyncDoneType
  <2> QED
    BY <1>1, <1>3, <2>1, <2>2 DEF TypeOK, avars
<1>7. CASE m.cb = "arena_sync_done"
  <2>1. /\ astatus' = [astatus EXCEPT ![m.a] = SyncedArenaStatus(@)]
        /\ UNCHANGED <<pvars, cvars, aname, keepalive, holds, resurrect>>
    BY <1>7 DEF RunInMain
  <2>2. \A s \in ArenaStatuses \cup {"none"} : SyncedArenaStatus(s) \in ArenaStatuses \cup {"none"}
    BY DEF SyncedArenaStatus, ArenaStatuses
  <2>3. astatus' \in [Arenas -> ArenaStatuses \cup {"none"}]
    BY <2>1, <2>2 DEF TypeOK
  <2> QED
    BY <1>1, <1>3, <2>1, <2>3 DEF TypeOK, pvars, cvars
<1> QED
  BY <1>2, <1>4, <1>5, <1>6, <1>7

\* The timers of the arenas.
LEMMA CallbacksHoldType ==
    ASSUME TypeOK, NEW a \in Arenas, NEW s \in ArenaStatuses, CallbacksHold(a, s)
    PROVE  TypeOK'
<1>1. PICK n \in 0 .. MaxHolds : holds' = [holds EXCEPT ![a] = @ + n]
  BY DEF CallbacksHold
<1>2. holds' \in [Arenas -> Nat]
  BY <1>1, ZoneAssumption DEF TypeOK
<1> QED
  BY <1>2 DEF TypeOK, CallbacksHold, pvars, cvars, tvars, qvars, gvars

LEMMA SyncArenaType ==
    ASSUME TypeOK, NEW a \in Arenas, NEW c \in {"get_arena", "put_arena"},
           NEW w \in ArenaStatuses, NEW s \in ArenaStatuses, SyncArena(a, c, w, s)
    PROVE  TypeOK'
<1>1. astatus' \in [Arenas -> ArenaStatuses \cup {"none"}]
  BY DEF TypeOK, SyncArena
<1>2. dbq' \in Seq(DbMessages)
  <2>1. DbMsg(c, NoPlayer, a) \in DbMessages
    BY ArenaDbMsgType
  <2> QED
    BY <2>1 DEF TypeOK, SyncArena
<1> QED
  BY <1>1, <1>2 DEF TypeOK, SyncArena, pvars, cvars, tvars, gvars

LEMMA ProcessArenaStatesType ==
    ASSUME TypeOK, NEW a \in Arenas, ProcessArenaStates(a)
    PROVE  TypeOK'
<1> USE DEF ArenaStatuses
<1>1. CASE ArenaInit0(a)
  BY <1>1, CallbacksHoldType DEF ArenaInit0
<1>2. CASE ArenaInit1(a)
  BY <1>2, CallbacksHoldType DEF ArenaInit1
<1>3. CASE ArenaInit2(a)
  BY <1>3, SyncArenaType DEF ArenaInit2
<1>4. CASE ArenaWriteData(a)
  <2>1. CASE Occupied(a)
    BY <1>4, <2>1 DEF TypeOK, ArenaWriteData, pvars, cvars, tvars, qvars, gvars
  <2>2. CASE ~Occupied(a)
    BY <1>4, <2>2, SyncArenaType DEF ArenaWriteData
  <2> QED
    BY <2>1, <2>2
<1>5. CASE ArenaDestroy1(a)
  BY <1>5, CallbacksHoldType DEF ArenaDestroy1
<1>6. CASE ArenaResurrect(a)
  BY <1>6 DEF TypeOK, ArenaResurrect, pvars, cvars, tvars, qvars, gvars
<1>7. CASE ArenaRemove(a)
  BY <1>7 DEF TypeOK, ArenaRemove, pvars, cvars, qvars, gvars
<1>8. CASE ArenaDetachFails(a)
  BY <1>8 DEF TypeOK, ArenaDetachFails, pvars, cvars, tvars, qvars, gvars
<1> QED
  BY <1>1, <1>2, <1>3, <1>4, <1>5, <1>6, <1>7, <1>8 DEF ProcessArenaStates

LEMMA ArenaTimersType ==
    ASSUME TypeOK, Reap \/ ArenaFree \/ (\E a \in Arenas : Unhold(a))
    PROVE  TypeOK'
<1>1. CASE Reap
  <2>1. astatus' \in [Arenas -> ArenaStatuses \cup {"none"}]
    BY <1>1 DEF TypeOK, Reap, ArenaStatuses
  <2>2. resurrect' \subseteq Arenas
    BY <1>1 DEF TypeOK, Reap
  <2> QED
    BY <1>1, <2>1, <2>2 DEF TypeOK, Reap, pvars, cvars, tvars, qvars, gvars
<1>2. CASE ArenaFree
  BY <1>2 DEF TypeOK, ArenaFree, pvars, cvars, qvars, gvars
<1>3. ASSUME NEW a \in Arenas, Unhold(a) PROVE TypeOK'
  <2>1. holds' \in [Arenas -> Nat]
    BY <1>3 DEF Unhold, TypeOK
  <2> QED
    BY <1>3, <2>1 DEF TypeOK, Unhold, pvars, cvars, tvars, qvars, gvars
<1> QED
  BY <1>1, <1>2, <1>3

LEMMA ServerType == TypeOK /\ Server => TypeOK'
BY PlayerPassType, RunActionType, AuthDoneType, FreePlayerType,
   DBThreadType, RunInMainType, ArenaTimersType, ProcessArenaStatesType DEF Server

LEMMA NextType == TypeOK /\ [Next]_vars => TypeOK'
<1>1. TypeOK /\ UNCHANGED vars => TypeOK'
  BY DEF TypeOK, vars, pvars, cvars, avars, tvars, qvars, gvars
<1> QED
  BY <1>1, InputType, ServerType DEF Next

\* Every variable keeps its type: whatever the packets, the timers and the
\* other threads do in between, the statuses are the enumerated ones, and the
\* pointers and the messages are of the kinds that their readers expect (the
\* sync callbacks of persist get a player or an arena, as they were asked for).
THEOREM TypeCorrect == Spec => []TypeOK
<1> QED
  BY InitType, NextType, PTL DEF Spec

----------------------------------------------------------------------------
(* Steps that do not bring anybody into an arena.                          *)

Quiet == \A p \in Players : status'[p] \in InArenaStatuses => status[p] \in InArenaStatuses

\* Leaving does not enter.
LEMMA LeaveQuiet ==
    ASSUME TypeOK, NEW L, InitiateLeaveArena(L)
    PROVE  Quiet
<1>1. \A s \in Statuses : LeftStatus(s) \in InArenaStatuses => s \in InArenaStatuses
  BY DEF LeftStatus, InArenaStatuses, Statuses
<1> QED
  BY <1>1 DEF Quiet, InitiateLeaveArena, TypeOK

LEMMA SyncDoneQuiet ==
    ASSUME TypeOK, NEW p \in Players, PlayerSyncDone(p)
    PROVE  Quiet
<1>1. SyncedStatus(p) \in InArenaStatuses => status[p] \in InArenaStatuses
  BY DEF SyncedStatus, InArenaStatuses
<1>2. "need_global_sync" \notin InArenaStatuses
  BY DEF InArenaStatuses
<1> QED
  BY <1>1, <1>2 DEF Quiet, PlayerSyncDone, TypeOK

LEMMA SyncPlayerQuiet ==
    ASSUME TypeOK, NEW p \in Players, NEW w \in BOOLEAN, NEW c, NEW a,
           SyncPlayer(p, w, c, a)
    PROVE  Quiet
<1>1. CASE w = TRUE
  BY <1>1 DEF SyncPlayer, Quiet
<1>2. CASE w = FALSE
  BY <1>2, SyncDoneQuiet DEF SyncPlayer
<1> QED
  BY <1>1, <1>2

LEMMA RunActionQuiet ==
    ASSUME TypeOK, NEW p \in Players, RunAction(p)
    PROVE  Quiet
<1>1. ASSUME UNCHANGED status PROVE Quiet
  BY <1>1 DEF Quiet
<1>2. HasPersist \in BOOLEAN
  BY ZoneAssumption
<1>3. CASE ActGetGlobal(p) \/ ActGetArena(p)
  BY <1>2, <1>3, SyncPlayerQuiet DEF ActGetGlobal, ActGetArena
<1>4. CASE ActPutArena(p)
  <2>1. (HasPersist /\ p \in async) \in BOOLEAN
    OBVIOUS
  <2> QED
    BY <1>4, <2>1, SyncPlayerQuiet DEF ActPutArena
<1>5. CASE ActLeaveZone(p)
  <2>1. (HasPersist /\ p \in gsync) \in BOOLEAN
    OBVIOUS
  <2> QED
    BY <1>5, <2>1, SyncPlayerQuiet DEF ActLeaveZone
<1>6. CASE ActAuthenticate(p) \/ ActConnect(p) \/ ActLoginResponse(p)
           \/ ActEnterArena(p) \/ ActLeaveArena(p)
  BY <1>1, <1>6 DEF ActAuthenticate, ActConnect, ActLoginResponse, ActEnterArena,
                    ActLeaveArena
<1> QED
  BY <1>3, <1>4, <1>5, <1>6 DEF RunAction

LEMMA AuthDoneQuiet ==
    ASSUME TypeOK, NEW p \in Players, AuthDone(p)
    PROVE  Quiet
<1>1. CASE UNCHANGED status
  BY <1>1 DEF Quiet
<1>2. CASE AuthRefused(p)
  BY <1>2 DEF Quiet, AuthRefused, InArenaStatuses, TypeOK
<1>3. ASSUME NEW n, AuthAccepted(p, n) PROVE Quiet
  BY <1>3 DEF Quiet, AuthAccepted, InArenaStatuses, TypeOK
<1>4. ASSUME NEW n, AuthReplaces(p, n) PROVE Quiet
  BY <1>4, LeaveQuiet DEF AuthReplaces, Kick
<1> QED
  BY <1>1, <1>2, <1>3, <1>4 DEF AuthDone

\* Such a step, if it does not touch the arenas or the life of the players
\* either, preserves the invariant.
LEMMA QuietStep ==
    ASSUME TypeOK, ZoneInv, Quiet,
           UNCHANGED <<stage, arena, newarena, astatus, aname, holds, resurrect,
                       draining, mainq>>
    PROVE  ZoneInv'
<1>1. InsideIsListed'
  BY DEF ZoneInv, InsideIsListed, Quiet
<1>2. NewcomersHaveNoArena'
  BY DEF ZoneInv, NewcomersHaveNoArena
<1>3. LifeQueuedOnce'
  BY DEF ZoneInv, LifeQueuedOnce
<1>4. DrainedIsGone' /\ HeldArenasWait'
  BY DEF ZoneInv, DrainedIsGone, HeldArenasWait
<1>5. OccupiedArenasOpen' /\ WantedArenasReturn'
  BY DEF ZoneInv, OccupiedArenasOpen, WantedArenasReturn, Listed
<1> QED
  BY <1>1, <1>2, <1>3, <1>4, <1>5 DEF ZoneInv

\* A step of the arenas alone, likewise, if it respects what players use.
LEMMA ArenaStep ==
    ASSUME TypeOK, ZoneInv,
           UNCHANGED <<stage, status, arena, newarena, mainq>>,
           DrainedIsGone', HeldArenasWait', OccupiedArenasOpen', WantedArenasReturn'
    PROVE  ZoneInv'
<1>1. InsideIsListed' /\ NewcomersHaveNoArena'
  BY DEF ZoneInv, InsideIsListed, NewcomersHaveNoArena
<1>2. LifeQueuedOnce'
  BY DEF ZoneInv, LifeQueuedOnce
<1> QED
  BY <1>1, <1>2 DEF ZoneInv

\* A message more in the queue of the main thread.
Life == {"newplayer_new", "newplayer_free"}

LEMMA LifeAppend ==
    ASSUME TypeOK, LifeQueuedOnce, NEW m \in MainMessages,
           mainq' = Append(mainq, m),
           m.cb = "newplayer_new"  => stage'[m.p] = "new",
           m.cb = "newplayer_free" => stage'[m.p] = "freeing",
           \A i \in DOMAIN mainq : mainq[i].cb \in Life =>
               /\ stage'[mainq[i].p] = stage[mainq[i].p]
               /\ m.cb \in Life => mainq[i].p # m.p
    PROVE  LifeQueuedOnce'
<1>1. /\ DOMAIN mainq' = 1 .. Len(mainq) + 1
      /\ DOMAIN mainq = 1 .. Len(mainq) /\ Len(mainq) \in Nat
      /\ \A i \in 1 .. Len(mainq) : mainq'[i] = mainq[i]
      /\ mainq'[Len(mainq) + 1] = m
  BY DEF TypeOK
<1>2. ASSUME NEW i \in DOMAIN mainq'
      PROVE  /\ mainq'[i].cb = "newplayer_new"  => stage'[mainq'[i].p] = "new"
             /\ mainq'[i].cb = "newplayer_free" => stage'[mainq'[i].p] = "freeing"
  <2>1. CASE i \in DOMAIN mainq
    BY <1>1, <2>1 DEF LifeQueuedOnce, Life
  <2>2. CASE i = Len(mainq) + 1
    BY <1>1, <2>2
  <2> QED
    BY <1>1, <2>1, <2>2
<1>3. ASSUME NEW i \in DOMAIN mainq', NEW j \in DOMAIN mainq',
             mainq'[i].cb \in Life, mainq'[j].cb \in Life, mainq'[i].p = mainq'[j].p
      PROVE  i = j
  <2>1. CASE i \in DOMAIN mainq /\ j \in DOMAIN mainq
    BY <1>1, <1>3, <2>1 DEF LifeQueuedOnce, Life
  <2>2. CASE i = Len(mainq) + 1 \/ j = Len(mainq) + 1
    BY <1>1, <1>3, <2>2
  <2> QED
    BY <1>1, <2>1, <2>2
<1> QED
  BY <1>2, <1>3 DEF LifeQueuedOnce, Life

----------------------------------------------------------------------------
(* What clients start.                                                     *)

LEMMA NewConnectionSafe ==
    ASSUME TypeOK, ZoneInv, NEW p \in Players, NewConnection(p)
    PROVE  ZoneInv'
<1>1. /\ stage[p] = "none"
      /\ stage' = [stage EXCEPT ![p] = "new"]
      /\ status' = [status EXCEPT ![p] = "connected"]
      /\ mainq' = Append(mainq, MainMsg("newplayer_new", p, NoArena))
      /\ UNCHANGED <<arena, newarena, astatus, aname, holds, resurrect, draining>>
  BY DEF NewConnection, avars, tvars
<1>2. InsideIsListed'
  BY <1>1 DEF ZoneInv, InsideIsListed, InArenaStatuses, TypeOK
<1>3. NewcomersHaveNoArena'
  BY <1>1 DEF ZoneInv, NewcomersHaveNoArena, TypeOK
<1>4. LifeQueuedOnce'
  <2> DEFINE m == MainMsg("newplayer_new", p, NoArena)
  <2>1. m \in MainMessages /\ m.cb = "newplayer_new" /\ m.p = p
    BY DEF MainMsg, MainMessages
  <2>2. \A i \in DOMAIN mainq : mainq[i].cb \in Life => mainq[i].p # p
    BY <1>1 DEF ZoneInv, LifeQueuedOnce, Life
  <2>3. stage'[p] = "new" /\ \A q : q # p => stage'[q] = stage[q]
    BY <1>1 DEF TypeOK
  <2> QED
    BY <1>1, <2>1, <2>2, <2>3, LifeAppend DEF ZoneInv
<1>5. DrainedIsGone' /\ HeldArenasWait'
  BY <1>1 DEF ZoneInv, DrainedIsGone, HeldArenasWait
<1>6. Listed' = Listed
  BY <1>1 DEF Listed, TypeOK
<1>7. OccupiedArenasOpen' /\ WantedArenasReturn'
  BY <1>1, <1>6 DEF ZoneInv, OccupiedArenasOpen, WantedArenasReturn
<1> QED
  BY <1>2, <1>3, <1>4, <1>5, <1>7 DEF ZoneInv

LEMMA RequestSafe ==
    ASSUME TypeOK, ZoneInv, NEW p \in Players,
           Login(p) \/ KickPlayer(p) \/ Leaving(p)
    PROVE  ZoneInv'
<1>1. Quiet
  BY LeaveQuiet DEF Login, KickPlayer, Kick, Leaving, LeaveArena, Quiet,
                    InArenaStatuses, TypeOK
<1> QED
  BY <1>1, QuietStep DEF Login, KickPlayer, Leaving, avars, tvars, qvars

\* Whoever is placed gets an arena that is there, or will be again.
LEMMA GoSafe ==
    ASSUME TypeOK, ZoneInv, NEW p \in Players, NEW n \in ArenaNames, Go(p, n)
    PROVE  ZoneInv'
<1>1. /\ p \in Listed
      /\ UNCHANGED <<stage, arena, draining, mainq>>
  BY DEF Go, Handles, tvars, qvars
<1>2. PICK a \in Arenas : PlaceIn(p, n, a)
  BY DEF Go
<1>3. newarena' = [newarena EXCEPT ![p] = a]
  BY <1>2 DEF PlaceIn
<1>4. Quiet
  BY LeaveQuiet DEF Go, LeaveArena
<1>5. InsideIsListed' /\ LifeQueuedOnce'
  BY <1>1, <1>4 DEF ZoneInv, InsideIsListed, LifeQueuedOnce, Quiet
<1>6. NewcomersHaveNoArena'
  BY <1>1, <1>3 DEF ZoneInv, NewcomersHaveNoArena, TypeOK, Listed
<1>7. Listed' = Listed
  BY <1>1 DEF Listed
<1>8. CASE FoundArenas(n) = {}
  <2>1. /\ astatus[a] = "none"
        /\ astatus' = [astatus EXCEPT ![a] = "do_init0"]
        /\ aname' = [aname EXCEPT ![a] = n]
        /\ holds' = [holds EXCEPT ![a] = 0]
        /\ resurrect' = resurrect \ {a}
    BY <1>2, <1>8 DEF PlaceIn, CreateArena, Exists
  <2>2. DrainedIsGone'
    BY <1>1, <2>1 DEF ZoneInv, DrainedIsGone, TypeOK
  <2>3. HeldArenasWait'
    BY <2>1 DEF ZoneInv, HeldArenasWait, TypeOK
  <2>4. OccupiedArenasOpen'
    BY <1>1, <1>7, <2>1 DEF ZoneInv, OccupiedArenasOpen, TypeOK, Listed
  <2>5. WantedArenasReturn'
    BY <1>3, <1>7, <2>1 DEF ZoneInv, WantedArenasReturn, TypeOK, Listed, OnTheWayOut
  <2> QED
    BY <1>5, <1>6, <2>2, <2>3, <2>4, <2>5 DEF ZoneInv
<1>9. CASE FoundArenas(n) # {}
  <2>1. /\ aname[a] = n
        /\ resurrect' = IF astatus[a] \in OnTheWayOut THEN resurrect \cup {a} ELSE resurrect
        /\ UNCHANGED <<astatus, aname, holds>>
    BY <1>2, <1>9 DEF PlaceIn, FoundArenas
  <2>2. DrainedIsGone'
    <3>1. draining # NoArena => draining # a
      BY <2>1, ZoneAssumption DEF ZoneInv, DrainedIsGone
    <3> QED
      BY <1>1, <2>1, <3>1 DEF ZoneInv, DrainedIsGone
  <2>3. HeldArenasWait' /\ OccupiedArenasOpen'
    BY <1>1, <1>7, <2>1 DEF ZoneInv, HeldArenasWait, OccupiedArenasOpen
  <2>4. WantedArenasReturn'
    BY <1>3, <1>7, <2>1 DEF ZoneInv, WantedArenasReturn, TypeOK, Listed
  <2> QED
    BY <1>5, <1>6, <2>2, <2>3, <2>4 DEF ZoneInv
<1> QED
  BY <1>8, <1>9

LEMMA RecycleArenaSafe ==
    ASSUME TypeOK, ZoneInv, NEW a \in Arenas, RecycleArena(a)
    PROVE  ZoneInv'
<1> DEFINE inside == {p \in Listed : arena[p] = a}
<1>1. /\ astatus[a] = "running"
      /\ newarena' = [p \in Players |-> IF p \in inside THEN a ELSE newarena[p]]
      /\ astatus' = [astatus EXCEPT ![a] = "closing"]
      /\ resurrect' = resurrect \cup {a}
      /\ UNCHANGED <<stage, arena, aname, holds, draining, mainq>>
  BY DEF RecycleArena, tvars, qvars
<1>2. InsideIsListed'
  <2>1. Quiet
    BY LeaveQuiet DEF RecycleArena
  <2> QED
    BY <1>1, <2>1 DEF ZoneInv, InsideIsListed, Quiet
<1>3. NewcomersHaveNoArena'
  BY <1>1 DEF ZoneInv, NewcomersHaveNoArena, Listed
<1>4. LifeQueuedOnce'
  BY <1>1 DEF ZoneInv, LifeQueuedOnce
<1>5. DrainedIsGone' /\ HeldArenasWait'
  BY <1>1 DEF ZoneInv, DrainedIsGone, HeldArenasWait, HoldStatuses, TypeOK
<1>6. Listed' = Listed
  BY <1>1 DEF Listed
<1>7. OccupiedArenasOpen'
  BY <1>1, <1>6 DEF ZoneInv, OccupiedArenasOpen, TypeOK, Listed
<1>8. WantedArenasReturn'
  BY <1>1, <1>6 DEF ZoneInv, WantedArenasReturn, TypeOK, Listed
<1> QED
  BY <1>2, <1>3, <1>4, <1>5, <1>7, <1>8 DEF ZoneInv

----------------------------------------------------------------------------
(* What the server does on its own: the players.                           *)

LEMMA PlayerPassSafe ==
    ASSUME TypeOK, ZoneInv, PlayerPass
    PROVE  ZoneInv'
<1> DEFINE waiting == {p \in Listed : status[p] \in Waiting}
           ready   == {p \in waiting : ArenaReady(p)}
<1>1. /\ status' = [p \in Players |-> IF p \in Listed THEN PassedStatus(p)
                                                     ELSE status[p]]
      /\ arena' = [p \in Players |-> IF p \in ready THEN newarena[p]
                                     ELSE IF p \in waiting THEN NoArena
                                     ELSE arena[p]]
      /\ newarena' = [p \in Players |-> IF p \in ready THEN NoArena
                                        ELSE newarena[p]]
      /\ UNCHANGED <<stage, astatus, aname, holds, resurrect, draining, mainq>>
  BY DEF PlayerPass, avars, qvars
<1>2. Listed' = Listed
  BY <1>1 DEF Listed
<1>3. \A p \in ready : newarena[p] # NoArena /\ astatus[newarena[p]] = "running"
  BY DEF ArenaReady
<1>4. InsideIsListed'
  <2> SUFFICES ASSUME NEW p \in Players, status'[p] \in InArenaStatuses
               PROVE  stage'[p] = "listed" /\ arena'[p] # NoArena
    BY DEF InsideIsListed
  <2>1. CASE p \notin Listed
    BY <1>1, <2>1 DEF ZoneInv, InsideIsListed, Listed
  <2>2. CASE p \in ready
    BY <1>1, <1>3, <2>2 DEF Listed
  <2>3. CASE p \in waiting \ ready
    <3>1. p \in Players /\ status'[p] = PassedStatus(p) /\ ~ArenaReady(p)
      BY <1>1, <2>3 DEF Listed
    <3>2. PassedStatus(p) \in {"leaving_zone", "connected", "loggedin"}
      <4>1. status[p] \in {"connected", "loggedin"}
        BY <2>3 DEF Waiting
      <4>2. status[p] \notin DOMAIN NextStatus
        BY <4>1 DEF NextStatus
      <4> QED
        BY <3>1, <4>1, <4>2 DEF PassedStatus, Waiting
    <3> QED
      BY <3>1, <3>2 DEF InArenaStatuses
  <2>4. CASE p \in Listed \ waiting
    <3>1. status'[p] = PassedStatus(p) /\ arena'[p] = arena[p] /\ status[p] \notin Waiting
      BY <1>1, <2>4
    <3>2. status[p] \in InArenaStatuses
      BY <3>1 DEF PassedStatus, NextStatus, InArenaStatuses, Waiting
    <3> QED
      BY <1>1, <2>4, <3>1, <3>2 DEF ZoneInv, InsideIsListed, Listed
  <2> QED
    BY <2>1, <2>2, <2>3, <2>4
<1>5. NewcomersHaveNoArena'
  BY <1>1 DEF ZoneInv, NewcomersHaveNoArena, Listed
<1>6. LifeQueuedOnce' /\ DrainedIsGone' /\ HeldArenasWait'
  BY <1>1 DEF ZoneInv, LifeQueuedOnce, DrainedIsGone, HeldArenasWait
<1>7. OccupiedArenasOpen'
  <2> SUFFICES ASSUME NEW p \in Listed, arena'[p] # NoArena
               PROVE  astatus[arena'[p]] \in {"running", "closing"}
    BY <1>1, <1>2 DEF OccupiedArenasOpen
  <2>1. p \in Players
    BY DEF Listed
  <2> QED
    BY <1>1, <1>3, <2>1 DEF ZoneInv, OccupiedArenasOpen
<1>8. WantedArenasReturn'
  BY <1>1, <1>2 DEF ZoneInv, WantedArenasReturn, Listed
<1> QED
  BY <1>4, <1>5, <1>6, <1>7, <1>8 DEF ZoneInv

LEMMA RunActionSafe ==
    ASSUME TypeOK, ZoneInv, NEW p \in Players, RunAction(p) \/ AuthDone(p)
    PROVE  ZoneInv'
<1>1. Quiet
  BY RunActionQuiet, AuthDoneQuiet
<1>2. UNCHANGED <<stage, arena, newarena, astatus, aname, holds, resurrect,
                  draining, mainq>>
  <2>1. CASE RunAction(p)
    <3>1. PICK s : Acted(p, s)
      BY <2>1 DEF RunAction, ActAuthenticate, ActGetGlobal, ActConnect, ActLoginResponse,
                  ActGetArena, ActEnterArena, ActLeaveArena, ActPutArena, ActLeaveZone
    <3> QED
      BY <3>1 DEF Acted, avars
  <2>2. CASE AuthDone(p)
    BY <2>2 DEF AuthDone, avars, tvars
  <2> QED
    BY <2>1, <2>2
<1> QED
  BY <1>1, <1>2, QuietStep

LEMMA FreePlayerSafe ==
    ASSUME TypeOK, ZoneInv, NEW p \in Players, FreePlayer(p)
    PROVE  ZoneInv'
<1>1. /\ stage[p] = "listed" /\ status[p] = "timewait"
      /\ stage' = [stage EXCEPT ![p] = "freeing"]
      /\ mainq' = Append(mainq, MainMsg("newplayer_free", p, NoArena))
      /\ UNCHANGED <<status, arena, newarena, astatus, aname, holds, resurrect,
                     draining>>
  BY DEF FreePlayer, Listed, avars, tvars
<1>2. InsideIsListed'
  BY <1>1 DEF ZoneInv, InsideIsListed, InArenaStatuses, TypeOK
<1>3. NewcomersHaveNoArena'
  BY <1>1 DEF ZoneInv, NewcomersHaveNoArena, TypeOK
<1>4. LifeQueuedOnce'
  <2> DEFINE m == MainMsg("newplayer_free", p, NoArena)
  <2>1. m \in MainMessages /\ m.cb = "newplayer_free" /\ m.p = p
    BY DEF MainMsg, MainMessages
  <2>2. \A i \in DOMAIN mainq : mainq[i].cb \in Life => mainq[i].p # p
    BY <1>1 DEF ZoneInv, LifeQueuedOnce, Life
  <2>3. stage'[p] = "freeing" /\ \A q : q # p => stage'[q] = stage[q]
    BY <1>1 DEF TypeOK
  <2> QED
    BY <1>1, <2>1, <2>2, <2>3, LifeAppend DEF ZoneInv
<1>5. DrainedIsGone' /\ HeldArenasWait'
  BY <1>1 DEF ZoneInv, DrainedIsGone, HeldArenasWait
<1>6. Listed' \subseteq Listed
  BY <1>1 DEF Listed, TypeOK
<1>7. OccupiedArenasOpen' /\ WantedArenasReturn'
  BY <1>1, <1>6 DEF ZoneInv, OccupiedArenasOpen, WantedArenasReturn
<1> QED
  BY <1>2, <1>3, <1>4, <1>5, <1>7 DEF ZoneInv

----------------------------------------------------------------------------
(* The database thread and the main loop.                                  *)

LEMMA DBThreadSafe == ASSUME TypeOK, ZoneInv, DBThread PROVE ZoneInv'
<1>1. /\ mainq' = Append(mainq, CallbackOf(Head(dbq)))
      /\ UNCHANGED <<stage, status, arena, newarena, astatus, aname, holds,
                     resurrect, draining>>
  BY DEF DBThread, pvars, avars, tvars
<1>2. LifeQueuedOnce'
  <2>1. Head(dbq) \in DbMessages
    BY DEF TypeOK, DBThread
  <2>2. CallbackOf(Head(dbq)) \in MainMessages /\ CallbackOf(Head(dbq)).cb \notin Life
    BY <2>1, CallbackType DEF CallbackOf, MainMsg, Life
  <2>3. CallbackOf(Head(dbq)).cb \notin {"newplayer_new", "newplayer_free"}
    BY <2>2 DEF Life
  <2> QED
    BY <1>1, <2>2, <2>3, LifeAppend DEF ZoneInv
<1>3. InsideIsListed' /\ NewcomersHaveNoArena'
  BY <1>1 DEF ZoneInv, InsideIsListed, NewcomersHaveNoArena
<1>4. DrainedIsGone' /\ HeldArenasWait' /\ OccupiedArenasOpen' /\ WantedArenasReturn'
  BY <1>1 DEF ZoneInv, DrainedIsGone, HeldArenasWait, OccupiedArenasOpen,
              WantedArenasReturn, Listed
<1> QED
  BY <1>2, <1>3, <1>4 DEF ZoneInv

\* A message less in the queue of the main thread: what remains is in the
\* queue once, and is not about the player whose life the message was about.
LEMMA LifeTail ==
    ASSUME TypeOK, LifeQueuedOnce, mainq # <<>>, mainq' = Tail(mainq),
           \A q \in Players :
               stage'[q] = stage[q] \/ (Head(mainq).cb \in Life /\ Head(mainq).p = q)
    PROVE  LifeQueuedOnce'
<1>1. /\ Len(mainq) \in Nat \ {0}
      /\ DOMAIN mainq = 1 .. Len(mainq)
      /\ DOMAIN mainq' = 1 .. Len(mainq) - 1
      /\ \A i \in 1 .. Len(mainq) - 1 : mainq'[i] = mainq[i + 1]
      /\ \A i \in 1 .. Len(mainq) : mainq[i] \in MainMessages
      /\ Head(mainq) = mainq[1]
  BY DEF TypeOK
<1>2. \A m \in MainMessages : m.cb \in Life => m.p \in Players
  BY DEF MainMessages, Life
<1>3. ASSUME NEW i \in DOMAIN mainq', mainq'[i].cb \in Life
      PROVE  stage'[mainq'[i].p] = stage[mainq[i + 1].p]
  <2>1. i + 1 \in DOMAIN mainq /\ 1 \in DOMAIN mainq /\ i + 1 # 1
        /\ mainq'[i] = mainq[i + 1] /\ mainq[i + 1] \in MainMessages
    BY <1>1
  <2>2. mainq[i + 1].p \in Players
    BY <1>2, <1>3, <2>1
  <2>3. ~(mainq[1].cb \in Life /\ mainq[1].p = mainq[i + 1].p)
    BY <1>3, <2>1 DEF LifeQueuedOnce, Life
  <2> QED
    BY <1>1, <2>1, <2>2, <2>3
<1>4. ASSUME NEW i \in DOMAIN mainq'
      PROVE  /\ mainq'[i].cb = "newplayer_new"  => stage'[mainq'[i].p] = "new"
             /\ mainq'[i].cb = "newplayer_free" => stage'[mainq'[i].p] = "freeing"
  <2>1. i + 1 \in DOMAIN mainq /\ mainq'[i] = mainq[i + 1]
    BY <1>1
  <2> QED
    BY <1>3, <2>1 DEF LifeQueuedOnce, Life
<1>5. ASSUME NEW i \in DOMAIN mainq', NEW j \in DOMAIN mainq',
             mainq'[i].cb \in Life, mainq'[j].cb \in Life, mainq'[i].p = mainq'[j].p
      PROVE  i = j
  <2>1. /\ i + 1 \in DOMAIN mainq /\ mainq'[i] = mainq[i + 1]
        /\ j + 1 \in DOMAIN mainq /\ mainq'[j] = mainq[j + 1]
        /\ i \in Nat /\ j \in Nat
    BY <1>1
  <2>2. i + 1 = j + 1
    BY <1>5, <2>1 DEF LifeQueuedOnce, Life
  <2> QED
    BY <2>1, <2>2
<1> QED
  BY <1>4, <1>5 DEF LifeQueuedOnce, Life

LEMMA RunInMainSafe == ASSUME TypeOK, ZoneInv, RunInMain PROVE ZoneInv'
<1> DEFINE m == Head(mainq)
<1>1. /\ mainq # <<>> /\ mainq' = Tail(mainq)
      /\ m \in MainMessages
      /\ 1 \in DOMAIN mainq /\ m = mainq[1]
      /\ UNCHANGED draining
  BY DEF RunInMain, TypeOK
<1>2. /\ m.cb \in {"newplayer_new", "newplayer_free", "player_sync_done"} => m.p \in Players
      /\ m.cb = "arena_sync_done" => m.a \in Arenas
      /\ m.cb \in {"newplayer_new", "newplayer_free", "player_sync_done", "arena_sync_done"}
  BY <1>1 DEF MainMessages
<1>3. CASE m.cb = "newplayer_new"
  <2>1. /\ stage' = [stage EXCEPT ![m.p] = "listed"]
        /\ UNCHANGED <<status, arena, newarena, astatus, aname, holds, resurrect>>
    BY <1>3 DEF RunInMain, avars
  <2>2. m.p \in Players /\ stage[m.p] = "new"
    BY <1>1, <1>2, <1>3 DEF ZoneInv, LifeQueuedOnce
  <2>3. arena[m.p] = NoArena /\ newarena[m.p] = NoArena
    BY <2>2 DEF ZoneInv, NewcomersHaveNoArena
  <2> HIDE DEF m
  <2>4. Listed' = Listed \cup {m.p}
    BY <2>1, <2>2 DEF Listed, TypeOK
  <2>5. InsideIsListed' /\ NewcomersHaveNoArena'
    BY <2>1, <2>2 DEF ZoneInv, InsideIsListed, NewcomersHaveNoArena, TypeOK
  <2>6. LifeQueuedOnce'
    <3>1. \A q \in Players : stage'[q] = stage[q] \/ (m.cb \in Life /\ m.p = q)
      BY <1>3, <2>1 DEF TypeOK, Life
    <3> QED
      BY <1>1, <3>1, LifeTail DEF ZoneInv, m
  <2>7. DrainedIsGone' /\ HeldArenasWait'
    BY <1>1, <2>1 DEF ZoneInv, DrainedIsGone, HeldArenasWait
  <2>8. OccupiedArenasOpen' /\ WantedArenasReturn'
    BY <2>1, <2>3, <2>4 DEF ZoneInv, OccupiedArenasOpen, WantedArenasReturn
  <2> QED
    BY <2>5, <2>6, <2>7, <2>8 DEF ZoneInv
<1>4. CASE m.cb = "newplayer_free"
  <2>1. ForgetPlayer(m.p) /\ UNCHANGED <<astatus, aname, holds, resurrect>>
    BY <1>4 DEF RunInMain, avars
  <2>2. m.p \in Players /\ stage[m.p] = "freeing"
    BY <1>1, <1>2, <1>4 DEF ZoneInv, LifeQueuedOnce
  <2>3. /\ stage' = [stage EXCEPT ![m.p] = "none"]
        /\ status' = [status EXCEPT ![m.p] = "uninitialized"]
        /\ arena' = [arena EXCEPT ![m.p] = NoArena]
        /\ newarena' = [newarena EXCEPT ![m.p] = NoArena]
    BY <2>1 DEF ForgetPlayer
  <2> HIDE DEF m
  <2>4. Listed' = Listed
    BY <2>2, <2>3 DEF Listed, TypeOK
  <2>5. m.p \notin Listed
    BY <2>2 DEF Listed
  <2>6. InsideIsListed' /\ NewcomersHaveNoArena'
    BY <2>2, <2>3 DEF ZoneInv, InsideIsListed, NewcomersHaveNoArena, TypeOK, InArenaStatuses
  <2>7. LifeQueuedOnce'
    <3>1. \A q \in Players : stage'[q] = stage[q] \/ (m.cb \in Life /\ m.p = q)
      BY <1>4, <2>3 DEF TypeOK, Life
    <3> QED
      BY <1>1, <3>1, LifeTail DEF ZoneInv, m
  <2>8. DrainedIsGone' /\ HeldArenasWait'
    BY <1>1, <2>1 DEF ZoneInv, DrainedIsGone, HeldArenasWait
  <2>9. OccupiedArenasOpen' /\ WantedArenasReturn'
    BY <2>1, <2>3, <2>4, <2>5 DEF ZoneInv, OccupiedArenasOpen, WantedArenasReturn, TypeOK, Listed
  <2> QED
    BY <2>6, <2>7, <2>8, <2>9 DEF ZoneInv
<1>5. CASE m.cb \in {"player_sync_done", "arena_sync_done"}
  <2>1. UNCHANGED <<stage, arena, newarena, aname, holds, resurrect>>
    BY <1>5 DEF RunInMain, pvars, avars
  <2>2. Quiet
    BY <1>2, <1>5, SyncDoneQuiet DEF RunInMain, pvars, Quiet
  <2>3. \/ UNCHANGED astatus
        \/ m.a \in Arenas /\ astatus' = [astatus EXCEPT ![m.a] = SyncedArenaStatus(@)]
    BY <1>2, <1>5 DEF RunInMain, avars
  <2> HIDE DEF m
  <2>4. \A a \in Arenas :
           \/ astatus'[a] = astatus[a]
           \/ astatus[a] = "wait_sync1" /\ astatus'[a] = "running"
           \/ astatus[a] = "wait_sync2" /\ astatus'[a] = "do_destroy1"
    BY <2>3 DEF TypeOK, SyncedArenaStatus
  <2>5. InsideIsListed' /\ NewcomersHaveNoArena'
    BY <2>1, <2>2 DEF ZoneInv, InsideIsListed, NewcomersHaveNoArena, Quiet
  <2>6. LifeQueuedOnce'
    BY <1>1, <2>1, LifeTail DEF ZoneInv, m
  <2>7. DrainedIsGone' /\ HeldArenasWait'
    BY <1>1, <2>1, <2>4 DEF ZoneInv, DrainedIsGone, HeldArenasWait, TypeOK, HoldStatuses
  <2>8. Listed' = Listed
    BY <2>1 DEF Listed
  <2>9. OccupiedArenasOpen'
    <3> SUFFICES ASSUME NEW p \in Listed, arena[p] # NoArena
                 PROVE  astatus'[arena[p]] \in {"running", "closing"}
      BY <2>1, <2>8 DEF OccupiedArenasOpen
    <3>1. arena[p] \in Arenas
      BY DEF Listed, TypeOK
    <3>2. astatus[arena[p]] \in {"running", "closing"}
      BY DEF ZoneInv, OccupiedArenasOpen
    <3> QED
      BY <2>4, <3>1, <3>2
  <2>10. WantedArenasReturn'
    <3> SUFFICES ASSUME NEW p \in Listed, newarena[p] # NoArena,
                        astatus'[newarena[p]] \in OnTheWayOut
                 PROVE  newarena[p] \in resurrect
      BY <2>1, <2>8 DEF WantedArenasReturn
    <3>1. newarena[p] \in Arenas
      BY DEF Listed, TypeOK
    <3>2. astatus[newarena[p]] \in OnTheWayOut
      BY <2>4, <3>1 DEF OnTheWayOut
    <3> QED
      BY <3>2 DEF ZoneInv, WantedArenasReturn
  <2> QED
    BY <2>5, <2>6, <2>7, <2>9, <2>10 DEF ZoneInv
<1> QED
  BY <1>2, <1>3, <1>4, <1>5

----------------------------------------------------------------------------
(* What the server does on its own: the arenas.                            *)

\* A step of one arena which is neither running nor closing, without a drain.
LEMMA OneArenaStep ==
    ASSUME TypeOK, ZoneInv, NEW a \in Arenas, NEW s,
           astatus[a] \notin {"running", "closing"},
           UNCHANGED <<stage, status, arena, newarena, mainq>>,
           astatus' = [astatus EXCEPT ![a] = s],
           resurrect' = resurrect \/ (resurrect' = resurrect \ {a} /\ s \notin OnTheWayOut),
           s \in OnTheWayOut => astatus[a] \in OnTheWayOut,
           DrainedIsGone', HeldArenasWait'
    PROVE  ZoneInv'
<1>1. Listed' = Listed
  BY DEF Listed
<1>2. OccupiedArenasOpen'
  BY <1>1 DEF ZoneInv, OccupiedArenasOpen, TypeOK, Listed
<1>3. WantedArenasReturn'
  <2> SUFFICES ASSUME NEW p \in Listed, newarena[p] # NoArena,
                      astatus'[newarena[p]] \in OnTheWayOut
               PROVE  newarena[p] \in resurrect'
    BY <1>1 DEF WantedArenasReturn
  <2>1. newarena[p] \in Arenas
    BY DEF Listed, TypeOK
  <2>2. astatus[newarena[p]] \in OnTheWayOut
    BY <2>1 DEF TypeOK
  <2>3. newarena[p] \in resurrect
    BY <2>2 DEF ZoneInv, WantedArenasReturn
  <2>4. newarena[p] = a => s \in OnTheWayOut
    BY <2>1 DEF TypeOK
  <2> QED
    BY <2>3, <2>4
<1> QED
  BY <1>2, <1>3, ArenaStep

\* The status that Turn is about, and the one that it comes from.
LEMMA TurnFrom ==
    ASSUME NEW a \in Arenas
    PROVE  /\ Turn(a) = "do_init0" => astatus[a] = "do_init0"
           /\ Turn(a) = "do_init1" => astatus[a] \in {"do_init1", "wait_holds0"}
           /\ Turn(a) = "do_init2" => astatus[a] \in {"do_init2", "wait_holds1"}
           /\ Turn(a) = "do_write_data" => astatus[a] = "do_write_data"
           /\ Turn(a) = "do_destroy1" => astatus[a] = "do_destroy1"
           /\ Turn(a) = "do_destroy2" => astatus[a] \in {"do_destroy2", "wait_holds2"}
BY DEF Turn

\* Whoever takes a turn is not held.
LEMMA TurnNotHeld ==
    ASSUME TypeOK, ZoneInv, NEW a \in Arenas, Turn(a) \notin HoldStatuses
    PROVE  holds[a] = 0
<1>1. CASE holds[a] > 0
  BY <1>1 DEF Turn, ZoneInv, HeldArenasWait
<1>2. holds[a] \in Nat
  BY DEF TypeOK
<1> QED
  BY <1>1, <1>2

LEMMA CallbacksHoldSafe ==
    ASSUME TypeOK, ZoneInv, NEW a \in Arenas, NEW s \in HoldStatuses, MainFree,
           CallbacksHold(a, s), astatus[a] \notin {"running", "closing"},
           s \in OnTheWayOut => astatus[a] \in OnTheWayOut
    PROVE  ZoneInv'
<1>1. /\ astatus' = [astatus EXCEPT ![a] = s]
      /\ UNCHANGED <<stage, status, arena, newarena, mainq, draining, resurrect>>
  BY DEF CallbacksHold, pvars, tvars, qvars
<1>2. draining = NoArena
  BY DEF MainFree
<1>3. DrainedIsGone'
  BY <1>1, <1>2 DEF DrainedIsGone
<1>4. HeldArenasWait'
  <2>1. PICK n \in 0 .. MaxHolds : holds' = [holds EXCEPT ![a] = @ + n]
    BY DEF CallbacksHold
  <2> QED
    BY <1>1, <2>1 DEF ZoneInv, HeldArenasWait, TypeOK
<1> QED
  BY <1>1, <1>3, <1>4, OneArenaStep

LEMMA SyncArenaSafe ==
    ASSUME TypeOK, ZoneInv, NEW a \in Arenas, NEW c, NEW w, NEW s, MainFree,
           SyncArena(a, c, w, s), holds[a] = 0, astatus[a] \notin {"running", "closing"},
           {w, s} \cap OnTheWayOut # {} => astatus[a] \in OnTheWayOut
    PROVE  ZoneInv'
<1>1. PICK u \in {w, s} : astatus' = [astatus EXCEPT ![a] = u]
  BY DEF SyncArena
<1>2. UNCHANGED <<stage, status, arena, newarena, mainq, draining, resurrect, holds>>
  BY DEF SyncArena, pvars, tvars
<1>3. draining = NoArena
  BY DEF MainFree
<1>4. DrainedIsGone'
  BY <1>2, <1>3 DEF DrainedIsGone
<1>5. HeldArenasWait'
  BY <1>1, <1>2 DEF ZoneInv, HeldArenasWait, TypeOK
<1> QED
  BY <1>1, <1>2, <1>4, <1>5, OneArenaStep

LEMMA ProcessArenaStatesSafe ==
    ASSUME TypeOK, ZoneInv, NEW a \in Arenas, ProcessArenaStates(a)
    PROVE  ZoneInv'
<1>1. CASE ArenaInit0(a) \/ ArenaInit1(a)
  BY <1>1, TurnFrom, CallbacksHoldSafe DEF ArenaInit0, ArenaInit1, HoldStatuses, OnTheWayOut
<1>2. CASE ArenaInit2(a)
  <2>1. MainFree /\ Turn(a) = "do_init2" /\ SyncArena(a, "get_arena", "wait_sync1", "running")
    BY <1>2 DEF ArenaInit2
  <2>2. holds[a] = 0 /\ astatus[a] \notin {"running", "closing"}
    BY <2>1, TurnFrom, TurnNotHeld DEF HoldStatuses
  <2>3. {"wait_sync1", "running"} \cap OnTheWayOut = {}
    BY DEF OnTheWayOut
  <2> QED
    BY <2>1, <2>2, <2>3, SyncArenaSafe
<1>3. CASE ArenaWriteData(a)
  <2>1. MainFree /\ Turn(a) = "do_write_data" /\ astatus[a] = "do_write_data"
    BY <1>3, TurnFrom DEF ArenaWriteData
  <2>2. holds[a] = 0 /\ draining = NoArena
    BY <2>1, TurnNotHeld DEF HoldStatuses, MainFree
  <2>3. CASE Occupied(a)
    <3>1. /\ astatus' = [astatus EXCEPT ![a] = "running"]
          /\ UNCHANGED <<stage, status, arena, newarena, mainq, draining,
                         resurrect, holds>>
      BY <1>3, <2>3 DEF ArenaWriteData, pvars, tvars, qvars
    <3>2. DrainedIsGone' /\ HeldArenasWait'
      BY <2>2, <3>1 DEF ZoneInv, DrainedIsGone, HeldArenasWait, TypeOK
    <3> QED
      BY <2>1, <3>1, <3>2, OneArenaStep DEF OnTheWayOut
  <2>4. CASE ~Occupied(a)
    BY <1>3, <2>1, <2>2, <2>4, SyncArenaSafe DEF ArenaWriteData, OnTheWayOut
  <2> QED
    BY <2>3, <2>4
<1>4. CASE ArenaDestroy1(a)
  BY <1>4, TurnFrom, CallbacksHoldSafe DEF ArenaDestroy1, HoldStatuses, OnTheWayOut
<1>5. CASE ArenaResurrect(a)
  <2>1. /\ astatus[a] \in {"do_destroy2", "wait_holds2"} /\ draining = NoArena
        /\ astatus' = [astatus EXCEPT ![a] = "do_init0"]
        /\ holds' = [holds EXCEPT ![a] = 0]
        /\ resurrect' = resurrect \ {a}
        /\ UNCHANGED <<stage, status, arena, newarena, mainq, draining>>
    BY <1>5, TurnFrom DEF ArenaResurrect, pvars, tvars, qvars, MainFree
  <2>2. DrainedIsGone' /\ HeldArenasWait'
    BY <2>1 DEF ZoneInv, DrainedIsGone, HeldArenasWait, TypeOK
  <2> QED
    BY <2>1, <2>2, OneArenaStep DEF OnTheWayOut
<1>6. CASE ArenaRemove(a)
  <2>1. /\ Turn(a) = "do_destroy2" /\ astatus[a] \in {"do_destroy2", "wait_holds2"}
        /\ a \notin resurrect /\ draining' = a
        /\ astatus' = [astatus EXCEPT ![a] = "do_destroy2"]
        /\ aname' = [aname EXCEPT ![a] = NoName]
        /\ UNCHANGED <<stage, status, arena, newarena, mainq, holds, resurrect>>
    BY <1>6, TurnFrom DEF ArenaRemove, pvars, qvars
  <2>2. holds[a] = 0
    BY <2>1, TurnNotHeld DEF HoldStatuses
  <2>3. DrainedIsGone' /\ HeldArenasWait'
    BY <2>1, <2>2 DEF ZoneInv, DrainedIsGone, HeldArenasWait, TypeOK
  <2> QED
    BY <2>1, <2>3, OneArenaStep DEF OnTheWayOut
<1>7. CASE ArenaDetachFails(a)
  <2>1. /\ Turn(a) = "do_destroy2" /\ astatus[a] \in {"do_destroy2", "wait_holds2"}
        /\ draining = NoArena
        /\ astatus' = [astatus EXCEPT ![a] = "running"]
        /\ resurrect' = resurrect \ {a}
        /\ UNCHANGED <<stage, status, arena, newarena, mainq, draining, holds>>
    BY <1>7, TurnFrom DEF ArenaDetachFails, pvars, tvars, qvars, MainFree
  <2>2. holds[a] = 0
    BY <2>1, TurnNotHeld DEF HoldStatuses
  <2>3. DrainedIsGone' /\ HeldArenasWait'
    BY <2>1, <2>2 DEF ZoneInv, DrainedIsGone, HeldArenasWait, TypeOK
  <2> QED
    BY <2>1, <2>3, OneArenaStep DEF OnTheWayOut
<1> QED
  BY <1>1, <1>2, <1>3, <1>4, <1>5, <1>6, <1>7 DEF ProcessArenaStates

\* ReapArenas: what it closes, nobody uses; what somebody wants, it brings back.
LEMMA ReapSafe == ASSUME TypeOK, ZoneInv, Reap PROVE ZoneInv'
<1> DEFINE wanted == WantedArenas
           used   == UsedArenas
           open   == {a \in Arenas : astatus[a] \in {"running", "closing"}}
           reap   == {a \in open \ used : a \notin wanted \/ astatus[a] = "closing"}
<1>1. /\ draining = NoArena
      /\ resurrect' = resurrect \cup {a \in wanted \cap open : astatus[a] = "closing"}
      /\ astatus' = [a \in Arenas |->
                        IF a \in reap /\ (astatus[a] = "closing" \/ a \notin keepalive)
                          THEN "do_write_data" ELSE astatus[a]]
      /\ UNCHANGED <<stage, status, arena, newarena, mainq, holds, draining>>
  BY DEF Reap, MainFree, pvars, tvars, qvars
<1>2. Listed' = Listed
  BY <1>1 DEF Listed
<1>3. DrainedIsGone'
  BY <1>1 DEF DrainedIsGone
<1>4. HeldArenasWait'
  BY <1>1 DEF ZoneInv, HeldArenasWait, HoldStatuses, TypeOK
<1>5. OccupiedArenasOpen'
  <2> SUFFICES ASSUME NEW p \in Listed, arena[p] # NoArena
               PROVE  astatus'[arena[p]] \in {"running", "closing"}
    BY <1>1, <1>2 DEF OccupiedArenasOpen
  <2>1. arena[p] \in Arenas /\ arena[p] \in used
    BY DEF Listed, TypeOK, UsedArenas
  <2>2. astatus'[arena[p]] = astatus[arena[p]]
    BY <1>1, <2>1
  <2> QED
    BY <2>2 DEF ZoneInv, OccupiedArenasOpen
<1>6. WantedArenasReturn'
  <2> SUFFICES ASSUME NEW p \in Listed, newarena[p] # NoArena,
                      astatus'[newarena[p]] \in OnTheWayOut
               PROVE  newarena[p] \in resurrect'
    BY <1>1, <1>2 DEF WantedArenasReturn
  <2>1. newarena[p] \in Arenas
    BY DEF Listed, TypeOK
  <2>2. CASE astatus[newarena[p]] \in OnTheWayOut
    BY <1>1, <2>2 DEF ZoneInv, WantedArenasReturn
  <2>3. CASE astatus[newarena[p]] \notin OnTheWayOut
    <3>1. newarena[p] \in reap /\ astatus[newarena[p]] # "closing"
      BY <1>1, <2>1, <2>3 DEF OnTheWayOut
    <3>2. newarena[p] \notin wanted /\ newarena[p] \notin used
      BY <3>1
    <3> QED
      BY <3>2 DEF WantedArenas, UsedArenas
  <2> QED
    BY <2>2, <2>3
<1> QED
  BY <1>1, <1>3, <1>4, <1>5, <1>6, ArenaStep

LEMMA ArenaTimersSafe ==
    ASSUME TypeOK, ZoneInv, ArenaFree \/ (\E a \in Arenas : Unhold(a))
    PROVE  ZoneInv'
<1>1. CASE ArenaFree
  <2>1. /\ draining \in Arenas /\ draining' = NoArena
        /\ astatus[draining] = "do_destroy2"
        /\ astatus' = [astatus EXCEPT ![draining] = "none"]
        /\ UNCHANGED <<stage, status, arena, newarena, mainq, holds, resurrect>>
    BY <1>1 DEF ArenaFree, ZoneInv, DrainedIsGone, TypeOK, pvars, qvars
  <2>2. DrainedIsGone' /\ HeldArenasWait'
    BY <2>1 DEF ZoneInv, DrainedIsGone, HeldArenasWait, HoldStatuses, TypeOK
  <2> QED
    BY <2>1, <2>2, OneArenaStep DEF OnTheWayOut
<1>2. ASSUME NEW a \in Arenas, Unhold(a) PROVE ZoneInv'
  <2>1. /\ astatus[a] \in HoldStatuses
        /\ holds' = [holds EXCEPT ![a] = @ - 1]
        /\ UNCHANGED <<stage, status, arena, newarena, mainq, astatus, aname,
                       resurrect, draining>>
    BY <1>2 DEF Unhold, pvars, tvars, qvars
  <2>2. DrainedIsGone' /\ HeldArenasWait'
    BY <2>1 DEF ZoneInv, DrainedIsGone, HeldArenasWait, TypeOK
  <2>3. OccupiedArenasOpen' /\ WantedArenasReturn'
    BY <2>1 DEF ZoneInv, OccupiedArenasOpen, WantedArenasReturn, Listed
  <2> QED
    BY <2>1, <2>2, <2>3, ArenaStep
<1> QED
  BY <1>1, <1>2

----------------------------------------------------------------------------
(* The theorems.                                                           *)

LEMMA InitSafe == Init => ZoneInv
BY ZoneAssumption DEF Init, ZoneInv, InsideIsListed, NewcomersHaveNoArena,
       LifeQueuedOnce, DrainedIsGone,
       HeldArenasWait, OccupiedArenasOpen, WantedArenasReturn, InArenaStatuses, Listed

LEMMA NextSafe == TypeOK /\ ZoneInv /\ [Next]_vars => ZoneInv'
<1> SUFFICES ASSUME TypeOK, ZoneInv, [Next]_vars PROVE ZoneInv'
  OBVIOUS
<1>1. CASE Input
  BY <1>1, NewConnectionSafe, RequestSafe, GoSafe, RecycleArenaSafe DEF Input
<1>2. CASE Server
  BY <1>2, PlayerPassSafe, RunActionSafe, FreePlayerSafe, DBThreadSafe,
     RunInMainSafe, ReapSafe, ArenaTimersSafe, ProcessArenaStatesSafe DEF Server
<1>3. CASE UNCHANGED vars
  <2>1. Quiet
    BY <1>3 DEF vars, pvars, Quiet
  <2> QED
    BY <1>3, <2>1, QuietStep DEF vars, pvars, avars, tvars, qvars
<1> QED
  BY <1>1, <1>2, <1>3 DEF Next

\* The invariant holds in every reachable state of every zone.
THEOREM ZoneInvariant == Spec => []ZoneInv
<1>1. Spec => []TypeOK
  BY TypeCorrect
<1> QED
  BY <1>1, InitSafe, NextSafe, PTL DEF Spec

\* No arena is written out, destroyed or freed around a player who is in it,
\* whatever the reaper, the database and the requests of others do.
THEOREM ArenasStayOpen == Spec => []OccupiedArenasOpen
<1>1. ZoneInv => OccupiedArenasOpen
  BY DEF ZoneInv
<1> QED
  BY <1>1, ZoneInvariant, PTL

\* A player whose status says that p->arena is valid is in an open arena.
THEOREM PlayersStayInOpenArenas == Spec => []PlayersInOpenArenas
<1>1. ZoneInv => PlayersInOpenArenas
  BY DEF ZoneInv, InsideIsListed, OccupiedArenasOpen, PlayersInOpenArenas, Listed
<1> QED
  BY <1>1, ZoneInvariant, PTL

\* An arena that a player wants to enter while it is on its way out is marked
\* to come back.
THEOREM WantedArenasComeBack == Spec => []WantedArenasReturn
<1>1. ZoneInv => WantedArenasReturn
  BY DEF ZoneInv
<1> QED
  BY <1>1, ZoneInvariant, PTL

\* The assertions of ProcessArenaStates do not fail.
THEOREM AssertionsHold == Spec => []HoldsAssertions
<1>1. TypeOK /\ ZoneInv => HoldsAssertions
  <2> SUFFICES ASSUME TypeOK, ZoneInv, NEW a \in Arenas,
                      Turn(a) \in {"do_init0", "do_init1", "do_destroy1"}
               PROVE  holds[a] = 0
    BY DEF HoldsAssertions
  <2> QED
    BY TurnNotHeld DEF HoldStatuses
<1> QED
  BY <1>1, TypeCorrect, ZoneInvariant, PTL

\* Steps that neither name nor create an arena keep the names apart.
LEMMA NamesKept ==
    ASSUME TypeOK, OneArenaPerName, UNCHANGED aname,
           \A a \in Arenas : astatus[a] = "none" => astatus'[a] = "none"
    PROVE  OneArenaPerName'
BY DEF OneArenaPerName, Exists

LEMMA GoNames ==
    ASSUME TypeOK, OneArenaPerName, NEW p \in Players, NEW n \in ArenaNames, Go(p, n)
    PROVE  OneArenaPerName'
<1>1. PICK a \in Arenas : PlaceIn(p, n, a)
  BY DEF Go
<1>2. CASE FoundArenas(n) = {}
  <2>1. \A b \in Arenas : astatus[b] # "none" => aname[b] # n
    BY <1>2 DEF FoundArenas, Exists
  <2>2. /\ astatus' = [astatus EXCEPT ![a] = "do_init0"]
        /\ aname' = [aname EXCEPT ![a] = n]
    BY <1>1, <1>2 DEF PlaceIn, CreateArena
  <2> QED
    BY <2>1, <2>2 DEF OneArenaPerName, Exists, TypeOK
<1>3. CASE FoundArenas(n) # {}
  BY <1>1, <1>3, NamesKept DEF PlaceIn
<1> QED
  BY <1>2, <1>3

\* There is one arena of each name that players can ask for, although arenas
\* are looked up and created while others are renamed and removed.
THEOREM NamesAreUnique == Spec => []OneArenaPerName
<1>1. Init => OneArenaPerName
  BY ZoneAssumption DEF Init, OneArenaPerName, Exists
<1>2. TypeOK /\ ZoneInv /\ OneArenaPerName /\ [Next]_vars => OneArenaPerName'
  <2> SUFFICES ASSUME TypeOK, ZoneInv, OneArenaPerName, [Next]_vars
               PROVE  OneArenaPerName'
    OBVIOUS
  <2>1. ASSUME NEW a \in Arenas, RecycleArena(a) PROVE OneArenaPerName'
    BY <2>1, NamesKept DEF RecycleArena, TypeOK
  <2>2. CASE Reap
    BY <2>2, NamesKept DEF Reap, TypeOK
  <2>3. CASE ArenaFree
    BY <2>3 DEF ArenaFree, OneArenaPerName, Exists, TypeOK
  <2>4. CASE RunInMain
    <3> DEFINE m == Head(mainq)
    <3>1. m \in MainMessages
      BY <2>4 DEF RunInMain, TypeOK
    <3>2. /\ UNCHANGED aname
          /\ \/ UNCHANGED astatus
             \/ /\ m.a \in Arenas
                /\ astatus' = [astatus EXCEPT ![m.a] = SyncedArenaStatus(@)]
      <4>1. CASE m.cb = "arena_sync_done"
        <5>1. m.a \in Arenas
          BY <3>1, <4>1 DEF MainMessages
        <5> QED
          BY <2>4, <4>1, <5>1 DEF RunInMain
      <4>2. CASE m.cb \in {"newplayer_new", "newplayer_free", "player_sync_done"}
        BY <2>4, <4>2 DEF RunInMain, avars
      <4> QED
        BY <3>1, <4>1, <4>2 DEF MainMessages
    <3> HIDE DEF m
    <3>3. \A a \in Arenas : astatus[a] = "none" => astatus'[a] = "none"
      BY <3>2 DEF TypeOK, SyncedArenaStatus
    <3> QED
      BY <3>2, <3>3, NamesKept
  <2>5. ASSUME NEW a \in Arenas, ProcessArenaStates(a) PROVE OneArenaPerName'
    <3>1. astatus[a] # "none"
      BY <2>5, TurnFrom DEF ProcessArenaStates, ArenaInit0, ArenaInit1, ArenaInit2,
            ArenaWriteData, ArenaDestroy1, ArenaResurrect, ArenaRemove, ArenaDetachFails
    <3>2. \A b \in Arenas : b # a => astatus'[b] = astatus[b]
      BY <2>5 DEF ProcessArenaStates, ArenaInit0, ArenaInit1, ArenaInit2, CallbacksHold,
            SyncArena, ArenaWriteData, ArenaDestroy1, ArenaResurrect, ArenaRemove,
            ArenaDetachFails, TypeOK
    <3>3. \/ UNCHANGED aname
          \/ \E n \in {NoName, BrokenName} : aname' = [aname EXCEPT ![a] = n]
      BY <2>5 DEF ProcessArenaStates, ArenaInit0, ArenaInit1, ArenaInit2, CallbacksHold,
            SyncArena, ArenaWriteData, ArenaDestroy1, ArenaResurrect, ArenaRemove,
            ArenaDetachFails
    <3>4. CASE UNCHANGED aname
      BY <3>1, <3>2, <3>4, NamesKept
    <3>5. ASSUME NEW n \in {NoName, BrokenName}, aname' = [aname EXCEPT ![a] = n]
          PROVE  OneArenaPerName'
      <4>1. n \notin ArenaNames
        BY ZoneAssumption
      <4>2. \A b \in Arenas : b # a => aname'[b] = aname[b] /\ astatus'[b] = astatus[b]
        BY <3>2, <3>5 DEF TypeOK
      <4>3. aname'[a] = n
        BY <3>5 DEF TypeOK
      <4> QED
        BY <4>1, <4>2, <4>3 DEF OneArenaPerName, Exists
    <3> QED
      BY <3>3, <3>4, <3>5
  <2>6. ASSUME NEW p \in Players, NEW n \in ArenaNames, Go(p, n)
        PROVE  OneArenaPerName'
    BY <2>6, GoNames
  <2>7. CASE UNCHANGED <<astatus, aname>>
    BY <2>7, NamesKept
  <2>8. CASE Input
    BY <2>1, <2>6, <2>7, <2>8 DEF Input, NewConnection, Login, KickPlayer,
          Leaving, avars
  <2>9. ASSUME NEW p \in Players, RunAction(p) \/ AuthDone(p) \/ FreePlayer(p)
        PROVE  UNCHANGED <<astatus, aname>>
    BY <2>9 DEF RunAction, ActAuthenticate, ActGetGlobal, ActConnect, ActLoginResponse,
          ActGetArena, ActEnterArena, ActLeaveArena, ActPutArena, ActLeaveZone, Acted,
          AuthDone, FreePlayer, avars
  <2>10. CASE Server
    BY <2>2, <2>3, <2>4, <2>5, <2>7, <2>9, <2>10 DEF Server,
          PlayerPass, DBThread, Unhold, avars
  <2> QED
    BY <2>7, <2>8, <2>10 DEF Next, vars, avars
<1> QED
  BY <1>1, <1>2, TypeCorrect, ZoneInvariant, PTL DEF Spec

----------------------------------------------------------------------------
(* Steps that do not take a player's arena or his place on the list away,  *)
(* nor give him one.                                                       *)

Inward == {"do_freq_and_arena_sync", "arena_resp_and_cbs", "playing"}

Calm == \A p \in Players :
    /\ status'[p] \in LoggingIn => status[p] \in LoggingIn
    /\ status[p] \in {"uninitialized", "timewait"} => status'[p] = status[p]
    /\ status'[p] \in Inward =>
          status[p] \in Inward \/ (status[p] = "wait_arena_sync1" /\ p \notin leaveflag)
    /\ status'[p] = "wait_arena_sync1" =>
          status[p] = "wait_arena_sync1" /\ (p \in leaveflag => p \in leaveflag')

Moves == \A p \in Players :
    status'[p] # status[p] => <<status[p], status'[p]>> \in Documented

LEMMA CalmStep ==
    ASSUME TypeOK, StatusInv, Calm, UNCHANGED <<stage, arena, newarena>>
    PROVE  StatusInv'
<1>1. Listed' = Listed /\ Listed \subseteq Players
  BY DEF Listed
<1>2. StrangersHaveNoArena'
  BY DEF StatusInv, StrangersHaveNoArena, Calm
<1>3. UnlistedStatus'
  BY DEF StatusInv, UnlistedStatus, Calm
<1>4. PlacedPlayersAreLeaving'
  BY <1>1 DEF StatusInv, PlacedPlayersAreLeaving, Calm, Inward
<1> QED
  BY <1>2, <1>3, <1>4 DEF StatusInv

\* A step that leaves the players alone.
LEMMA StillStep ==
    ASSUME TypeOK, StatusInv, UNCHANGED <<stage, status, arena, newarena, leaveflag>>
    PROVE  StatusInv' /\ Moves
BY CalmStep DEF Calm, Moves

LEMMA LeaveCalm ==
    ASSUME TypeOK, NEW L, InitiateLeaveArena(L)
    PROVE  Calm /\ Moves
<1>1. ASSUME NEW p \in Players
      PROVE  /\ status'[p] = status[p] \/ status'[p] = LeftStatus(status[p])
             /\ p \in leaveflag => p \in leaveflag'
             /\ status[p] \in Statuses
  BY DEF InitiateLeaveArena, TypeOK
<1>2. ASSUME NEW s \in Statuses, LeftStatus(s) # s
      PROVE  /\ <<s, LeftStatus(s)>> \in
                   {<<"do_freq_and_arena_sync", "loggedin">>,
                    <<"arena_resp_and_cbs", "do_arena_sync2">>,
                    <<"playing", "leaving_arena">>}
  BY <1>2 DEF LeftStatus
<1>3. Calm
  BY <1>1, <1>2 DEF Calm, Inward, LoggingIn
<1>4. Moves
  BY <1>1, <1>2 DEF Moves, Documented
<1> QED
  BY <1>3, <1>4

LEMMA SyncDoneCalm ==
    ASSUME TypeOK, NEW p \in Players, PlayerSyncDone(p), UNCHANGED leaveflag
    PROVE  Calm /\ Moves
<1>1. ASSUME NEW q \in Players
      PROVE  \/ status'[q] = status[q]
             \/ status'[q] = SyncedStatus(q)
             \/ status[q] = "wait_auth" /\ status'[q] = "need_global_sync"
  BY DEF PlayerSyncDone, Replacement
<1>2. ASSUME NEW q \in Players, SyncedStatus(q) # status[q]
      PROVE  /\ <<status[q], SyncedStatus(q)>> \in
                   {<<"wait_arena_sync1", "arena_resp_and_cbs">>,
                    <<"wait_arena_sync1", "do_arena_sync2">>,
                    <<"wait_arena_sync2", "loggedin">>,
                    <<"wait_global_sync1", "do_global_callbacks">>,
                    <<"wait_global_sync2", "timewait">>}
             /\ SyncedStatus(q) = "arena_resp_and_cbs" => q \notin leaveflag
  BY <1>2 DEF SyncedStatus
<1>3. Calm
  BY <1>1, <1>2 DEF Calm, Inward, LoggingIn
<1>4. Moves
  BY <1>1, <1>2 DEF Moves, Documented
<1> QED
  BY <1>3, <1>4

LEMMA SyncPlayerCalm ==
    ASSUME TypeOK, NEW p \in Players, NEW w \in BOOLEAN, NEW c, NEW a,
           SyncPlayer(p, w, c, a), UNCHANGED leaveflag
    PROVE  Calm /\ Moves
<1>1. CASE w = TRUE
  BY <1>1 DEF SyncPlayer, Calm, Moves
<1>2. CASE w = FALSE
  BY <1>2, SyncDoneCalm DEF SyncPlayer
<1> QED
  BY <1>1, <1>2

LEMMA RunActionCalm ==
    ASSUME TypeOK, NEW p \in Players, RunAction(p)
    PROVE  Calm /\ Moves
<1>1. UNCHANGED leaveflag
  BY DEF RunAction, ActAuthenticate, ActGetGlobal, ActConnect, ActLoginResponse,
         ActGetArena, ActEnterArena, ActLeaveArena, ActPutArena, ActLeaveZone, Acted
<1>2. CASE ActGetGlobal(p) \/ ActGetArena(p)
  <2>1. HasPersist \in BOOLEAN
    BY ZoneAssumption
  <2> QED
    BY <1>1, <1>2, <2>1, SyncPlayerCalm DEF ActGetGlobal, ActGetArena
<1>3. CASE ActPutArena(p)
  <2>1. (HasPersist /\ p \in async) \in BOOLEAN
    OBVIOUS
  <2> QED
    BY <1>1, <1>3, <2>1, SyncPlayerCalm DEF ActPutArena
<1>4. CASE ActLeaveZone(p)
  <2>1. (HasPersist /\ p \in gsync) \in BOOLEAN
    OBVIOUS
  <2> QED
    BY <1>1, <1>4, <2>1, SyncPlayerCalm DEF ActLeaveZone
<1>5. CASE ActAuthenticate(p) \/ ActConnect(p) \/ ActLoginResponse(p)
           \/ ActEnterArena(p) \/ ActLeaveArena(p)
  <2>1. UNCHANGED status
    BY <1>5 DEF ActAuthenticate, ActConnect, ActLoginResponse, ActEnterArena,
                ActLeaveArena
  <2> QED
    BY <1>1, <2>1 DEF Calm, Moves
<1> QED
  BY <1>2, <1>3, <1>4, <1>5 DEF RunAction

LEMMA AuthDoneCalm ==
    ASSUME TypeOK, NEW p \in Players, AuthDone(p)
    PROVE  Calm /\ Moves
<1>1. CASE UNCHANGED <<status, leaveflag>>
  BY <1>1 DEF Calm, Moves
<1>2. CASE status[p] = "wait_auth" /\ AuthRefused(p)
  BY <1>2 DEF Calm, Moves, AuthRefused, Inward, LoggingIn, Documented, TypeOK
<1>3. ASSUME NEW n, status[p] = "wait_auth", AuthAccepted(p, n) PROVE Calm /\ Moves
  BY <1>3 DEF Calm, Moves, AuthAccepted, Inward, LoggingIn, Documented, TypeOK
<1>4. ASSUME NEW n, AuthReplaces(p, n) PROVE Calm /\ Moves
  BY <1>4, LeaveCalm DEF AuthReplaces, Kick
<1> QED
  BY <1>1, <1>2, <1>3, <1>4 DEF AuthDone

----------------------------------------------------------------------------
(* The other steps of the players.                                         *)

LEMMA NewConnectionMoves ==
    ASSUME TypeOK, ZoneInv, StatusInv, NEW p \in Players, NewConnection(p)
    PROVE  StatusInv' /\ Moves
<1>1. /\ stage[p] = "none"
      /\ stage' = [stage EXCEPT ![p] = "new"]
      /\ status' = [status EXCEPT ![p] = "connected"]
      /\ UNCHANGED <<arena, newarena, leaveflag>>
  BY DEF NewConnection
<1>2. /\ status[p] = "uninitialized"
      /\ arena[p] = NoArena /\ newarena[p] = NoArena
  BY <1>1 DEF StatusInv, UnlistedStatus, ZoneInv, NewcomersHaveNoArena
<1>3. StrangersHaveNoArena' /\ UnlistedStatus'
  BY <1>1, <1>2 DEF StatusInv, StrangersHaveNoArena, UnlistedStatus, TypeOK
<1>4. PlacedPlayersAreLeaving'
  BY <1>1 DEF StatusInv, PlacedPlayersAreLeaving, Listed, TypeOK
<1>5. Moves
  BY <1>1, <1>2 DEF Moves, Documented, TypeOK
<1> QED
  BY <1>3, <1>4, <1>5 DEF StatusInv

LEMMA RequestMoves ==
    ASSUME TypeOK, StatusInv, NEW p \in Players,
           Login(p) \/ KickPlayer(p) \/ Leaving(p)
    PROVE  StatusInv' /\ Moves
<1>1. CASE Login(p)
  <2>1. Calm /\ Moves
    BY <1>1 DEF Login, Calm, Moves, Inward, LoggingIn, Documented, TypeOK
  <2> QED
    BY <1>1, <2>1, CalmStep DEF Login
<1>2. CASE KickPlayer(p) \/ Leaving(p)
  <2>1. Calm /\ Moves
    BY <1>2, LeaveCalm DEF KickPlayer, Kick, Leaving, LeaveArena
  <2> QED
    BY <1>2, <2>1, CalmStep DEF KickPlayer, Leaving
<1> QED
  BY <1>1, <1>2

\* Whoever gets a newarena leaves what he is in: if p->arena is not set he is
\* in S_LOGGEDIN, as InsideIsListed says.
LEMMA GoMoves ==
    ASSUME TypeOK, ZoneInv, StatusInv, NEW p \in Players, NEW n, Go(p, n)
    PROVE  StatusInv' /\ Moves
<1>1. /\ p \in Listed
      /\ status[p] \in {"loggedin", "playing", "leaving_arena"}
      /\ InitiateLeaveArena(InArena({p}))
      /\ UNCHANGED <<stage, arena>>
  BY DEF Go, Handles, LeaveArena
<1>2. PICK a \in Arenas : newarena' = [newarena EXCEPT ![p] = a]
  BY DEF Go, PlaceIn
<1>3. Calm /\ Moves
  BY <1>1, LeaveCalm
<1>4. status'[p] \in {"loggedin", "leaving_arena"}
  <2>1. status[p] = "playing" => p \in InArena({p})
    BY <1>1 DEF ZoneInv, InsideIsListed, InArenaStatuses, InArena
  <2> QED
    BY <1>1, <2>1 DEF InitiateLeaveArena, LeftStatus
<1>5. Listed' = Listed /\ Listed \subseteq Players
  BY <1>1 DEF Listed
<1>6. StrangersHaveNoArena'
  BY <1>1, <1>2, <1>3, <1>4 DEF StatusInv, StrangersHaveNoArena, Calm, LoggingIn, TypeOK
<1>7. UnlistedStatus'
  BY <1>1, <1>3 DEF StatusInv, UnlistedStatus, Calm
<1>8. PlacedPlayersAreLeaving'
  BY <1>2, <1>3, <1>4, <1>5 DEF StatusInv, PlacedPlayersAreLeaving, Calm, Inward, TypeOK
<1> QED
  BY <1>3, <1>6, <1>7, <1>8 DEF StatusInv

LEMMA RecycleArenaMoves ==
    ASSUME TypeOK, StatusInv, NEW a \in Arenas, RecycleArena(a)
    PROVE  StatusInv' /\ Moves
<1> DEFINE inside == {p \in Listed : arena[p] = a}
<1>1. /\ InitiateLeaveArena(inside)
      /\ newarena' = [p \in Players |-> IF p \in inside THEN a ELSE newarena[p]]
      /\ UNCHANGED <<stage, arena>>
  BY DEF RecycleArena
<1>2. Calm /\ Moves
  BY <1>1, LeaveCalm
<1>3. Listed' = Listed /\ Listed \subseteq Players
  BY <1>1 DEF Listed
<1>4. ASSUME NEW p \in inside
      PROVE  /\ status'[p] \notin Inward
             /\ status'[p] = "wait_arena_sync1" => p \in leaveflag'
  <2>1. p \in Players /\ status'[p] = LeftStatus(status[p])
    BY <1>1, <1>3 DEF InitiateLeaveArena
  <2> QED
    BY <1>1, <2>1 DEF InitiateLeaveArena, LeftStatus, Inward
<1>5. StrangersHaveNoArena'
  <2>1. \A p \in inside : arena[p] # NoArena
    BY ZoneAssumption
  <2> QED
    BY <1>1, <1>2, <2>1 DEF StatusInv, StrangersHaveNoArena, Calm
<1>6. UnlistedStatus'
  BY <1>1, <1>2 DEF StatusInv, UnlistedStatus, Calm
<1>7. PlacedPlayersAreLeaving'
  <2> SUFFICES ASSUME NEW p \in Listed, newarena'[p] # NoArena
               PROVE  /\ status'[p] \notin Inward
                      /\ status'[p] = "wait_arena_sync1" => p \in leaveflag'
    BY <1>3 DEF PlacedPlayersAreLeaving, Inward
  <2>1. CASE p \in inside
    BY <1>4, <2>1
  <2>2. CASE p \notin inside
    BY <1>1, <1>2, <1>3, <2>2 DEF StatusInv, PlacedPlayersAreLeaving, Calm, Inward
  <2> QED
    BY <2>1, <2>2
<1> QED
  BY <1>2, <1>5, <1>6, <1>7 DEF StatusInv

LEMMA FreePlayerMoves ==
    ASSUME TypeOK, StatusInv, NEW p \in Players, FreePlayer(p)
    PROVE  StatusInv' /\ Moves
<1>1. /\ status[p] = "timewait"
      /\ stage' = [stage EXCEPT ![p] = "freeing"]
      /\ UNCHANGED <<status, arena, newarena, leaveflag>>
  BY DEF FreePlayer
<1>2. StrangersHaveNoArena' /\ UnlistedStatus'
  BY <1>1 DEF StatusInv, StrangersHaveNoArena, UnlistedStatus, TypeOK
<1>3. PlacedPlayersAreLeaving' /\ Moves
  BY <1>1 DEF StatusInv, PlacedPlayersAreLeaving, Listed, Moves, TypeOK
<1> QED
  BY <1>2, <1>3 DEF StatusInv

\* What one pass of process_player_states does to the status of one player.
LEMMA PassedStatusIs ==
    ASSUME TypeOK, StatusInv, NEW p \in Players
    PROVE  LET s == status[p]
               t == PassedStatus(p)
           IN  \/ t = s
               \/ s \in Waiting /\ t = "leaving_zone"
               \/ s = "loggedin" /\ ArenaReady(p) /\ t = "do_freq_and_arena_sync"
               \/ s \in DOMAIN NextStatus /\ s \notin Waiting /\ t = NextStatus[s]
<1>1. CASE status[p] \in Waiting
  <2>1. status[p] \notin DOMAIN NextStatus
    BY <1>1 DEF Waiting, NextStatus
  <2>2. status[p] = "connected" => ~ArenaReady(p)
    BY DEF StatusInv, StrangersHaveNoArena, LoggingIn, ArenaReady
  <2> QED
    BY <1>1, <2>1, <2>2 DEF PassedStatus, Waiting
<1>2. CASE status[p] \notin Waiting
  BY <1>2 DEF PassedStatus
<1> QED
  BY <1>1, <1>2

LEMMA NextStatusIs ==
    \A s \in DOMAIN NextStatus :
        /\ <<s, NextStatus[s]>> \in Documented
        /\ NextStatus[s] \in LoggingIn => s \in LoggingIn
        /\ NextStatus[s] \in Inward => s \in Inward
        /\ NextStatus[s] = "wait_arena_sync1" => s \in Inward
        /\ s # "uninitialized" /\ s # "timewait"
BY DEF NextStatus, Documented, LoggingIn, Inward

LEMMA PlayerPassMoves ==
    ASSUME TypeOK, StatusInv, PlayerPass
    PROVE  StatusInv' /\ Moves
<1> DEFINE waiting == {p \in Listed : status[p] \in Waiting}
           ready   == {p \in waiting : ArenaReady(p)}
<1>1. /\ status' = [p \in Players |-> IF p \in Listed THEN PassedStatus(p)
                                                     ELSE status[p]]
      /\ arena' = [p \in Players |-> IF p \in ready THEN newarena[p]
                                     ELSE IF p \in waiting THEN NoArena
                                     ELSE arena[p]]
      /\ newarena' = [p \in Players |-> IF p \in ready THEN NoArena
                                        ELSE newarena[p]]
      /\ UNCHANGED <<stage, leaveflag>>
  BY DEF PlayerPass
<1>2. Listed' = Listed /\ Listed \subseteq Players
  BY <1>1 DEF Listed
<1>3. Moves
  <2> SUFFICES ASSUME NEW p \in Listed, PassedStatus(p) # status[p]
               PROVE  <<status[p], PassedStatus(p)>> \in Documented
    BY <1>1 DEF Moves
  <2>1. p \in Players
    BY <1>2
  <2>2. CASE status[p] \in Waiting /\ PassedStatus(p) = "leaving_zone"
    BY <2>2 DEF Waiting, Documented
  <2>3. CASE status[p] = "loggedin" /\ PassedStatus(p) = "do_freq_and_arena_sync"
    BY <2>3 DEF Documented
  <2>4. CASE status[p] \in DOMAIN NextStatus /\ PassedStatus(p) = NextStatus[status[p]]
    BY <2>4, NextStatusIs
  <2> QED
    BY <2>1, <2>2, <2>3, <2>4, PassedStatusIs
<1>4. StrangersHaveNoArena'
  <2> SUFFICES ASSUME NEW p \in Players, status'[p] \in LoggingIn
               PROVE  arena'[p] = NoArena /\ newarena'[p] = NoArena
    BY DEF StrangersHaveNoArena
  <2>1. status[p] \in LoggingIn
    <3>1. "leaving_zone" \notin LoggingIn /\ "do_freq_and_arena_sync" \notin LoggingIn
      BY DEF LoggingIn
    <3> QED
      BY <1>1, <3>1, PassedStatusIs, NextStatusIs
  <2> QED
    BY <1>1, <2>1 DEF StatusInv, StrangersHaveNoArena
<1>5. UnlistedStatus'
  BY <1>1 DEF StatusInv, UnlistedStatus, Listed
<1>6. PlacedPlayersAreLeaving'
  <2> SUFFICES ASSUME NEW p \in Listed, newarena'[p] # NoArena
               PROVE  /\ status'[p] \notin Inward
                      /\ status'[p] = "wait_arena_sync1" => p \in leaveflag
    BY <1>1, <1>2 DEF PlacedPlayersAreLeaving, Inward
  <2>1. /\ p \in Players /\ p \notin ready
        /\ newarena'[p] = newarena[p] /\ status'[p] = PassedStatus(p)
    BY <1>1, <1>2
  <2>2. /\ status[p] \notin Inward
        /\ status[p] = "wait_arena_sync1" => p \in leaveflag
    BY <2>1 DEF StatusInv, PlacedPlayersAreLeaving, Inward
  <2>3. ~(status[p] \in Waiting /\ ArenaReady(p))
    BY <2>1
  <2>4. \/ PassedStatus(p) = status[p]
        \/ PassedStatus(p) = "leaving_zone"
        \/ /\ status[p] \in DOMAIN NextStatus
           /\ PassedStatus(p) = NextStatus[status[p]]
    BY <2>1, <2>3, PassedStatusIs DEF Waiting
  <2>5. "leaving_zone" \notin Inward
    BY DEF Inward
  <2> QED
    BY <2>1, <2>2, <2>4, <2>5, NextStatusIs
<1> QED
  BY <1>3, <1>4, <1>5, <1>6 DEF StatusInv

LEMMA RunInMainMoves ==
    ASSUME TypeOK, ZoneInv, StatusInv, RunInMain
    PROVE  StatusInv' /\ Moves
<1> DEFINE m == Head(mainq)
<1>1. /\ m \in MainMessages
      /\ 1 \in DOMAIN mainq /\ m = mainq[1]
  BY DEF RunInMain, TypeOK
<1>2. /\ m.cb \in {"newplayer_new", "newplayer_free", "player_sync_done"} => m.p \in Players
      /\ m.cb \in {"newplayer_new", "newplayer_free", "player_sync_done", "arena_sync_done"}
  BY <1>1 DEF MainMessages
<1>3. CASE m.cb = "newplayer_new"
  <2>1. /\ stage' = [stage EXCEPT ![m.p] = "listed"]
        /\ UNCHANGED <<status, arena, newarena, leaveflag>>
    BY <1>3 DEF RunInMain
  <2>2. m.p \in Players /\ newarena[m.p] = NoArena
    BY <1>1, <1>2, <1>3 DEF ZoneInv, LifeQueuedOnce, NewcomersHaveNoArena
  <2> HIDE DEF m
  <2>3. StrangersHaveNoArena' /\ UnlistedStatus'
    BY <2>1, <2>2 DEF StatusInv, StrangersHaveNoArena, UnlistedStatus, TypeOK
  <2>4. PlacedPlayersAreLeaving' /\ Moves
    BY <2>1, <2>2 DEF StatusInv, PlacedPlayersAreLeaving, Listed, Moves, TypeOK
  <2> QED
    BY <2>3, <2>4 DEF StatusInv
<1>4. CASE m.cb = "newplayer_free"
  <2>1. ForgetPlayer(m.p)
    BY <1>4 DEF RunInMain
  <2>2. m.p \in Players /\ stage[m.p] = "freeing" /\ status[m.p] = "timewait"
    BY <1>1, <1>2, <1>4 DEF ZoneInv, LifeQueuedOnce, StatusInv, UnlistedStatus
  <2>3. /\ stage' = [stage EXCEPT ![m.p] = "none"]
        /\ status' = [status EXCEPT ![m.p] = "uninitialized"]
        /\ arena' = [arena EXCEPT ![m.p] = NoArena]
        /\ newarena' = [newarena EXCEPT ![m.p] = NoArena]
        /\ leaveflag' = leaveflag \ {m.p}
    BY <2>1 DEF ForgetPlayer
  <2> HIDE DEF m
  <2>4. StrangersHaveNoArena' /\ UnlistedStatus'
    BY <2>2, <2>3 DEF StatusInv, StrangersHaveNoArena, UnlistedStatus, TypeOK
  <2>5. PlacedPlayersAreLeaving'
    BY <2>2, <2>3 DEF StatusInv, PlacedPlayersAreLeaving, Listed, TypeOK
  <2>6. Moves
    BY <2>2, <2>3 DEF Moves, Documented, TypeOK
  <2> QED
    BY <2>4, <2>5, <2>6 DEF StatusInv
<1>5. CASE m.cb = "player_sync_done"
  <2>1. PlayerSyncDone(m.p) /\ UNCHANGED <<stage, arena, newarena, leaveflag>>
    BY <1>5 DEF RunInMain
  <2>2. Calm /\ Moves
    BY <1>2, <1>5, <2>1, SyncDoneCalm
  <2> QED
    BY <2>1, <2>2, CalmStep
<1>6. CASE m.cb = "arena_sync_done"
  <2>1. UNCHANGED <<stage, status, arena, newarena, leaveflag>>
    BY <1>6 DEF RunInMain, pvars
  <2> QED
    BY <2>1, StillStep
<1> QED
  BY <1>2, <1>3, <1>4, <1>5, <1>6

----------------------------------------------------------------------------
(* Who has been kicked stays kicked.                                       *)

Sticks == \A p \in Players : OnHisWayOut(p) => OnHisWayOut(p)' \/ stage'[p] = "none"

LEMMA StickStep ==
    ASSUME TypeOK, Moves, whenloggedin \subseteq whenloggedin',
           \A p \in Players : status[p] = "timewait" => status'[p] = "timewait"
    PROVE  Sticks
<1> SUFFICES ASSUME NEW p \in Players, OnHisWayOut(p) PROVE OnHisWayOut(p)'
  BY DEF Sticks
<1>1. CASE p \in whenloggedin
  BY <1>1 DEF OnHisWayOut
<1>2. CASE status[p] \in OutStatuses
  <2>1. \A s : <<status[p], s>> \in Documented =>
                  s \in OutStatuses \/ status[p] = "timewait"
    BY <1>2 DEF Documented, OutStatuses
  <2> QED
    BY <1>2, <2>1 DEF Moves, OnHisWayOut, OutStatuses
<1> QED
  BY <1>1, <1>2 DEF OnHisWayOut

LEMMA InputSticks ==
    ASSUME TypeOK, ZoneInv, StatusInv, Input
    PROVE  Sticks
<1>1. ASSUME NEW p \in Players, NewConnection(p) PROVE Sticks
  <2>1. status[p] = "uninitialized"
    BY <1>1 DEF NewConnection, StatusInv, UnlistedStatus
  <2>2. \A q \in Players : status[q] = "timewait" => status'[q] = "timewait"
    BY <1>1, <2>1 DEF NewConnection, TypeOK
  <2> QED
    BY <1>1, <2>2, NewConnectionMoves, StickStep DEF NewConnection
<1>2. ASSUME NEW p \in Players, Login(p) PROVE Sticks
  <2>1. \A q \in Players : status[q] = "timewait" => status'[q] = "timewait"
    BY <1>2 DEF Login, TypeOK
  <2> QED
    BY <1>2, <2>1, RequestMoves, StickStep DEF Login
<1>3. ASSUME NEW L, InitiateLeaveArena(L), whenloggedin \subseteq whenloggedin'
      PROVE  Sticks
  <2>1. Calm /\ Moves
    BY <1>3, LeaveCalm
  <2> QED
    BY <1>3, <2>1, StickStep DEF Calm
<1>4. ASSUME NEW p \in Players, KickPlayer(p) PROVE Sticks
  BY <1>3, <1>4 DEF KickPlayer, Kick
<1>5. ASSUME NEW p \in Players, Leaving(p) \/ \E n \in ArenaNames : Go(p, n)
      PROVE  Sticks
  BY <1>3, <1>5 DEF Leaving, Go, LeaveArena
<1>6. ASSUME NEW a \in Arenas, RecycleArena(a) PROVE Sticks
  BY <1>3, <1>6 DEF RecycleArena
<1> QED
  BY <1>1, <1>2, <1>4, <1>5, <1>6 DEF Input

\* A pass takes S_LEAVING_ZONE out of whenloggedin when it makes it the status.
LEMMA PlayerPassSticks ==
    ASSUME TypeOK, StatusInv, PlayerPass
    PROVE  Sticks
<1> SUFFICES ASSUME NEW p \in Players, OnHisWayOut(p) PROVE OnHisWayOut(p)'
  BY DEF Sticks
<1> DEFINE waiting == {q \in Listed : status[q] \in Waiting}
<1>1. /\ status' = [q \in Players |-> IF q \in Listed THEN PassedStatus(q)
                                                     ELSE status[q]]
      /\ whenloggedin' = whenloggedin \ waiting
  BY DEF PlayerPass
<1>2. CASE status[p] \in OutStatuses
  <2>1. PassedStatus(p) \in OutStatuses
    BY <1>2 DEF OutStatuses, PassedStatus, Waiting, NextStatus
  <2> QED
    BY <1>1, <1>2, <2>1 DEF OnHisWayOut
<1>3. CASE p \in whenloggedin /\ p \in waiting
  <2>1. PassedStatus(p) = "leaving_zone"
    <3>1. status[p] \in Waiting /\ status[p] \notin DOMAIN NextStatus
      BY <1>3 DEF Waiting, NextStatus
    <3> QED
      BY <1>3, <3>1 DEF PassedStatus
  <2> QED
    BY <1>1, <1>3, <2>1 DEF OnHisWayOut, OutStatuses
<1>4. CASE p \in whenloggedin /\ p \notin waiting
  BY <1>1, <1>4 DEF OnHisWayOut
<1> QED
  BY <1>2, <1>3, <1>4 DEF OnHisWayOut

LEMMA RunInMainSticks ==
    ASSUME TypeOK, ZoneInv, StatusInv, RunInMain
    PROVE  Sticks
<1> DEFINE m == Head(mainq)
<1>1. m \in MainMessages
  BY DEF RunInMain, TypeOK
<1>2. Moves
  BY RunInMainMoves
<1>3. CASE m.cb \in {"newplayer_new", "arena_sync_done"}
  BY <1>2, <1>3, StickStep DEF RunInMain, pvars
<1>4. CASE m.cb = "newplayer_free"
  <2>1. ForgetPlayer(m.p)
    BY <1>4 DEF RunInMain
  <2> HIDE DEF m
  <2>2. \A q \in Players : q # m.p => (OnHisWayOut(q) => OnHisWayOut(q)')
    BY <2>1 DEF ForgetPlayer, OnHisWayOut, TypeOK
  <2>3. m.p \in Players => stage'[m.p] = "none"
    BY <2>1 DEF ForgetPlayer, TypeOK
  <2> QED
    BY <2>2, <2>3 DEF Sticks
<1>5. CASE m.cb = "player_sync_done"
  <2>1. PlayerSyncDone(m.p) /\ UNCHANGED <<whenloggedin, leaveflag>> /\ m.p \in Players
    BY <1>1, <1>5 DEF RunInMain, MainMessages
  <2>2. Calm
    BY <2>1, SyncDoneCalm
  <2> QED
    BY <1>2, <2>1, <2>2, StickStep DEF Calm
<1> QED
  BY <1>1, <1>3, <1>4, <1>5 DEF MainMessages

LEMMA NextSticks ==
    ASSUME TypeOK, ZoneInv, StatusInv, [Next]_vars
    PROVE  Sticks
<1>1. ASSUME NEW p \in Players, RunAction(p) \/ AuthDone(p) PROVE Sticks
  <2>1. Calm /\ Moves
    BY <1>1, RunActionCalm, AuthDoneCalm
  <2>2. whenloggedin \subseteq whenloggedin'
    BY <1>1 DEF RunAction, ActAuthenticate, ActGetGlobal, ActConnect, ActLoginResponse,
           ActGetArena, ActEnterArena, ActLeaveArena, ActPutArena, ActLeaveZone, Acted,
           AuthDone, AuthRefused, AuthAccepted, AuthReplaces, Kick
  <2> QED
    BY <2>1, <2>2, StickStep DEF Calm
<1>2. CASE UNCHANGED <<status, whenloggedin>>
  BY <1>2 DEF Sticks, OnHisWayOut
<1>3. ASSUME NEW a \in Arenas, ProcessArenaStates(a) \/ Unhold(a)
      PROVE  UNCHANGED <<status, whenloggedin>>
  BY <1>3 DEF ProcessArenaStates, ArenaInit0, ArenaInit1, ArenaInit2, CallbacksHold,
         SyncArena, ArenaWriteData, ArenaDestroy1, ArenaResurrect, ArenaRemove,
         ArenaDetachFails, Unhold, pvars
<1>4. CASE DBThread \/ Reap \/ ArenaFree \/ (\E p \in Players : FreePlayer(p))
  BY <1>2, <1>4 DEF DBThread, Reap, ArenaFree, FreePlayer, pvars
<1>5. CASE Server
  BY <1>1, <1>2, <1>3, <1>4, <1>5, PlayerPassSticks, RunInMainSticks DEF Server
<1>6. CASE UNCHANGED vars
  BY <1>2, <1>6 DEF vars, pvars
<1> QED
  BY <1>5, <1>6, InputSticks DEF Next

----------------------------------------------------------------------------
(* The theorems.                                                           *)

LEMMA InitStatus == Init => StatusInv
BY DEF Init, StatusInv, StrangersHaveNoArena, UnlistedStatus,
       PlacedPlayersAreLeaving, Listed

LEMMA NextMoves ==
    ASSUME TypeOK, ZoneInv, StatusInv, [Next]_vars
    PROVE  StatusInv' /\ Moves
<1>1. CASE Input
  BY <1>1, NewConnectionMoves, RequestMoves, GoMoves, RecycleArenaMoves DEF Input
<1>2. ASSUME NEW p \in Players, RunAction(p) \/ AuthDone(p) PROVE StatusInv' /\ Moves
  <2>1. Calm /\ Moves
    BY <1>2, RunActionCalm, AuthDoneCalm
  <2>2. UNCHANGED <<stage, arena, newarena>>
    BY <1>2 DEF RunAction, ActAuthenticate, ActGetGlobal, ActConnect, ActLoginResponse,
           ActGetArena, ActEnterArena, ActLeaveArena, ActPutArena, ActLeaveZone, Acted,
           AuthDone
  <2> QED
    BY <2>1, <2>2, CalmStep
<1>3. ASSUME NEW a \in Arenas, ProcessArenaStates(a) \/ Unhold(a)
      PROVE  StatusInv' /\ Moves
  <2>1. UNCHANGED pvars
    BY <1>3 DEF ProcessArenaStates, ArenaInit0, ArenaInit1, ArenaInit2, CallbacksHold,
           SyncArena, ArenaWriteData, ArenaDestroy1, ArenaResurrect, ArenaRemove,
           ArenaDetachFails, Unhold
  <2> QED
    BY <2>1, StillStep DEF pvars
<1>4. CASE DBThread \/ Reap \/ ArenaFree
  <2>1. UNCHANGED pvars
    BY <1>4 DEF DBThread, Reap, ArenaFree
  <2> QED
    BY <2>1, StillStep DEF pvars
<1>5. CASE Server
  BY <1>2, <1>3, <1>4, <1>5, PlayerPassMoves, FreePlayerMoves, RunInMainMoves DEF Server
<1>6. CASE UNCHANGED vars
  BY <1>6, StillStep DEF vars, pvars
<1> QED
  BY <1>1, <1>5, <1>6 DEF Next

\* The invariant that the transitions rest on holds in every reachable state.
THEOREM StatusInvariant == Spec => []StatusInv
<1>1. TypeOK /\ ZoneInv /\ StatusInv /\ [Next]_vars => StatusInv'
  BY NextMoves
<1> QED
  BY <1>1, InitStatus, TypeCorrect, ZoneInvariant, PTL DEF Spec

\* A player who has an arena to go to is outside, or on his way out of the one
\* he is in: complete_go and RecycleArena never leave one behind who stays.
THEOREM PlacedPlayersLeave == Spec => []PlacedPlayersAreLeaving
<1>1. StatusInv => PlacedPlayersAreLeaving
  BY DEF StatusInv
<1> QED
  BY <1>1, StatusInvariant, PTL

\* The arena a player is to go to is the only one of its name, it is there or comes back,
\* and he goes there as soon as he has left the one he is in (complete_go, RecycleArena).
THEOREM PlacesStayKept == Spec => []PlacesAreKept
<1>1. WantedArenasReturn /\ PlacedPlayersAreLeaving /\ OneArenaPerName => PlacesAreKept
  BY DEF PlacesAreKept
<1> QED
  BY <1>1, WantedArenasComeBack, PlacedPlayersLeave, NamesAreUnique, PTL

\* The status of a player takes no other way than the ones that player.h
\* documents, whatever comes in between the steps of the main thread.
THEOREM TransitionsAreDocumented == Spec => DocumentedTransitions
<1>1. TypeOK /\ ZoneInv /\ StatusInv /\ [Next]_vars =>
        [\A p \in Players :
            status'[p] # status[p] => <<status[p], status'[p]>> \in Documented]_vars
  BY NextMoves DEF Moves
<1> QED
  BY <1>1, TypeCorrect, ZoneInvariant, StatusInvariant, PTL
     DEF Spec, DocumentedTransitions

\* Whoever has been kicked is on his way out until his struct is freed: no
\* request, arena, login or answer of the database turns him back.
THEOREM KickedPlayersStayKicked == Spec => KicksStick
<1>1. TypeOK /\ ZoneInv /\ StatusInv /\ [Next]_vars =>
        [\A p \in Players :
            OnHisWayOut(p) => OnHisWayOut(p)' \/ stage'[p] = "none"]_vars
  BY NextSticks DEF Sticks
<1> QED
  BY <1>1, TypeCorrect, ZoneInvariant, StatusInvariant, PTL DEF Spec, KicksStick

----------------------------------------------------------------------------
(* The requests and the answers in the queues.                             *)

SyncDone == "player_sync_done"

LEMMA DbTypes ==
    ASSUME TypeOK, NEW i \in DOMAIN dbq
    PROVE  /\ dbq[i] \in DbMessages
           /\ dbq[i].p \in Players \cup {NoPlayer}
           /\ dbq[i].p # NoPlayer => dbq[i].p \in Players
BY DEF TypeOK, DbMessages

LEMMA MainTypes ==
    ASSUME TypeOK, NEW i \in DOMAIN mainq
    PROVE  /\ mainq[i] \in MainMessages
           /\ mainq[i].cb = SyncDone => mainq[i].p \in Players
BY DEF TypeOK, MainMessages, SyncDone

\* Of whom something is asked or answered waits for it, and has nothing left to do.
LEMMA AskedWait ==
    ASSUME TypeOK, RequestsFit, AnswersFit, NEW p \in Players, Asked(p) \/ Answered(p)
    PROVE  HasPersist /\ pending[p] = "idle" /\ status[p] \in Wait4 /\ ~(Asked(p) /\ Answered(p))
<1>1. p # NoPlayer
  BY ZoneAssumption
<1>2. CASE Asked(p)
  BY <1>1, <1>2 DEF Asked, RequestsFit, Requests, Wait4
<1>3. CASE ~Asked(p)
  BY <1>3 DEF Answered, AnswersFit
<1> QED
  BY <1>2, <1>3

\* A step that leaves those who wait where they are keeps the requests and the answers.
Still == \A p \in Players :
    (pending[p] = "idle" /\ status[p] \in Wait4) =>
        status'[p] = status[p] /\ pending'[p] = pending[p]

LEMMA AskedStay ==
    ASSUME TypeOK, RequestsFit, AnswersFit, Still, NEW p \in Players, Asked(p) \/ Answered(p)
    PROVE  status'[p] = status[p] /\ pending'[p] = pending[p]
BY AskedWait DEF Still

LEMMA RequestsKept ==
    ASSUME TypeOK, RequestsFit, AnswersFit, Still, UNCHANGED dbq,
           \A p \in Players : Asked(p) => ~Answered(p)'
    PROVE  RequestsFit'
<1> SUFFICES ASSUME NEW i \in DOMAIN dbq, dbq[i].p # NoPlayer
             PROVE  /\ HasPersist /\ pending'[dbq[i].p] = "idle" /\ ~Answered(dbq[i].p)'
                    /\ <<status'[dbq[i].p], dbq[i].cmd, ScopeOf(dbq[i].a)>> \in Requests
                    /\ \A j \in DOMAIN dbq : dbq[j].p = dbq[i].p => i = j
  BY DEF RequestsFit
<1>1. dbq[i].p \in Players /\ Asked(dbq[i].p)
  BY DbTypes DEF Asked
<1> QED
  BY <1>1, AskedStay DEF RequestsFit

LEMMA AnswersKept ==
    ASSUME TypeOK, RequestsFit, AnswersFit, Still, UNCHANGED mainq
    PROVE  AnswersFit'
<1> SUFFICES ASSUME NEW i \in DOMAIN mainq, mainq[i].cb = SyncDone
             PROVE  /\ HasPersist /\ pending'[mainq[i].p] = "idle"
                    /\ status'[mainq[i].p] \in Wait4
                    /\ \A j \in DOMAIN mainq :
                         mainq[j].cb = SyncDone /\ mainq[j].p = mainq[i].p => i = j
  BY DEF AnswersFit, SyncDone
<1>1. mainq[i].p \in Players /\ Answered(mainq[i].p)
  BY MainTypes DEF Answered, SyncDone
<1> QED
  BY <1>1, AskedStay DEF AnswersFit, SyncDone

SameQueues(p) == (Asked(p)' <=> Asked(p)) /\ (Answered(p)' <=> Answered(p))

LEMMA QueuesKept ==
    ASSUME TypeOK, RequestsFit, AnswersFit, UNCHANGED <<dbq, mainq>>, Still
    PROVE  RequestsFit' /\ AnswersFit' /\ \A p \in Players : SameQueues(p)
<1>1. \A p \in Players : SameQueues(p)
  BY DEF Asked, Answered, SameQueues
<1>2. \A p \in Players : Asked(p) => ~Answered(p)'
  BY <1>1, AskedWait DEF SameQueues
<1> QED
  BY <1>1, <1>2, RequestsKept, AnswersKept

\* What is put at the end of a queue.
LEMMA AppendedDb ==
    ASSUME TypeOK, NEW m, dbq' = Append(dbq, m)
    PROVE  /\ DOMAIN dbq' = DOMAIN dbq \cup {Len(dbq) + 1}
           /\ Len(dbq) + 1 \notin DOMAIN dbq
           /\ dbq'[Len(dbq) + 1] = m
           /\ \A i \in DOMAIN dbq : dbq'[i] = dbq[i]
           /\ \A p : Asked(p)' <=> Asked(p) \/ m.p = p
<1>1. /\ DOMAIN dbq' = DOMAIN dbq \cup {Len(dbq) + 1}
      /\ Len(dbq) + 1 \notin DOMAIN dbq
      /\ dbq'[Len(dbq) + 1] = m
      /\ \A i \in DOMAIN dbq : dbq'[i] = dbq[i]
  BY DEF TypeOK
<1> QED
  BY <1>1 DEF Asked

LEMMA AppendedMain ==
    ASSUME TypeOK, NEW m, mainq' = Append(mainq, m)
    PROVE  /\ DOMAIN mainq' = DOMAIN mainq \cup {Len(mainq) + 1}
           /\ Len(mainq) + 1 \notin DOMAIN mainq
           /\ mainq'[Len(mainq) + 1] = m
           /\ \A i \in DOMAIN mainq : mainq'[i] = mainq[i]
           /\ \A p : Answered(p)' <=> Answered(p) \/ (m.cb = SyncDone /\ m.p = p)
<1>1. /\ DOMAIN mainq' = DOMAIN mainq \cup {Len(mainq) + 1}
      /\ Len(mainq) + 1 \notin DOMAIN mainq
      /\ mainq'[Len(mainq) + 1] = m
      /\ \A i \in DOMAIN mainq : mainq'[i] = mainq[i]
  BY DEF TypeOK
<1> QED
  BY <1>1 DEF Answered, SyncDone

\* What is taken from the front of a queue.
LEMMA TakenDb ==
    ASSUME TypeOK, dbq # <<>>, dbq' = Tail(dbq)
    PROVE  /\ 1 \in DOMAIN dbq /\ Head(dbq) = dbq[1]
           /\ \A i \in DOMAIN dbq' : i + 1 \in DOMAIN dbq /\ i + 1 # 1 /\ dbq'[i] = dbq[i + 1] /\ i \in Nat
           /\ \A i \in DOMAIN dbq : i # 1 => i - 1 \in DOMAIN dbq' /\ dbq'[i - 1] = dbq[i]
BY DEF TypeOK

LEMMA TakenMain ==
    ASSUME TypeOK, mainq # <<>>, mainq' = Tail(mainq)
    PROVE  /\ 1 \in DOMAIN mainq /\ Head(mainq) = mainq[1]
           /\ \A i \in DOMAIN mainq' :
                i + 1 \in DOMAIN mainq /\ i + 1 # 1 /\ mainq'[i] = mainq[i + 1] /\ i \in Nat
           /\ \A i \in DOMAIN mainq : i # 1 => i - 1 \in DOMAIN mainq' /\ mainq'[i - 1] = mainq[i]
BY DEF TypeOK

----------------------------------------------------------------------------
(* What a step means for one player.                                       *)

Same(p) ==
    /\ status'[p] = status[p] /\ pending'[p] = pending[p]
    /\ told'[p] = told[p] /\ loaded'[p] = loaded[p]
    /\ p \in gcallbacks' <=> p \in gcallbacks
    /\ p \in gsync' <=> p \in gsync
    /\ p \in async' <=> p \in async

LEMMA SameFits ==
    ASSUME NEW p \in Players, SessionFits(p), Same(p), SameQueues(p)
    PROVE  SessionFits(p)'
<1> USE DEF Same, SameQueues
<1>1. PendingFits(p)'
  BY DEF SessionFits, PendingFits
<1>2. ToldFits(p)'
  BY DEF SessionFits, ToldFits, HasEntered, HasConnected
<1>3. GlobalFits(p)'
  BY DEF SessionFits, GlobalFits
<1>4. ArenaFits(p)'
  BY DEF SessionFits, ArenaFits
<1> QED
  BY <1>1, <1>2, <1>3, <1>4 DEF SessionFits

\* All but the status of p stays.
SameButStatus(p) ==
    /\ pending'[p] = pending[p]
    /\ told'[p] = told[p] /\ loaded'[p] = loaded[p]
    /\ p \in gcallbacks' <=> p \in gcallbacks
    /\ p \in gsync' <=> p \in gsync
    /\ p \in async' <=> p \in async

\* The moves that leave the modules and the database out: players who enter or ask for an
\* arena fall back, logins get on.
Fallbacks ==
    {<<"do_freq_and_arena_sync", "loggedin">>, <<"arena_resp_and_cbs", "do_arena_sync2">>,
     <<"playing", "leaving_arena">>,
     <<"uninitialized", "connected">>, <<"connected", "need_auth">>,
     <<"wait_auth", "connected">>, <<"wait_auth", "need_global_sync">>}

LEMMA FallbackFits ==
    ASSUME NEW p \in Players, SessionFits(p), SameButStatus(p), SameQueues(p),
           <<status[p], status'[p]>> \in Fallbacks
    PROVE  SessionFits(p)'
<1> USE DEF SameButStatus, SameQueues, Fallbacks, SessionFits
<1>1. PendingFits(p)'
  BY DEF PendingFits, LeftToDo
<1>2. ToldFits(p)'
  BY DEF PendingFits, LeftToDo, ToldFits, HasEntered, HasConnected, Early, Middle
<1>3. GlobalFits(p)'
  BY DEF PendingFits, LeftToDo, GlobalFits, Early, Middle
<1>4. ArenaFits(p)'
  BY DEF PendingFits, LeftToDo, ArenaFits, Inside
<1> QED
  BY <1>1, <1>2, <1>3, <1>4

----------------------------------------------------------------------------
(* Steps that leave the queues alone.                                      *)

LEMMA QuietSession ==
    ASSUME TypeOK, SessionInv,
           UNCHANGED <<dbq, mainq, gvars, gsync, async, gcallbacks, pending, draining>>,
           \A p \in Players :
               status'[p] = status[p] \/ <<status[p], status'[p]>> \in Fallbacks
    PROVE  SessionInv'
<1>1. Still
  BY DEF Still, Fallbacks, Wait4
<1>2. /\ RequestsFit' /\ AnswersFit'
      /\ \A p \in Players : SameQueues(p)
  BY <1>1, QueuesKept DEF SessionInv, SameQueues
<1>3. ASSUME NEW p \in Players PROVE SessionFits(p)'
  <2>1. SameButStatus(p) /\ SessionFits(p) /\ SameQueues(p)
    BY <1>2 DEF SameButStatus, SessionInv, gvars
  <2>2. CASE status'[p] = status[p]
    <3>1. Same(p)
      BY <2>1, <2>2 DEF Same, SameButStatus
    <3> QED
      BY <2>1, <3>1, SameFits
  <2>3. CASE <<status[p], status'[p]>> \in Fallbacks
    BY <2>1, <2>3, FallbackFits
  <2> QED
    BY <2>2, <2>3
<1>4. DrainsAlone'
  BY DEF SessionInv, DrainsAlone
<1> QED
  BY <1>2, <1>3, <1>4 DEF SessionInv

\* initiate_leave_arena makes players fall back and does nothing else.
LEMMA LeaveFallsBack ==
    ASSUME TypeOK, NEW L, InitiateLeaveArena(L), NEW p \in Players
    PROVE  status'[p] = status[p] \/ <<status[p], status'[p]>> \in Fallbacks
BY DEF InitiateLeaveArena, LeftStatus, Fallbacks

LEMMA RequestsSession ==
    ASSUME TypeOK, SessionInv, NEW p \in Players,
           Login(p) \/ KickPlayer(p) \/ Leaving(p) \/ \E n \in ArenaNames : Go(p, n)
    PROVE  SessionInv' /\ UNCHANGED gvars
<1>1. CASE Login(p)
  <2>1. \A q \in Players :
           status'[q] = status[q] \/ <<status[q], status'[q]>> \in Fallbacks
    BY <1>1 DEF Login, TypeOK, Fallbacks
  <2> QED
    BY <1>1, <2>1, QuietSession DEF Login, cvars, tvars, qvars
<1>2. CASE KickPlayer(p)
  <2>1. InitiateLeaveArena(InArena({p}))
        /\ UNCHANGED <<dbq, mainq, gvars, gsync, async, gcallbacks, pending, draining>>
    BY <1>2 DEF KickPlayer, Kick, cvars, tvars, qvars
  <2> QED
    BY <2>1, LeaveFallsBack, QuietSession
<1>3. CASE Leaving(p) \/ \E n \in ArenaNames : Go(p, n)
  <2>1. InitiateLeaveArena(InArena({p}))
        /\ UNCHANGED <<dbq, mainq, gvars, gsync, async, gcallbacks, pending, draining>>
    BY <1>3 DEF Leaving, Go, LeaveArena, cvars, tvars, qvars
  <2> QED
    BY <2>1, LeaveFallsBack, QuietSession
<1> QED
  BY <1>1, <1>2, <1>3

LEMMA RecycleArenaSession ==
    ASSUME TypeOK, SessionInv, NEW a \in Arenas, RecycleArena(a)
    PROVE  SessionInv' /\ UNCHANGED gvars
<1>1. /\ InitiateLeaveArena({p \in Listed : arena[p] = a})
      /\ UNCHANGED <<dbq, mainq, gvars, gsync, async, gcallbacks, pending, draining>>
  BY DEF RecycleArena, cvars, tvars, qvars
<1> QED
  BY <1>1, LeaveFallsBack, QuietSession

LEMMA AuthDoneSession ==
    ASSUME TypeOK, SessionInv, NEW p \in Players, AuthDone(p)
    PROVE  SessionInv' /\ UNCHANGED gvars
<1>1. UNCHANGED <<dbq, mainq, gvars, gsync, async, gcallbacks, pending, draining>>
  BY DEF AuthDone, tvars
<1>2. ASSUME NEW q \in Players
      PROVE  status'[q] = status[q] \/ <<status[q], status'[q]>> \in Fallbacks
  <2>1. CASE UNCHANGED status
    BY <2>1
  <2>2. CASE status[p] = "wait_auth" /\ AuthRefused(p)
    BY <2>2 DEF AuthRefused, TypeOK, Fallbacks
  <2>3. ASSUME NEW n, status[p] = "wait_auth", AuthAccepted(p, n)
        PROVE  status'[q] = status[q] \/ <<status[q], status'[q]>> \in Fallbacks
    BY <2>3 DEF AuthAccepted, TypeOK, Fallbacks
  <2>4. ASSUME NEW n, AuthReplaces(p, n)
        PROVE  status'[q] = status[q] \/ <<status[q], status'[q]>> \in Fallbacks
    BY <2>4, LeaveFallsBack DEF AuthReplaces, Kick
  <2> QED
    BY <2>1, <2>2, <2>3, <2>4 DEF AuthDone
<1> QED
  BY <1>1, <1>2, QuietSession

\* The arenas' own steps that do not ask the database.
LEMMA ArenaQuietSession ==
    ASSUME TypeOK, SessionInv, UNCHANGED <<pvars, cvars, pending, dbq, mainq, gvars>>,
           draining' = NoArena \/ UNCHANGED draining \/ MainFree
    PROVE  SessionInv'
<1>1. Still /\ \A p \in Players : Same(p)
  BY DEF Still, Same, pvars, cvars, gvars
<1>2. RequestsFit' /\ AnswersFit' /\ \A p \in Players : SameQueues(p)
  BY <1>1, QueuesKept DEF SessionInv, SameQueues
<1>3. \A p \in Players : SessionFits(p)'
  BY <1>1, <1>2, SameFits DEF SessionInv
<1>4. DrainsAlone'
  BY DEF SessionInv, DrainsAlone, MainFree
<1> QED
  BY <1>2, <1>3, <1>4 DEF SessionInv

----------------------------------------------------------------------------
(* Steps that put something into a queue.                                  *)

\* Functions other than answers are queued for main.
LEMMA LifeQueued ==
    ASSUME TypeOK, RequestsFit, AnswersFit, Still, UNCHANGED dbq,
           NEW m, m.cb # SyncDone, mainq' = Append(mainq, m)
    PROVE  RequestsFit' /\ AnswersFit' /\ \A p \in Players : SameQueues(p)
<1>1. \A p \in Players : SameQueues(p)
  BY AppendedMain DEF SameQueues, Asked
<1>2. RequestsFit'
  <2>1. \A p \in Players : Asked(p) => ~Answered(p)'
    BY <1>1, AskedWait DEF SameQueues
  <2> QED
    BY <2>1, RequestsKept
<1>3. AnswersFit'
  <2> SUFFICES ASSUME NEW i \in DOMAIN mainq', mainq'[i].cb = SyncDone
               PROVE  /\ HasPersist /\ pending'[mainq'[i].p] = "idle"
                      /\ status'[mainq'[i].p] \in Wait4
                      /\ \A j \in DOMAIN mainq' :
                           mainq'[j].cb = SyncDone /\ mainq'[j].p = mainq'[i].p => i = j
    BY DEF AnswersFit, SyncDone
  <2>1. i \in DOMAIN mainq /\ mainq'[i] = mainq[i]
    BY AppendedMain
  <2>2. mainq[i].p \in Players /\ Answered(mainq[i].p)
    BY <2>1, MainTypes DEF Answered, SyncDone
  <2>3. \A j \in DOMAIN mainq' :
           mainq'[j].cb = SyncDone => j \in DOMAIN mainq /\ mainq'[j] = mainq[j]
    BY AppendedMain
  <2> QED
    BY <2>1, <2>2, <2>3, AskedStay DEF AnswersFit, SyncDone
<1> QED
  BY <1>1, <1>2, <1>3

\* A request is queued for the database, of an arena or of a player who has none yet.
LEMMA DbQueued ==
    ASSUME TypeOK, RequestsFit, AnswersFit, UNCHANGED mainq,
           NEW m \in DbMessages, dbq' = Append(dbq, m),
           \A p \in Players : p # m.p /\ pending[p] = "idle" /\ status[p] \in Wait4 =>
               status'[p] = status[p] /\ pending'[p] = pending[p],
           m.p # NoPlayer =>
               /\ ~Asked(m.p) /\ ~Answered(m.p)
               /\ HasPersist /\ pending'[m.p] = "idle"
               /\ <<status'[m.p], m.cmd, ScopeOf(m.a)>> \in Requests
    PROVE  /\ RequestsFit' /\ AnswersFit'
           /\ \A p \in Players : Answered(p)' <=> Answered(p)
           /\ \A p \in Players : Asked(p)' <=> Asked(p) \/ p = m.p
<1>1. /\ \A p \in Players : Answered(p)' <=> Answered(p)
      /\ \A p \in Players : Asked(p)' <=> Asked(p) \/ p = m.p
  BY AppendedDb DEF Answered
<1>2. NoPlayer \notin Players /\ m.p \in Players \cup {NoPlayer}
  BY ZoneAssumption DEF DbMessages
<1>3. ASSUME NEW p \in Players, Asked(p) \/ Answered(p)
      PROVE  /\ status'[p] = status[p] /\ pending'[p] = pending[p]
             /\ p # m.p /\ (Asked(p) => ~Answered(p)')
  BY <1>1, <1>2, <1>3, AskedWait
<1>4. RequestsFit'
  <2> SUFFICES ASSUME NEW i \in DOMAIN dbq', NEW p, p = dbq'[i].p, p # NoPlayer
               PROVE  /\ HasPersist /\ pending'[p] = "idle" /\ ~Answered(p)'
                      /\ <<status'[p], dbq'[i].cmd, ScopeOf(dbq'[i].a)>> \in Requests
                      /\ \A j \in DOMAIN dbq' : dbq'[j].p = p => i = j
    BY DEF RequestsFit
  <2>1. \A k \in DOMAIN dbq : dbq[k].p # NoPlayer => dbq[k].p \in Players /\ Asked(dbq[k].p)
    BY DbTypes DEF Asked
  <2>2. CASE i \in DOMAIN dbq
    <3>1. dbq'[i] = dbq[i] /\ dbq[i].p \in Players /\ Asked(dbq[i].p)
      BY <2>1, <2>2, AppendedDb
    <3>2. \A j \in DOMAIN dbq' : dbq'[j].p = dbq[i].p => j \in DOMAIN dbq /\ dbq'[j] = dbq[j]
      BY <1>3, <3>1, AppendedDb
    <3> QED
      BY <1>3, <2>2, <3>1, <3>2 DEF RequestsFit
  <2>3. CASE i \notin DOMAIN dbq
    <3>1. i = Len(dbq) + 1 /\ dbq'[i] = m /\ m.p \in Players
      BY <1>2, <2>3, AppendedDb
    <3>2. \A j \in DOMAIN dbq : dbq'[j] = dbq[j] /\ dbq[j].p # m.p
      BY <1>2, <2>1, <3>1, AppendedDb
    <3> QED
      BY <1>1, <1>2, <3>1, <3>2, AppendedDb
  <2> QED
    BY <2>2, <2>3
<1>5. AnswersFit'
  <2> SUFFICES ASSUME NEW i \in DOMAIN mainq, mainq[i].cb = SyncDone
               PROVE  /\ HasPersist /\ pending'[mainq[i].p] = "idle"
                      /\ status'[mainq[i].p] \in Wait4
                      /\ \A j \in DOMAIN mainq :
                           mainq[j].cb = SyncDone /\ mainq[j].p = mainq[i].p => i = j
    BY DEF AnswersFit, SyncDone
  <2>1. mainq[i].p \in Players /\ Answered(mainq[i].p)
    BY MainTypes DEF Answered, SyncDone
  <2> QED
    BY <1>3, <2>1 DEF AnswersFit, SyncDone
<1> QED
  BY <1>1, <1>4, <1>5

LEMMA NewConnectionSession ==
    ASSUME TypeOK, ZoneInv, StatusInv, SessionInv, NEW p \in Players, NewConnection(p)
    PROVE  SessionInv' /\ UNCHANGED gvars
<1>1. /\ status[p] = "uninitialized"
      /\ status' = [status EXCEPT ![p] = "connected"]
      /\ mainq' = Append(mainq, MainMsg("newplayer_new", p, NoArena))
      /\ UNCHANGED <<dbq, gvars, gsync, async, gcallbacks, pending, draining>>
  BY DEF NewConnection, StatusInv, UnlistedStatus, cvars, tvars
<1>2. Still
  BY <1>1 DEF Still, Wait4, TypeOK
<1>3. MainMsg("newplayer_new", p, NoArena).cb # SyncDone
  BY DEF MainMsg, SyncDone
<1>4. RequestsFit' /\ AnswersFit' /\ \A q \in Players : SameQueues(q)
  BY <1>1, <1>2, <1>3, LifeQueued DEF SessionInv
<1>5. ASSUME NEW q \in Players PROVE SessionFits(q)'
  <2>1. SameButStatus(q) /\ SessionFits(q) /\ SameQueues(q)
    BY <1>1, <1>4 DEF SameButStatus, SessionInv, gvars
  <2>2. CASE q = p
    <3>1. <<status[q], status'[q]>> \in Fallbacks
      BY <1>1, <2>2 DEF Fallbacks, TypeOK
    <3> QED
      BY <2>1, <3>1, FallbackFits
  <2>3. CASE q # p
    <3>1. Same(q)
      BY <1>1, <2>1, <2>3 DEF Same, SameButStatus, TypeOK
    <3> QED
      BY <2>1, <3>1, SameFits
  <2> QED
    BY <2>2, <2>3
<1>6. DrainsAlone'
  BY <1>1 DEF SessionInv, DrainsAlone
<1> QED
  BY <1>1, <1>4, <1>5, <1>6 DEF SessionInv

LEMMA FreePlayerSession ==
    ASSUME TypeOK, SessionInv, NEW p \in Players, FreePlayer(p)
    PROVE  SessionInv' /\ UNCHANGED gvars
<1>1. /\ mainq' = Append(mainq, MainMsg("newplayer_free", p, NoArena))
      /\ UNCHANGED <<status, dbq, gvars, gsync, async, gcallbacks, pending, draining>>
  BY DEF FreePlayer, cvars, tvars
<1>2. Still /\ \A q \in Players : Same(q)
  BY <1>1 DEF Still, Same, gvars
<1>3. MainMsg("newplayer_free", p, NoArena).cb # SyncDone
  BY DEF MainMsg, SyncDone
<1>4. RequestsFit' /\ AnswersFit' /\ \A q \in Players : SameQueues(q)
  BY <1>1, <1>2, <1>3, LifeQueued DEF SessionInv
<1>5. \A q \in Players : SessionFits(q)'
  BY <1>2, <1>4, SameFits DEF SessionInv
<1>6. DrainsAlone'
  BY <1>1 DEF SessionInv, DrainsAlone
<1> QED
  BY <1>1, <1>4, <1>5, <1>6 DEF SessionInv

\* ARENA_DO_INIT2 and ARENA_DO_WRITE_DATA ask the database for an arena.
LEMMA SyncArenaSession ==
    ASSUME TypeOK, SessionInv, NEW a \in Arenas, NEW cmd \in {"get_arena", "put_arena"},
           NEW wait, NEW next, SyncArena(a, cmd, wait, next)
    PROVE  SessionInv' /\ UNCHANGED gvars
<1>1. UNCHANGED <<pvars, cvars, tvars, mainq, gvars>>
  BY DEF SyncArena
<1>2. CASE HasPersist
  <2> DEFINE m == DbMsg(cmd, NoPlayer, a)
  <2>1. m \in DbMessages /\ m.p = NoPlayer /\ dbq' = Append(dbq, m)
    BY <1>2, ArenaDbMsgType DEF SyncArena, DbMsg
  <2> HIDE DEF m
  <2>2. \A p \in Players : Same(p) /\ p # NoPlayer
    BY <1>1, ZoneAssumption DEF Same, pvars, cvars, tvars, gvars
  <2>3. /\ RequestsFit' /\ AnswersFit'
        /\ \A p \in Players : Answered(p)' <=> Answered(p)
        /\ \A p \in Players : Asked(p)' <=> Asked(p) \/ p = m.p
    BY <1>1, <2>1, <2>2, DbQueued DEF SessionInv, Same
  <2>4. \A p \in Players : SessionFits(p)'
    BY <2>1, <2>2, <2>3, SameFits DEF SessionInv, SameQueues
  <2>5. DrainsAlone'
    BY <1>1 DEF SessionInv, DrainsAlone, tvars
  <2> QED
    BY <1>1, <2>3, <2>4, <2>5 DEF SessionInv
<1>3. CASE ~HasPersist
  BY <1>1, <1>3, ArenaQuietSession DEF SyncArena, tvars
<1> QED
  BY <1>2, <1>3

----------------------------------------------------------------------------
(* process_player_states.                                                  *)

\* A pass comes when nothing is left to be done; the moves it makes are these.
Passes ==
    {<<"connected", "leaving_zone">>, <<"loggedin", "leaving_zone">>,
     <<"loggedin", "do_freq_and_arena_sync">>}

LEMMA PassFits ==
    ASSUME NEW p \in Players, SessionFits(p), SameQueues(p), pending[p] = "idle",
           told'[p] = told[p], loaded'[p] = loaded[p],
           p \in gcallbacks' <=> p \in gcallbacks,
           p \in gsync' <=> p \in gsync, p \in async' <=> p \in async,
           ~Asked(p) /\ ~Answered(p),
           \/ pending'[p] = "idle" /\ <<status[p], status'[p]>> \in Passes
           \/ /\ pending'[p] = status[p] /\ status[p] \in DOMAIN NextStatus
              /\ status'[p] = NextStatus[status[p]]
    PROVE  SessionFits(p)'
<1> USE DEF SameQueues, Passes, SessionFits, NextStatus
<1>1. PendingFits(p)'
  BY DEF PendingFits, LeftToDo
<1>2. ToldFits(p)'
  BY DEF ToldFits, HasEntered, HasConnected, Early, Middle
<1>3. GlobalFits(p)'
  BY ZoneAssumption DEF GlobalFits, Early, Middle
<1>4. ArenaFits(p)'
  BY ZoneAssumption DEF ArenaFits, Inside
<1> QED
  BY <1>1, <1>2, <1>3, <1>4

LEMMA PlayerPassSession ==
    ASSUME TypeOK, StatusInv, SessionInv, PlayerPass
    PROVE  SessionInv' /\ UNCHANGED gvars
<1>1. /\ MainFree
      /\ status' = [p \in Players |-> IF p \in Listed THEN PassedStatus(p) ELSE status[p]]
      /\ pending' = [p \in Players |->
                        IF p \in Listed /\ status[p] \in DOMAIN NextStatus
                          THEN status[p] ELSE "idle"]
      /\ UNCHANGED <<dbq, mainq, gvars, gsync, async, gcallbacks, draining>>
  BY DEF PlayerPass, cvars, qvars
<1>2. \A p \in Players : pending[p] = "idle"
  BY <1>1 DEF MainFree
<1>3. ASSUME NEW p \in Players
      PROVE  \/ pending'[p] = "idle" /\ status'[p] = status[p]
             \/ pending'[p] = "idle" /\ <<status[p], status'[p]>> \in Passes
             \/ /\ pending'[p] = status[p] /\ status[p] \in DOMAIN NextStatus
                /\ status'[p] = NextStatus[status[p]]
  <2>1. CASE p \notin Listed
    BY <1>1, <2>1
  <2>2. CASE p \in Listed /\ status[p] \in DOMAIN NextStatus
    <3>1. status[p] \notin Waiting
      BY <2>2 DEF Waiting, NextStatus
    <3> QED
      BY <1>1, <2>2, <3>1 DEF PassedStatus
  <2>3. CASE p \in Listed /\ status[p] \notin DOMAIN NextStatus
    BY <1>1, <2>3, PassedStatusIs DEF Passes, Waiting
  <2> QED
    BY <2>1, <2>2, <2>3
<1>4. \A s \in Wait4 : s \notin DOMAIN NextStatus /\ \A t : <<s, t>> \notin Passes
  BY DEF Wait4, NextStatus, Passes
<1>5. Still
  BY <1>2, <1>3, <1>4 DEF Still
<1>6. RequestsFit' /\ AnswersFit' /\ \A p \in Players : SameQueues(p)
  BY <1>1, <1>5, QueuesKept DEF SessionInv
<1>7. ASSUME NEW p \in Players PROVE SessionFits(p)'
  <2>1. /\ SessionFits(p) /\ SameQueues(p) /\ pending[p] = "idle"
        /\ told'[p] = told[p] /\ loaded'[p] = loaded[p]
    BY <1>1, <1>2, <1>6 DEF SessionInv, gvars
  <2>2. CASE pending'[p] = "idle" /\ status'[p] = status[p]
    <3>1. Same(p)
      BY <1>1, <2>1, <2>2 DEF Same
    <3> QED
      BY <2>1, <3>1, SameFits
  <2>3. CASE ~(pending'[p] = "idle" /\ status'[p] = status[p])
    <3>1. status[p] \notin Wait4
      BY <1>3, <1>4, <2>3
    <3>2. ~Asked(p) /\ ~Answered(p)
      BY <3>1, AskedWait DEF SessionInv
    <3> QED
      BY <1>1, <1>3, <2>1, <2>3, <3>2, PassFits
  <2> QED
    BY <2>2, <2>3
<1>8. DrainsAlone'
  BY <1>1 DEF MainFree, DrainsAlone
<1> QED
  BY <1>1, <1>6, <1>7, <1>8 DEF SessionInv

----------------------------------------------------------------------------
(* The actions of process_player_states.                                   *)

\* A player whom the step is not about: he stays where he is, or falls back.
LEMMA BystanderFits ==
    ASSUME NEW q \in Players, SessionFits(q), SameQueues(q), SameButStatus(q),
           status'[q] = status[q] \/ <<status[q], status'[q]>> \in Fallbacks
    PROVE  SessionFits(q)'
<1>1. CASE status'[q] = status[q]
  <2>1. Same(q)
    BY <1>1 DEF Same, SameButStatus
  <2> QED
    BY <2>1, SameFits
<1> QED
  BY <1>1, FallbackFits

\* player_sync_done moves the player it is about, and lets in one who waits for him to leave.
LEMMA AnswerMoves ==
    ASSUME TypeOK, NEW p \in Players, PlayerSyncDone(p)
    PROVE  /\ status'[p] = SyncedStatus(p)
           /\ \A q \in Players \ {p} :
                 status'[q] = status[q] \/ <<status[q], status'[q]>> \in Fallbacks
<1>1. p \notin Replacement(p)
  BY DEF Replacement
<1>2. \A q \in Replacement(p) : status[q] = "wait_auth"
  BY DEF Replacement
<1> QED
  BY <1>1, <1>2 DEF PlayerSyncDone, Fallbacks

\* An action that asks the database, or is done at once.
LEMMA SyncedAct ==
    ASSUME TypeOK, SessionInv, NEW p \in Players, NEW s \in Statuses, Acted(p, s),
           NEW c \in {"get_player", "put_player"}, NEW a \in Arenas \cup {NoArena},
           NEW w \in BOOLEAN, SyncPlayer(p, w, c, a),
           w => HasPersist /\ <<status[p], c, ScopeOf(a)>> \in Requests
    PROVE  /\ RequestsFit' /\ AnswersFit' /\ DrainsAlone'
           /\ ~Asked(p) /\ ~Answered(p)
           /\ \A q \in Players : Answered(q)' <=> Answered(q)
           /\ \A q \in Players : Asked(q)' <=> Asked(q) \/ (w /\ q = p)
           /\ pending'[p] = "idle"
           /\ status'[p] = IF w THEN status[p] ELSE SyncedStatus(p)
           /\ \A q \in Players \ {p} :
                 /\ pending'[q] = pending[q]
                 /\ status'[q] = status[q] \/ <<status[q], status'[q]>> \in Fallbacks
<1>1. /\ pending[p] = s /\ s # "idle"
      /\ pending' = [pending EXCEPT ![p] = "idle"]
      /\ UNCHANGED <<mainq, draining>>
  BY DEF Acted, Statuses
<1>2. ~Asked(p) /\ ~Answered(p)
  BY <1>1, AskedWait DEF SessionInv
<1>3. /\ pending'[p] = "idle"
      /\ \A q \in Players \ {p} : pending'[q] = pending[q]
  BY <1>1 DEF TypeOK
<1>4. DrainsAlone'
  BY <1>1, <1>3 DEF SessionInv, DrainsAlone
<1>5. CASE w
  <2> DEFINE m == DbMsg(c, p, a)
  <2>1. m \in DbMessages /\ m.p = p /\ m.cmd = c /\ m.a = a /\ dbq' = Append(dbq, m)
        /\ UNCHANGED status
    BY <1>5, DbMsgType DEF SyncPlayer, DbMsg
  <2> HIDE DEF m
  <2>2. /\ RequestsFit' /\ AnswersFit'
        /\ \A q \in Players : Answered(q)' <=> Answered(q)
        /\ \A q \in Players : Asked(q)' <=> Asked(q) \/ q = m.p
    BY <1>1, <1>2, <1>3, <1>5, <2>1, DbQueued DEF SessionInv
  <2> QED
    BY <1>2, <1>3, <1>4, <1>5, <2>1, <2>2
<1>6. CASE ~w
  <2>1. PlayerSyncDone(p) /\ UNCHANGED dbq
    BY <1>6 DEF SyncPlayer
  <2>2. /\ status'[p] = SyncedStatus(p)
        /\ \A q \in Players \ {p} :
              status'[q] = status[q] \/ <<status[q], status'[q]>> \in Fallbacks
    BY <2>1, AnswerMoves
  <2>3. Still
    <3>1. pending[p] # "idle"
      BY <1>1
    <3> QED
      BY <1>3, <2>2, <3>1 DEF Still, Fallbacks, Wait4
  <2>4. RequestsFit' /\ AnswersFit' /\ \A q \in Players : SameQueues(q)
    BY <1>1, <2>1, <2>3, QueuesKept DEF SessionInv
  <2> QED
    BY <1>2, <1>3, <1>4, <1>6, <2>2, <2>4 DEF SameQueues
<1> QED
  BY <1>5, <1>6

\* What is left to be done for a player tells his status.
LEMMA ActedAt ==
    ASSUME TypeOK, SessionInv, NEW p \in Players, NEW s \in Statuses, Acted(p, s)
    PROVE  SessionFits(p) /\ pending[p] = s /\ <<s, status[p]>> \in LeftToDo
BY DEF Acted, SessionInv, SessionFits, PendingFits, Statuses

LEMMA ActGetGlobalSession ==
    ASSUME TypeOK, SessionInv, NEW p \in Players, ActGetGlobal(p)
    PROVE  SessionInv' /\ UNCHANGED gvars
<1>1. /\ Acted(p, "need_global_sync") /\ SyncPlayer(p, HasPersist, "get_player", NoArena)
      /\ gsync' = gsync \cup {p} /\ UNCHANGED <<async, gcallbacks, gvars>>
  BY DEF ActGetGlobal
<1>2. "need_global_sync" \in Statuses /\ HasPersist \in BOOLEAN
  BY ZoneAssumption DEF Statuses
<1>3. /\ SessionFits(p) /\ pending[p] = "need_global_sync" /\ status[p] = "wait_global_sync1"
  BY <1>1, <1>2, ActedAt DEF LeftToDo
<1>4. <<status[p], "get_player", ScopeOf(NoArena)>> \in Requests
  BY <1>3 DEF ScopeOf, Requests
<1>5. /\ RequestsFit' /\ AnswersFit' /\ DrainsAlone'
      /\ ~Asked(p) /\ ~Answered(p)
      /\ \A q \in Players : Answered(q)' <=> Answered(q)
      /\ \A q \in Players : Asked(q)' <=> Asked(q) \/ (HasPersist /\ q = p)
      /\ pending'[p] = "idle"
      /\ status'[p] = IF HasPersist THEN status[p] ELSE SyncedStatus(p)
      /\ \A q \in Players \ {p} :
            /\ pending'[q] = pending[q]
            /\ status'[q] = status[q] \/ <<status[q], status'[q]>> \in Fallbacks
  BY <1>1, <1>2, <1>4, SyncedAct
<1>6. status'[p] = IF HasPersist THEN "wait_global_sync1" ELSE "do_global_callbacks"
  BY <1>3, <1>5 DEF SyncedStatus
<1>7. SessionFits(p)'
  <2>1. PendingFits(p)'
    BY <1>5 DEF PendingFits
  <2>2. ToldFits(p)'
    BY <1>1, <1>3, <1>5, <1>6
       DEF SessionFits, ToldFits, HasEntered, HasConnected, Early, Middle, gvars
  <2>3. GlobalFits(p)'
    BY <1>1, <1>3, <1>5, <1>6 DEF SessionFits, GlobalFits, Early, Middle, gvars
  <2>4. ArenaFits(p)'
    BY <1>1, <1>3, <1>5, <1>6 DEF SessionFits, ArenaFits, Inside, gvars
  <2> QED
    BY <2>1, <2>2, <2>3, <2>4 DEF SessionFits
<1>8. ASSUME NEW q \in Players \ {p} PROVE SessionFits(q)'
  BY <1>1, <1>5, BystanderFits DEF SessionInv, SameQueues, SameButStatus, gvars
<1> QED
  BY <1>1, <1>5, <1>7, <1>8 DEF SessionInv

LEMMA ActGetArenaSession ==
    ASSUME TypeOK, ZoneInv, SessionInv, NEW p \in Players, ActGetArena(p)
    PROVE  SessionInv' /\ UNCHANGED gvars
<1>1. /\ Acted(p, "do_freq_and_arena_sync")
      /\ SyncPlayer(p, HasPersist, "get_player", arena[p])
      /\ async' = async \cup {p} /\ UNCHANGED <<gsync, gcallbacks, gvars>>
  BY DEF ActGetArena
<1>2. /\ "do_freq_and_arena_sync" \in Statuses /\ HasPersist \in BOOLEAN
      /\ arena[p] \in Arenas \cup {NoArena}
  BY ZoneAssumption DEF Statuses, TypeOK
<1>3. /\ SessionFits(p) /\ pending[p] = "do_freq_and_arena_sync"
      /\ status[p] = "wait_arena_sync1"
  BY <1>1, <1>2, ActedAt DEF LeftToDo
<1>4. <<status[p], "get_player", ScopeOf(arena[p])>> \in Requests
  BY <1>3 DEF ZoneInv, InsideIsListed, InArenaStatuses, ScopeOf, Requests
<1>5. /\ RequestsFit' /\ AnswersFit' /\ DrainsAlone'
      /\ ~Asked(p) /\ ~Answered(p)
      /\ \A q \in Players : Answered(q)' <=> Answered(q)
      /\ \A q \in Players : Asked(q)' <=> Asked(q) \/ (HasPersist /\ q = p)
      /\ pending'[p] = "idle"
      /\ status'[p] = IF HasPersist THEN status[p] ELSE SyncedStatus(p)
      /\ \A q \in Players \ {p} :
            /\ pending'[q] = pending[q]
            /\ status'[q] = status[q] \/ <<status[q], status'[q]>> \in Fallbacks
  BY <1>1, <1>2, <1>4, SyncedAct
<1>6. IF HasPersist THEN status'[p] = "wait_arena_sync1"
                    ELSE status'[p] \in {"do_arena_sync2", "arena_resp_and_cbs"}
  BY <1>3, <1>5 DEF SyncedStatus
<1>7. SessionFits(p)'
  <2>1. PendingFits(p)'
    BY <1>5 DEF PendingFits
  <2>2. ToldFits(p)'
    BY <1>1, <1>3, <1>5, <1>6
       DEF SessionFits, ToldFits, HasEntered, HasConnected, Early, Middle, gvars
  <2>3. GlobalFits(p)'
    BY <1>1, <1>3, <1>5, <1>6 DEF SessionFits, GlobalFits, Early, Middle, gvars
  <2>4. ArenaFits(p)'
    BY <1>1, <1>3, <1>5, <1>6 DEF SessionFits, ArenaFits, Inside, gvars
  <2> QED
    BY <2>1, <2>2, <2>3, <2>4 DEF SessionFits
<1>8. ASSUME NEW q \in Players \ {p} PROVE SessionFits(q)'
  BY <1>1, <1>5, BystanderFits DEF SessionInv, SameQueues, SameButStatus, gvars
<1> QED
  BY <1>1, <1>5, <1>7, <1>8 DEF SessionInv

LEMMA ActPutArenaSession ==
    ASSUME TypeOK, ZoneInv, SessionInv, NEW p \in Players, ActPutArena(p)
    PROVE  SessionInv' /\ UNCHANGED gvars
<1> DEFINE w == HasPersist /\ p \in async
<1>1. /\ Acted(p, "do_arena_sync2") /\ SyncPlayer(p, w, "put_player", arena[p])
      /\ async' = async \ {p} /\ UNCHANGED <<gsync, gcallbacks, gvars>>
  BY DEF ActPutArena
<1>2. /\ "do_arena_sync2" \in Statuses /\ w \in BOOLEAN
      /\ arena[p] \in Arenas \cup {NoArena}
  BY DEF Statuses, TypeOK
<1>3. /\ SessionFits(p) /\ pending[p] = "do_arena_sync2" /\ status[p] = "wait_arena_sync2"
  BY <1>1, <1>2, ActedAt DEF LeftToDo
<1>4. /\ <<status[p], "put_player", ScopeOf(arena[p])>> \in Requests
      /\ w <=> HasPersist
  BY <1>3 DEF ZoneInv, InsideIsListed, InArenaStatuses, ScopeOf, Requests, SessionFits, ArenaFits
<1> HIDE DEF w
<1>5. /\ RequestsFit' /\ AnswersFit' /\ DrainsAlone'
      /\ ~Asked(p) /\ ~Answered(p)
      /\ \A q \in Players : Answered(q)' <=> Answered(q)
      /\ \A q \in Players : Asked(q)' <=> Asked(q) \/ (w /\ q = p)
      /\ pending'[p] = "idle"
      /\ status'[p] = IF w THEN status[p] ELSE SyncedStatus(p)
      /\ \A q \in Players \ {p} :
            /\ pending'[q] = pending[q]
            /\ status'[q] = status[q] \/ <<status[q], status'[q]>> \in Fallbacks
  BY <1>1, <1>2, <1>4, SyncedAct
<1>6. status'[p] = IF w THEN "wait_arena_sync2" ELSE "loggedin"
  BY <1>3, <1>5 DEF SyncedStatus
<1>7. SessionFits(p)'
  <2>1. PendingFits(p)'
    BY <1>5 DEF PendingFits
  <2>2. ToldFits(p)'
    BY <1>1, <1>3, <1>5, <1>6
       DEF SessionFits, ToldFits, HasEntered, HasConnected, Early, Middle, gvars
  <2>3. GlobalFits(p)'
    BY <1>1, <1>3, <1>5, <1>6 DEF SessionFits, GlobalFits, Early, Middle, gvars
  <2>4. ArenaFits(p)'
    BY <1>1, <1>3, <1>4, <1>5, <1>6 DEF SessionFits, ArenaFits, Inside, gvars
  <2> QED
    BY <2>1, <2>2, <2>3, <2>4 DEF SessionFits
<1>8. ASSUME NEW q \in Players \ {p} PROVE SessionFits(q)'
  BY <1>1, <1>5, BystanderFits DEF SessionInv, SameQueues, SameButStatus, gvars
<1> QED
  BY <1>1, <1>5, <1>7, <1>8 DEF SessionInv

\* What Session lets a step do.
Keeps == Promises!Next \/ UNCHANGED gvars

LEMMA ActLeaveZoneSession ==
    ASSUME TypeOK, SessionInv, NEW p \in Players, ActLeaveZone(p)
    PROVE  SessionInv' /\ Keeps
<1> DEFINE w == HasPersist /\ p \in gsync
<1>1. /\ Acted(p, "leaving_zone") /\ SyncPlayer(p, w, "put_player", NoArena)
      /\ told' = IF p \in gcallbacks THEN [told EXCEPT ![p] = "out"] ELSE told
      /\ gsync' = gsync \ {p} /\ UNCHANGED <<async, gcallbacks, loaded>>
  BY DEF ActLeaveZone
<1>2. "leaving_zone" \in Statuses /\ w \in BOOLEAN /\ NoArena \in Arenas \cup {NoArena}
  BY DEF Statuses
<1>3. /\ SessionFits(p) /\ pending[p] = "leaving_zone" /\ status[p] = "wait_global_sync2"
  BY <1>1, <1>2, ActedAt DEF LeftToDo
<1>4. /\ <<status[p], "put_player", ScopeOf(NoArena)>> \in Requests
      /\ ("global" \in loaded[p] <=> w \/ Asked(p))
      /\ "arena" \notin loaded[p]
  BY <1>3 DEF ScopeOf, Requests, SessionFits, GlobalFits, ArenaFits, Inside
<1>w. w => HasPersist
  OBVIOUS
<1> HIDE DEF w
<1>5. /\ RequestsFit' /\ AnswersFit' /\ DrainsAlone'
      /\ ~Asked(p) /\ ~Answered(p)
      /\ \A q \in Players : Answered(q)' <=> Answered(q)
      /\ \A q \in Players : Asked(q)' <=> Asked(q) \/ (w /\ q = p)
      /\ pending'[p] = "idle"
      /\ status'[p] = IF w THEN status[p] ELSE SyncedStatus(p)
      /\ \A q \in Players \ {p} :
            /\ pending'[q] = pending[q]
            /\ status'[q] = status[q] \/ <<status[q], status'[q]>> \in Fallbacks
  BY <1>1, <1>2, <1>4, <1>w, SyncedAct
<1>6. status'[p] = IF w THEN "wait_global_sync2" ELSE "timewait"
  BY <1>3, <1>5 DEF SyncedStatus
<1>t. /\ told'[p] = "out" /\ told[p] \in {"out", "connected"}
      /\ \A q \in Players \ {p} : told'[q] = told[q]
  <2>1. /\ told[p] \in {"out", "connected", "entered"}
        /\ told[p] # "entered" /\ (told[p] # "out" <=> p \in gcallbacks)
    BY <1>3 DEF SessionFits, ToldFits, HasEntered, TypeOK
  <2> QED
    BY <1>1, <2>1 DEF TypeOK
<1>7. SessionFits(p)'
  <2>1. PendingFits(p)'
    BY <1>5 DEF PendingFits
  <2>2. ToldFits(p)'
    BY <1>1, <1>5, <1>6, <1>t DEF ToldFits, HasEntered, HasConnected, Early, Middle
  <2>3. GlobalFits(p)'
    BY <1>1, <1>4, <1>5, <1>6 DEF GlobalFits, Early, Middle
  <2>4. ArenaFits(p)'
    BY <1>1, <1>3, <1>5, <1>6 DEF SessionFits, ArenaFits, Inside
  <2> QED
    BY <2>1, <2>2, <2>3, <2>4 DEF SessionFits
<1>8. ASSUME NEW q \in Players \ {p} PROVE SessionFits(q)'
  BY <1>1, <1>5, <1>t, BystanderFits DEF SessionInv, SameQueues, SameButStatus
<1>9. Keeps
  <2>1. CASE p \notin gcallbacks
    BY <1>1, <2>1 DEF Keeps, gvars
  <2>2. CASE p \in gcallbacks
    <3>1. told[p] = "connected"
      BY <1>3, <1>t, <2>2 DEF SessionFits, ToldFits
    <3>2. Promises!Disconnect(p)
      BY <1>1, <1>4, <2>2, <3>1 DEF Promises!Disconnect, Promises!Tell
    <3> QED
      BY <3>2 DEF Keeps, Promises!Next
  <2> QED
    BY <2>1, <2>2
<1> QED
  BY <1>5, <1>7, <1>8, <1>9 DEF SessionInv

\* An action that does not ask the database.
LEMMA ToldAct ==
    ASSUME TypeOK, SessionInv, NEW p \in Players, NEW s \in Statuses, Acted(p, s),
           UNCHANGED <<status, dbq, gsync, async, loaded>>,
           \A q \in Players \ {p} :
               told'[q] = told[q] /\ (q \in gcallbacks' <=> q \in gcallbacks),
           ToldFits(p)', <<s, status[p]>> \in LeftToDo,
           s \notin {"need_global_sync", "do_freq_and_arena_sync", "do_arena_sync2",
                    "leaving_zone"}
    PROVE  SessionInv'
<1>1. /\ pending' = [pending EXCEPT ![p] = "idle"] /\ pending[p] = s /\ s # "idle"
      /\ UNCHANGED <<mainq, draining>>
  BY DEF Acted, Statuses
<1>2. /\ pending'[p] = "idle"
      /\ \A q \in Players \ {p} : pending'[q] = pending[q]
  BY <1>1 DEF TypeOK
<1>3. Still
  BY <1>1, <1>2 DEF Still
<1>4. RequestsFit' /\ AnswersFit' /\ \A q \in Players : SameQueues(q)
  BY <1>1, <1>3, QueuesKept DEF SessionInv
<1>5. SessionFits(p)'
  <2>1. SessionFits(p) /\ SameQueues(p)
    BY <1>4 DEF SessionInv
  <2>2. PendingFits(p)'
    BY <1>2 DEF PendingFits
  <2>3. GlobalFits(p)'
    BY <1>1, <1>2, <2>1 DEF SessionFits, SameQueues, GlobalFits, LeftToDo
  <2>4. ArenaFits(p)'
    BY <1>1, <1>2, <2>1 DEF SessionFits, SameQueues, ArenaFits, LeftToDo
  <2> QED
    BY <2>2, <2>3, <2>4 DEF SessionFits
<1>6. ASSUME NEW q \in Players \ {p} PROVE SessionFits(q)'
  BY <1>2, <1>4, BystanderFits DEF SessionInv, SameButStatus
<1>7. DrainsAlone'
  BY <1>1, <1>2 DEF SessionInv, DrainsAlone
<1> QED
  BY <1>4, <1>5, <1>6, <1>7 DEF SessionInv

LEMMA PlainActSession ==
    ASSUME TypeOK, SessionInv, NEW p \in Players, ActAuthenticate(p) \/ ActLoginResponse(p)
    PROVE  SessionInv' /\ UNCHANGED gvars
<1>1. PICK s \in {"need_auth", "send_login_response"} : Acted(p, s)
  BY DEF ActAuthenticate, ActLoginResponse
<1>2. s \in Statuses
  BY <1>1 DEF Statuses
<1>3. UNCHANGED <<status, dbq, cvars, gvars>>
  BY DEF ActAuthenticate, ActLoginResponse
<1>4. SessionFits(p) /\ pending[p] = s /\ <<s, status[p]>> \in LeftToDo /\ pending'[p] = "idle"
  BY <1>1, <1>2, ActedAt DEF Acted, TypeOK
<1>5. ToldFits(p)'
  BY <1>3, <1>4
     DEF SessionFits, ToldFits, HasEntered, HasConnected, LeftToDo, Early, Middle, cvars, gvars
<1> QED
  BY <1>1, <1>2, <1>3, <1>4, <1>5, ToldAct DEF cvars, gvars

LEMMA ActConnectSession ==
    ASSUME TypeOK, SessionInv, NEW p \in Players, ActConnect(p)
    PROVE  SessionInv' /\ Keeps
<1>1. /\ Acted(p, "do_global_callbacks")
      /\ told' = [told EXCEPT ![p] = "connected"]
      /\ gcallbacks' = gcallbacks \cup {p}
      /\ UNCHANGED <<status, gsync, async, dbq, loaded>>
  BY DEF ActConnect
<1>2. "do_global_callbacks" \in Statuses
  BY DEF Statuses
<1>3. /\ SessionFits(p) /\ pending[p] = "do_global_callbacks"
      /\ <<pending[p], status[p]>> \in LeftToDo
      /\ pending'[p] = "idle" /\ told'[p] = "connected"
  BY <1>1, <1>2, ActedAt DEF Acted, TypeOK
<1>4. status[p] = "send_login_response"
  BY <1>3 DEF LeftToDo
<1>5. ToldFits(p)'
  BY <1>1, <1>3, <1>4 DEF ToldFits, HasEntered, HasConnected, Early, Middle
<1>6. SessionInv'
  BY <1>1, <1>2, <1>3, <1>5, ToldAct DEF TypeOK
<1>7. Promises!Connect(p)
  <2>1. told[p] = "out" /\ (HasPersist => "global" \in loaded[p])
    BY <1>3, <1>4 DEF SessionFits, ToldFits, HasConnected, GlobalFits, Middle
  <2> QED
    BY <1>1, <2>1 DEF Promises!Connect, Promises!Tell, Promises!InMemory
<1> QED
  BY <1>6, <1>7 DEF Keeps, Promises!Next

LEMMA ActEnterArenaSession ==
    ASSUME TypeOK, SessionInv, NEW p \in Players, ActEnterArena(p)
    PROVE  SessionInv' /\ Keeps
<1>1. /\ Acted(p, "arena_resp_and_cbs")
      /\ told' = [told EXCEPT ![p] = "entered"]
      /\ UNCHANGED <<status, cvars, dbq, loaded>>
  BY DEF ActEnterArena
<1>2. "arena_resp_and_cbs" \in Statuses
  BY DEF Statuses
<1>3. /\ SessionFits(p) /\ pending[p] = "arena_resp_and_cbs"
      /\ <<pending[p], status[p]>> \in LeftToDo
      /\ pending'[p] = "idle" /\ told'[p] = "entered"
  BY <1>1, <1>2, ActedAt DEF Acted, TypeOK
<1>4. status[p] \in {"playing", "leaving_arena"}
  BY <1>3 DEF LeftToDo
<1>5. ToldFits(p)'
  BY <1>1, <1>3, <1>4
     DEF SessionFits, ToldFits, HasEntered, HasConnected, Early, Middle, cvars
<1>6. SessionInv'
  BY <1>1, <1>2, <1>3, <1>5, ToldAct DEF TypeOK, cvars
<1>7. Promises!Enter(p)
  <2>1. told[p] # "out" /\ told[p] # "entered" /\ (HasPersist => "arena" \in loaded[p])
    BY <1>3, <1>4 DEF SessionFits, ToldFits, HasEntered, HasConnected, ArenaFits, Middle, Inside
  <2>2. told[p] = "connected"
    BY <2>1 DEF TypeOK
  <2> QED
    BY <1>1, <2>1, <2>2 DEF Promises!Enter, Promises!Tell, Promises!InMemory
<1> QED
  BY <1>6, <1>7 DEF Keeps, Promises!Next

LEMMA ActLeaveArenaSession ==
    ASSUME TypeOK, SessionInv, NEW p \in Players, ActLeaveArena(p)
    PROVE  SessionInv' /\ Keeps
<1>1. /\ Acted(p, "leaving_arena")
      /\ told' = [told EXCEPT ![p] = "connected"]
      /\ UNCHANGED <<status, cvars, dbq, loaded>>
  BY DEF ActLeaveArena
<1>2. "leaving_arena" \in Statuses
  BY DEF Statuses
<1>3. /\ SessionFits(p) /\ pending[p] = "leaving_arena"
      /\ <<pending[p], status[p]>> \in LeftToDo
      /\ pending'[p] = "idle" /\ told'[p] = "connected"
  BY <1>1, <1>2, ActedAt DEF Acted, TypeOK
<1>4. status[p] = "do_arena_sync2"
  BY <1>3 DEF LeftToDo
<1>5. ToldFits(p)'
  BY <1>1, <1>3, <1>4
     DEF SessionFits, ToldFits, HasEntered, HasConnected, Early, Middle, cvars
<1>6. SessionInv'
  BY <1>1, <1>2, <1>3, <1>5, ToldAct DEF TypeOK, cvars
<1>7. Promises!Leave(p)
  <2>1. told[p] = "entered"
    BY <1>3, <1>4 DEF SessionFits, ToldFits, HasEntered
  <2> QED
    BY <1>1, <2>1 DEF Promises!Leave, Promises!Tell
<1> QED
  BY <1>6, <1>7 DEF Keeps, Promises!Next

LEMMA RunActionSession ==
    ASSUME TypeOK, ZoneInv, SessionInv, NEW p \in Players, RunAction(p)
    PROVE  SessionInv' /\ Keeps
BY PlainActSession, ActGetGlobalSession, ActConnectSession, ActGetArenaSession,
   ActEnterArenaSession, ActLeaveArenaSession, ActPutArenaSession, ActLeaveZoneSession
   DEF RunAction, Keeps

----------------------------------------------------------------------------
(* The database thread answers the oldest request.                         *)

LEMMA TakenRequest ==
    ASSUME TypeOK, SessionInv, DBThread
    PROVE  LET m == Head(dbq)
           IN  /\ m \in DbMessages
               /\ m.p \in Players =>
                     /\ Asked(m.p) /\ ~Answered(m.p) /\ HasPersist /\ pending[m.p] = "idle"
                     /\ <<status[m.p], m.cmd, ScopeOf(m.a)>> \in Requests
               /\ \A q \in Players : Asked(q)' <=> Asked(q) /\ q # m.p
               /\ \A i \in DOMAIN dbq' : i + 1 \in DOMAIN dbq /\ dbq'[i] = dbq[i + 1]
               /\ \A i \in DOMAIN dbq' : dbq'[i].p # NoPlayer => dbq'[i].p # m.p
<1> DEFINE m == Head(dbq)
<1>1. /\ 1 \in DOMAIN dbq /\ m = dbq[1] /\ m \in DbMessages
      /\ \A i \in DOMAIN dbq' :
           i + 1 \in DOMAIN dbq /\ i + 1 # 1 /\ dbq'[i] = dbq[i + 1] /\ i \in Nat
      /\ \A i \in DOMAIN dbq : i # 1 => i - 1 \in DOMAIN dbq' /\ dbq'[i - 1] = dbq[i]
  BY TakenDb, DbTypes DEF DBThread
<1> HIDE DEF m
<1>2. NoPlayer \notin Players
  BY ZoneAssumption
<1>3. \A i \in DOMAIN dbq' : dbq'[i].p # NoPlayer => dbq'[i].p # m.p
  <2>1. \A i, j \in DOMAIN dbq : dbq[i].p # NoPlayer /\ dbq[j].p = dbq[i].p => i = j
    BY DEF SessionInv, RequestsFit
  <2> QED
    BY <1>1, <2>1
<1>4. m.p \in Players =>
         /\ Asked(m.p) /\ ~Answered(m.p) /\ HasPersist /\ pending[m.p] = "idle"
         /\ <<status[m.p], m.cmd, ScopeOf(m.a)>> \in Requests
  BY <1>1, <1>2 DEF SessionInv, RequestsFit, Asked
<1>5. ASSUME NEW q \in Players PROVE Asked(q)' <=> Asked(q) /\ q # m.p
  <2>1. ASSUME Asked(q)' PROVE Asked(q) /\ q # m.p
    <3>1. PICK i \in DOMAIN dbq' : dbq'[i].p = q
      BY <2>1 DEF Asked
    <3> QED
      BY <1>1, <1>2, <1>3, <3>1 DEF Asked
  <2>2. ASSUME Asked(q), q # m.p PROVE Asked(q)'
    <3>1. PICK i \in DOMAIN dbq : dbq[i].p = q
      BY <2>2 DEF Asked
    <3>2. i # 1
      BY <1>1, <2>2, <3>1
    <3> QED
      BY <1>1, <3>1, <3>2 DEF Asked
  <2> QED
    BY <2>1, <2>2
<1> QED
  BY <1>1, <1>3, <1>4, <1>5 DEF m

LEMMA DBThreadSession ==
    ASSUME TypeOK, SessionInv, DBThread
    PROVE  SessionInv' /\ Keeps
<1> DEFINE m == Head(dbq)
           c == CallbackOf(m)
<1>1. /\ m \in DbMessages
      /\ m.p \in Players =>
            /\ Asked(m.p) /\ ~Answered(m.p) /\ HasPersist /\ pending[m.p] = "idle"
            /\ <<status[m.p], m.cmd, ScopeOf(m.a)>> \in Requests
      /\ \A q \in Players : Asked(q)' <=> Asked(q) /\ q # m.p
      /\ \A i \in DOMAIN dbq' : i + 1 \in DOMAIN dbq /\ dbq'[i] = dbq[i + 1]
      /\ \A i \in DOMAIN dbq' : dbq'[i].p # NoPlayer => dbq'[i].p # m.p
  BY TakenRequest
<1>2. /\ loaded' = CASE m.cmd = "get_player" ->
                             [loaded EXCEPT ![m.p] = @ \cup {ScopeOf(m.a)}]
                      [] m.cmd = "put_player" -> [loaded EXCEPT ![m.p] = @ \ {ScopeOf(m.a)}]
                      [] OTHER -> loaded
      /\ mainq' = Append(mainq, c)
      /\ UNCHANGED <<pvars, cvars, tvars, told>>
  BY DEF DBThread
<1>3. /\ c \in MainMessages
      /\ IF m.p \in Players THEN c.cb = SyncDone /\ c.p = m.p ELSE c.cb # SyncDone
  BY <1>1, CallbackType, ZoneAssumption DEF CallbackOf, MainMsg, SyncDone, DbMessages
<1>4. /\ m.p = NoPlayer \/ m.p \in Players
      /\ m.p = NoPlayer => m.cmd \in {"get_arena", "put_arena"}
      /\ m.p \in Players => m.cmd \in {"get_player", "put_player"}
  BY <1>1, ZoneAssumption DEF DbMessages
<1> HIDE DEF m, c
<1>5. \A q \in Players : Answered(q)' <=> Answered(q) \/ q = m.p
  BY <1>2, <1>3, <1>4, AppendedMain, ZoneAssumption
<1>6. RequestsFit'
  <2> SUFFICES ASSUME NEW i \in DOMAIN dbq', NEW p, p = dbq'[i].p, p # NoPlayer
               PROVE  /\ HasPersist /\ pending'[p] = "idle" /\ ~Answered(p)'
                      /\ <<status'[p], dbq'[i].cmd, ScopeOf(dbq'[i].a)>> \in Requests
                      /\ \A j \in DOMAIN dbq' : dbq'[j].p = p => i = j
    BY DEF RequestsFit
  <2>1. /\ i + 1 \in DOMAIN dbq /\ dbq'[i] = dbq[i + 1] /\ p # m.p /\ p \in Players
        /\ \A j \in DOMAIN dbq' : j + 1 \in DOMAIN dbq /\ dbq'[j] = dbq[j + 1]
        /\ \A j \in DOMAIN dbq' : j \in Nat
    <3>1. \A j \in DOMAIN dbq' : j \in Nat
      BY TakenDb DEF DBThread
    <3> QED
      BY <1>1, <3>1, DbTypes
  <2>2. /\ HasPersist /\ pending[p] = "idle" /\ ~Answered(p)
        /\ <<status[p], dbq[i + 1].cmd, ScopeOf(dbq[i + 1].a)>> \in Requests
        /\ \A j \in DOMAIN dbq : dbq[j].p = p => i + 1 = j
    BY <2>1 DEF SessionInv, RequestsFit
  <2>3. \A j \in DOMAIN dbq' : dbq'[j].p = p => i = j
    BY <2>1, <2>2
  <2> QED
    BY <1>2, <1>5, <2>1, <2>2, <2>3 DEF pvars, tvars
<1>7. AnswersFit'
  <2> SUFFICES ASSUME NEW i \in DOMAIN mainq', mainq'[i].cb = SyncDone
               PROVE  /\ HasPersist /\ pending'[mainq'[i].p] = "idle"
                      /\ status'[mainq'[i].p] \in Wait4
                      /\ \A j \in DOMAIN mainq' :
                           mainq'[j].cb = SyncDone /\ mainq'[j].p = mainq'[i].p => i = j
    BY DEF AnswersFit, SyncDone
  <2>1. \A k \in DOMAIN mainq : mainq[k].cb = SyncDone => Answered(mainq[k].p)
    BY DEF Answered, SyncDone
  <2>2. CASE i \in DOMAIN mainq
    <3>1. mainq'[i] = mainq[i] /\ Answered(mainq[i].p) /\ mainq[i].p \in Players
      BY <1>2, <2>1, <2>2, AppendedMain, MainTypes
    <3>2. \A j \in DOMAIN mainq' : mainq'[j].cb = SyncDone /\ mainq'[j].p = mainq[i].p =>
             j \in DOMAIN mainq /\ mainq'[j] = mainq[j]
      BY <1>1, <1>2, <1>3, <3>1, AppendedMain
    <3> QED
      BY <1>2, <2>2, <3>1, <3>2 DEF SessionInv, AnswersFit, SyncDone, pvars, tvars
  <2>3. CASE i \notin DOMAIN mainq
    <3>1. i = Len(mainq) + 1 /\ mainq'[i] = c /\ m.p \in Players /\ c.p = m.p
      BY <1>2, <1>3, <2>3, AppendedMain
    <3>2. \A j \in DOMAIN mainq :
             mainq'[j] = mainq[j] /\ ~(mainq[j].cb = SyncDone /\ mainq[j].p = m.p)
      BY <1>1, <1>2, <2>1, <3>1, AppendedMain
    <3>3. status[m.p] \in Wait4
      BY <1>1, <3>1 DEF Requests, Wait4
    <3> QED
      BY <1>1, <1>2, <3>1, <3>2, <3>3, AppendedMain DEF pvars, tvars
  <2> QED
    BY <2>2, <2>3
<1>8. DrainsAlone'
  BY <1>2 DEF SessionInv, DrainsAlone, tvars
<1>9. ASSUME NEW q \in Players, q # m.p PROVE SessionFits(q)'
  <2>1. loaded'[q] = loaded[q]
    BY <1>2, <1>9 DEF TypeOK
  <2>2. Same(q) /\ SameQueues(q)
    BY <1>1, <1>2, <1>5, <1>9, <2>1 DEF Same, SameQueues, pvars, cvars, tvars
  <2> QED
    BY <2>2, SameFits DEF SessionInv
<1>10. CASE m.p = NoPlayer
  <2>1. UNCHANGED loaded
    BY <1>2, <1>4, <1>10
  <2> QED
    BY <1>2, <1>6, <1>7, <1>8, <1>9, <1>10, <2>1, ZoneAssumption DEF SessionInv, Keeps, gvars
<1>11. ASSUME NEW p \in Players, p = m.p PROVE SessionInv' /\ Keeps
  <2> DEFINE scope == ScopeOf(m.a)
  <2>1. /\ SessionFits(p) /\ Asked(p) /\ ~Answered(p) /\ ~Asked(p)' /\ Answered(p)'
        /\ HasPersist /\ pending[p] = "idle" /\ <<status[p], m.cmd, scope>> \in Requests
    BY <1>1, <1>5, <1>11 DEF SessionInv
  <2>2. /\ status'[p] = status[p] /\ pending'[p] = pending[p] /\ told'[p] = told[p]
        /\ UNCHANGED <<told, gcallbacks, gsync, async>>
    BY <1>2 DEF pvars, cvars, tvars
  <2>3. \/ /\ m.cmd = "get_player" /\ loaded' = [loaded EXCEPT ![p] = @ \cup {scope}]
           /\ loaded'[p] = loaded[p] \cup {scope}
        \/ /\ m.cmd = "put_player" /\ loaded' = [loaded EXCEPT ![p] = @ \ {scope}]
           /\ loaded'[p] = loaded[p] \ {scope}
    BY <1>2, <1>4, <1>11 DEF TypeOK
  <2> HIDE DEF scope
  <2>4. PendingFits(p)' /\ ToldFits(p)'
    BY <2>1, <2>2 DEF SessionFits, PendingFits, ToldFits, HasEntered, HasConnected
  <2>5. GlobalFits(p)'
    BY <2>1, <2>2, <2>3 DEF SessionFits, GlobalFits, Requests, Early, Middle
  <2>6. ArenaFits(p)'
    BY <2>1, <2>2, <2>3 DEF SessionFits, ArenaFits, Requests, Inside
  <2>7. SessionFits(p)'
    BY <2>4, <2>5, <2>6 DEF SessionFits
  <2>8. SessionInv'
    <3>1. \A q \in Players : SessionFits(q)'
      BY <1>9, <1>11, <2>7
    <3> QED
      BY <1>6, <1>7, <1>8, <3>1 DEF SessionInv
  <2>9. \/ Promises!ReadGlobal(p) \/ Promises!ReadArena(p)
        \/ Promises!SaveGlobal(p) \/ Promises!SaveArena(p)
    <3>1. told[p] \in {"out", "connected", "entered"}
      BY DEF TypeOK
    <3>2. CASE status[p] = "wait_global_sync1"
      <4>1. told[p] = "out" /\ scope = "global" /\ m.cmd = "get_player" /\ scope \notin loaded[p]
        BY <2>1, <3>2 DEF SessionFits, ToldFits, HasConnected, GlobalFits, Requests, Middle
      <4> QED
        BY <2>2, <2>3, <4>1 DEF Promises!ReadGlobal, Promises!Read
    <3>3. CASE status[p] = "wait_arena_sync1"
      <4>1. /\ told[p] # "out" /\ told[p] # "entered" /\ scope = "arena"
            /\ m.cmd = "get_player" /\ scope \notin loaded[p]
        BY <2>1, <3>3 DEF SessionFits, ToldFits, HasConnected, HasEntered, ArenaFits,
                          Requests, Middle
      <4> QED
        BY <2>2, <2>3, <3>1, <4>1 DEF Promises!ReadArena, Promises!Read
    <3>4. CASE status[p] = "wait_arena_sync2"
      <4>1. /\ told[p] # "out" /\ told[p] # "entered" /\ scope = "arena"
            /\ m.cmd = "put_player" /\ scope \in loaded[p]
        BY <2>1, <3>4 DEF SessionFits, ToldFits, HasConnected, HasEntered, ArenaFits,
                          Requests, Middle
      <4> QED
        BY <2>2, <2>3, <3>1, <4>1 DEF Promises!SaveArena, Promises!Save
    <3>5. CASE status[p] = "wait_global_sync2"
      <4>1. told[p] = "out" /\ scope = "global" /\ m.cmd = "put_player" /\ scope \in loaded[p]
        BY <2>1, <3>5 DEF SessionFits, ToldFits, GlobalFits, Requests
      <4> QED
        BY <2>2, <2>3, <4>1 DEF Promises!SaveGlobal, Promises!Save
    <3> QED
      BY <2>1, <3>2, <3>3, <3>4, <3>5 DEF Requests
  <2> QED
    BY <2>8, <2>9 DEF Keeps, Promises!Next
<1> QED
  BY <1>4, <1>10, <1>11

----------------------------------------------------------------------------
(* The main thread runs the oldest function of its queue.                  *)

LEMMA TakenAnswer ==
    ASSUME TypeOK, SessionInv, mainq # <<>>, mainq' = Tail(mainq), UNCHANGED dbq,
           NEW m, m = Head(mainq),
           \A q \in Players :
               /\ pending[q] = "idle" /\ status[q] \in Wait4
               /\ ~(m.cb = SyncDone /\ m.p = q)
               => status'[q] = status[q] /\ pending'[q] = pending[q]
    PROVE  /\ RequestsFit' /\ AnswersFit'
           /\ \A q \in Players : Asked(q)' <=> Asked(q)
           /\ \A q \in Players : Answered(q)' <=> Answered(q) /\ ~(m.cb = SyncDone /\ m.p = q)
           /\ m.cb = SyncDone =>
                 /\ m.p \in Players /\ Answered(m.p) /\ ~Asked(m.p)
                 /\ HasPersist /\ pending[m.p] = "idle" /\ status[m.p] \in Wait4
<1>1. /\ 1 \in DOMAIN mainq /\ m = mainq[1]
      /\ \A i \in DOMAIN mainq' :
           i + 1 \in DOMAIN mainq /\ i + 1 # 1 /\ mainq'[i] = mainq[i + 1] /\ i \in Nat
      /\ \A i \in DOMAIN mainq : i # 1 => i - 1 \in DOMAIN mainq' /\ mainq'[i - 1] = mainq[i]
  BY TakenMain
<1>2. m.cb = SyncDone =>
         /\ m.p \in Players /\ Answered(m.p) /\ ~Asked(m.p)
         /\ HasPersist /\ pending[m.p] = "idle" /\ status[m.p] \in Wait4
  <2>1. m.cb = SyncDone => m.p \in Players /\ Answered(m.p)
    BY <1>1, MainTypes DEF Answered, SyncDone
  <2> QED
    BY <2>1, AskedWait DEF SessionInv
<1>3. \A i \in DOMAIN mainq' :
         mainq'[i].cb = SyncDone => ~(m.cb = SyncDone /\ m.p = mainq'[i].p)
  BY <1>1 DEF SessionInv, AnswersFit, SyncDone
<1>4. ASSUME NEW q \in Players
      PROVE  /\ Asked(q)' <=> Asked(q)
             /\ Answered(q)' <=> Answered(q) /\ ~(m.cb = SyncDone /\ m.p = q)
  <2>1. ASSUME Answered(q)' PROVE Answered(q) /\ ~(m.cb = SyncDone /\ m.p = q)
    <3>1. PICK i \in DOMAIN mainq' : mainq'[i].cb = SyncDone /\ mainq'[i].p = q
      BY <2>1 DEF Answered, SyncDone
    <3> QED
      BY <1>1, <1>3, <3>1 DEF Answered, SyncDone
  <2>2. ASSUME Answered(q), ~(m.cb = SyncDone /\ m.p = q) PROVE Answered(q)'
    <3>1. PICK i \in DOMAIN mainq : mainq[i].cb = SyncDone /\ mainq[i].p = q
      BY <2>2 DEF Answered, SyncDone
    <3>2. i # 1
      BY <1>1, <2>2, <3>1
    <3>3. i - 1 \in DOMAIN mainq' /\ mainq'[i - 1] = mainq[i]
      BY <1>1, <3>2
    <3>4. \E j \in DOMAIN mainq' : mainq'[j].cb = SyncDone /\ mainq'[j].p = q
      BY <3>1, <3>3
    <3> QED
      BY <3>4 DEF Answered, SyncDone
  <2>3. Asked(q)' <=> Asked(q)
    BY DEF Asked
  <2> QED
    BY <2>1, <2>2, <2>3
<1>5. RequestsFit'
  <2> SUFFICES ASSUME NEW i \in DOMAIN dbq, NEW p, p = dbq[i].p, p # NoPlayer
               PROVE  /\ HasPersist /\ pending'[p] = "idle" /\ ~Answered(p)'
                      /\ <<status'[p], dbq[i].cmd, ScopeOf(dbq[i].a)>> \in Requests
                      /\ \A j \in DOMAIN dbq : dbq[j].p = p => i = j
    BY DEF RequestsFit
  <2>1. p \in Players /\ Asked(p)
    BY DbTypes DEF Asked
  <2>2. /\ pending[p] = "idle" /\ status[p] \in Wait4 /\ ~Answered(p)
        /\ ~(m.cb = SyncDone /\ m.p = p)
    BY <1>2, <2>1, AskedWait DEF SessionInv
  <2>3. status'[p] = status[p] /\ pending'[p] = pending[p] /\ ~Answered(p)'
    BY <1>4, <2>1, <2>2
  <2> QED
    BY <2>3 DEF SessionInv, RequestsFit
<1>6. AnswersFit'
  <2> SUFFICES ASSUME NEW i \in DOMAIN mainq', NEW p, p = mainq'[i].p, mainq'[i].cb = SyncDone
               PROVE  /\ HasPersist /\ pending'[p] = "idle" /\ status'[p] \in Wait4
                      /\ \A j \in DOMAIN mainq' :
                           mainq'[j].cb = SyncDone /\ mainq'[j].p = p => i = j
    BY DEF AnswersFit, SyncDone
  <2>1. /\ i + 1 \in DOMAIN mainq /\ mainq'[i] = mainq[i + 1] /\ p \in Players
        /\ ~(m.cb = SyncDone /\ m.p = p)
    BY <1>1, <1>3, MainTypes
  <2>2. /\ HasPersist /\ pending[p] = "idle" /\ status[p] \in Wait4
        /\ \A j \in DOMAIN mainq :
              mainq[j].cb = SyncDone /\ mainq[j].p = p => i + 1 = j
    BY <2>1 DEF SessionInv, AnswersFit, SyncDone
  <2>3. status'[p] = status[p] /\ pending'[p] = pending[p]
    BY <2>1, <2>2
  <2>4. \A j \in DOMAIN mainq' : mainq'[j].cb = SyncDone /\ mainq'[j].p = p => i = j
    <3>1. ASSUME NEW j \in DOMAIN mainq', mainq'[j].cb = SyncDone, mainq'[j].p = p
          PROVE  i = j
      <4>1. j + 1 \in DOMAIN mainq /\ mainq'[j] = mainq[j + 1] /\ j \in Nat /\ i \in Nat
        BY <1>1
      <4>2. i + 1 = j + 1
        BY <2>2, <3>1, <4>1
      <4> QED
        BY <4>1, <4>2
    <3> QED
      BY <3>1
  <2> QED
    BY <2>2, <2>3, <2>4
<1> QED
  BY <1>2, <1>4, <1>5, <1>6

LEMMA AnsweredFits ==
    ASSUME TypeOK, NEW p \in Players, SessionFits(p), pending[p] = "idle",
           Answered(p), ~Asked(p), HasPersist, status[p] \in Wait4,
           status'[p] = SyncedStatus(p), SameButStatus(p), ~Asked(p)', ~Answered(p)'
    PROVE  SessionFits(p)'
<1> USE DEF SessionFits, SameButStatus, Wait4
<1>1. \/ status[p] = "wait_global_sync1" /\ status'[p] = "do_global_callbacks"
      \/ status[p] = "wait_arena_sync1" /\ status'[p] \in {"do_arena_sync2", "arena_resp_and_cbs"}
      \/ status[p] = "wait_arena_sync2" /\ status'[p] = "loggedin"
      \/ status[p] = "wait_global_sync2" /\ status'[p] = "timewait"
  BY DEF SyncedStatus
<1>2. PendingFits(p)'
  BY DEF PendingFits
<1>3. ToldFits(p)'
  BY <1>1 DEF ToldFits, HasEntered, HasConnected, Early, Middle
<1>4. GlobalFits(p)'
  BY <1>1 DEF GlobalFits, Early, Middle
<1>5. ArenaFits(p)'
  BY <1>1 DEF ArenaFits, Inside
<1> QED
  BY <1>2, <1>3, <1>4, <1>5

LEMMA RunInMainSession ==
    ASSUME TypeOK, ZoneInv, StatusInv, SessionInv, RunInMain
    PROVE  SessionInv' /\ UNCHANGED gvars
<1>1. PICK m : m = Head(mainq)
  OBVIOUS
<1>2. /\ m \in MainMessages /\ mainq # <<>> /\ mainq' = Tail(mainq)
      /\ 1 \in DOMAIN mainq /\ m = mainq[1]
      /\ UNCHANGED <<pending, draining, dbq, told, loaded>>
  BY <1>1 DEF RunInMain, TypeOK, gvars
<1>3. DrainsAlone'
  BY <1>2 DEF SessionInv, DrainsAlone
<1>4. CASE m.cb = SyncDone
  <2>1. /\ PlayerSyncDone(m.p) /\ UNCHANGED <<gsync, async, gcallbacks>> /\ m.p \in Players
    BY <1>1, <1>2, <1>4 DEF RunInMain, SyncDone, MainMessages
  <2>2. PICK p \in Players : p = m.p
    BY <2>1
  <2>3. /\ status'[p] = SyncedStatus(p)
        /\ \A q \in Players \ {p} :
              status'[q] = status[q] \/ <<status[q], status'[q]>> \in Fallbacks
    BY <2>1, <2>2, AnswerMoves
  <2>4. \A q \in Players \ {p} : status[q] \in Wait4 => status'[q] = status[q]
    BY <2>3 DEF Fallbacks, Wait4
  <2>5. /\ RequestsFit' /\ AnswersFit'
        /\ \A q \in Players : Asked(q)' <=> Asked(q)
        /\ \A q \in Players : Answered(q)' <=> Answered(q) /\ q # p
        /\ Answered(p) /\ ~Asked(p)
        /\ HasPersist /\ pending[p] = "idle" /\ status[p] \in Wait4
    BY <1>1, <1>2, <1>4, <2>2, <2>4, TakenAnswer
  <2>6. \A q \in Players : SameButStatus(q) /\ SessionFits(q)
    BY <1>2, <2>1 DEF SameButStatus, SessionInv
  <2>7. SessionFits(p)'
    BY <2>3, <2>5, <2>6, AnsweredFits
  <2>8. \A q \in Players \ {p} : SessionFits(q)'
    BY <2>3, <2>5, <2>6, BystanderFits DEF SameQueues
  <2> QED
    BY <1>2, <1>3, <2>5, <2>7, <2>8 DEF SessionInv, gvars
<1>5. CASE m.cb \in {"newplayer_new", "arena_sync_done"}
  <2>1. UNCHANGED <<status, gsync, async, gcallbacks>>
    BY <1>1, <1>5 DEF RunInMain, pvars, cvars
  <2>2. m.cb # SyncDone
    BY <1>5 DEF SyncDone
  <2>3. RequestsFit' /\ AnswersFit' /\ \A q \in Players : SameQueues(q)
    BY <1>1, <1>2, <2>1, <2>2, TakenAnswer DEF SameQueues
  <2>4. \A q \in Players : SessionFits(q)'
    BY <1>2, <2>1, <2>3, SameFits DEF SessionInv, Same
  <2> QED
    BY <1>2, <1>3, <2>3, <2>4 DEF SessionInv, gvars
<1>6. CASE m.cb = "newplayer_free"
  <2>1. ForgetPlayer(m.p) /\ m.p \in Players
    BY <1>1, <1>2, <1>6 DEF RunInMain, MainMessages
  <2>2. PICK p \in Players : p = m.p
    BY <2>1
  <2>3. status[p] = "timewait"
    BY <1>2, <1>6, <2>2 DEF ZoneInv, LifeQueuedOnce, StatusInv, UnlistedStatus
  <2>4. /\ status'[p] = "uninitialized"
        /\ p \notin gsync' /\ p \notin async' /\ p \notin gcallbacks'
        /\ \A q \in Players \ {p} :
              /\ status'[q] = status[q] /\ (q \in gsync' <=> q \in gsync)
              /\ (q \in async' <=> q \in async) /\ (q \in gcallbacks' <=> q \in gcallbacks)
    BY <2>1, <2>2 DEF ForgetPlayer, TypeOK
  <2>5. m.cb # SyncDone /\ status[p] \notin Wait4
    BY <1>6, <2>3 DEF SyncDone, Wait4
  <2>6. RequestsFit' /\ AnswersFit' /\ \A q \in Players : SameQueues(q)
    BY <1>1, <1>2, <2>4, <2>5, TakenAnswer DEF SameQueues
  <2>7. ASSUME NEW q \in Players \ {p} PROVE SessionFits(q)'
    <3>1. Same(q) /\ SessionFits(q)
      BY <1>2, <2>4 DEF Same, SessionInv
    <3> QED
      BY <2>6, <3>1, SameFits
  <2>8. SessionFits(p)'
    <3>1. SessionFits(p) /\ UNCHANGED <<told, loaded, pending>>
      BY <1>2 DEF SessionInv
    <3>2. PendingFits(p)'
      BY <2>3, <3>1 DEF SessionFits, PendingFits, LeftToDo
    <3>3. ToldFits(p)'
      BY <2>3, <2>4, <3>1 DEF SessionFits, ToldFits, HasEntered, HasConnected, Early, Middle
    <3>4. GlobalFits(p)' /\ ArenaFits(p)'
      BY <2>3, <2>4, <3>1 DEF SessionFits, GlobalFits, ArenaFits, Early, Middle, Inside
    <3> QED
      BY <3>2, <3>3, <3>4 DEF SessionFits
  <2> QED
    BY <1>2, <1>3, <2>6, <2>7, <2>8 DEF SessionInv, gvars
<1> QED
  BY <1>2, <1>4, <1>5, <1>6 DEF MainMessages, SyncDone

----------------------------------------------------------------------------
(* The theorems.                                                           *)

LEMMA ProcessArenaStatesSession ==
    ASSUME TypeOK, SessionInv, NEW a \in Arenas, ProcessArenaStates(a) \/ Unhold(a)
    PROVE  SessionInv' /\ UNCHANGED gvars
<1>1. CASE ArenaInit2(a) \/ ArenaWriteData(a)
  <2>1. CASE ArenaInit2(a)
    BY <2>1, SyncArenaSession DEF ArenaInit2
  <2>2. CASE ArenaWriteData(a) /\ Occupied(a)
    BY <2>2, ArenaQuietSession DEF ArenaWriteData, tvars, qvars
  <2>3. CASE ArenaWriteData(a) /\ ~Occupied(a)
    BY <2>3, SyncArenaSession DEF ArenaWriteData
  <2> QED
    BY <1>1, <2>1, <2>2, <2>3
<1>2. CASE ArenaInit0(a) \/ ArenaInit1(a) \/ ArenaDestroy1(a)
  BY <1>2, ArenaQuietSession
     DEF ArenaInit0, ArenaInit1, ArenaDestroy1, CallbacksHold, tvars, qvars
<1>3. CASE ArenaResurrect(a) \/ ArenaRemove(a) \/ ArenaDetachFails(a) \/ Unhold(a)
  BY <1>3, ArenaQuietSession
     DEF ArenaResurrect, ArenaRemove, ArenaDetachFails, Unhold, tvars, qvars
<1> QED
  BY <1>1, <1>2, <1>3 DEF ProcessArenaStates

LEMMA InitSession == Init => SessionInv
BY DEF Init, SessionInv, DrainsAlone, RequestsFit, AnswersFit, SessionFits, PendingFits,
       ToldFits, GlobalFits, ArenaFits, HasEntered, HasConnected, Early, Middle, Inside

LEMMA NextSession ==
    ASSUME TypeOK, ZoneInv, StatusInv, SessionInv, [Next]_vars
    PROVE  SessionInv' /\ Keeps
<1>1. CASE Input
  BY <1>1, NewConnectionSession, RequestsSession, RecycleArenaSession DEF Input, Keeps
<1>2. CASE Server
  <2>1. CASE Reap \/ ArenaFree
    BY <2>1, ArenaQuietSession DEF Reap, ArenaFree, Keeps, tvars, qvars
  <2> QED
    BY <1>2, <2>1, PlayerPassSession, RunActionSession, AuthDoneSession, FreePlayerSession,
       DBThreadSession, RunInMainSession, ProcessArenaStatesSession DEF Server, Keeps
<1>3. CASE UNCHANGED vars
  BY <1>3, ArenaQuietSession DEF vars, tvars, qvars, Keeps
<1> QED
  BY <1>1, <1>2, <1>3 DEF Next

\* In every reachable state the told, the read and the asked fit the status of each player.
THEOREM SessionInvariant == Spec => []SessionInv
<1>1. TypeOK /\ ZoneInv /\ StatusInv /\ SessionInv /\ [Next]_vars => SessionInv'
  BY NextSession
<1> QED
  BY <1>1, InitSession, TypeCorrect, ZoneInvariant, StatusInvariant, PTL DEF Spec

\* The zone implements Session: each module is told of each player that he connects, enters,
\* leaves and disconnects in turn, his data are in memory when he does, they are saved once
\* he has gone, and nothing else is saved (process_player_states, player_sync_done, DBThread).
THEOREM ImplementsSession == Spec => KeepsPromises
<1>1. Init => Promises!Init
  BY DEF Init, Promises!Init
<1>2. TypeOK /\ ZoneInv /\ StatusInv /\ SessionInv /\ [Next]_vars =>
        [Promises!Next]_Promises!vars
  BY NextSession DEF Keeps, gvars, Promises!vars
<1> QED
  BY <1>1, <1>2, TypeCorrect, ZoneInvariant, StatusInvariant, SessionInvariant, PTL
     DEF Spec, KeepsPromises, Promises!Spec

\* Whoever is freed has disconnected, and what was read for him is saved (S_LEAVING_ZONE,
\* S_WAIT_GLOBAL_SYNC2, S_TIMEWAIT come before FreePlayer).
THEOREM FreedAreSaved == Spec => []FreedPlayersAreSaved
<1>1. TypeOK /\ StatusInv /\ SessionInv => FreedPlayersAreSaved
  <2> SUFFICES ASSUME TypeOK, StatusInv, SessionInv, NEW p \in Players \ Allocated
               PROVE  told[p] = "out" /\ loaded[p] = {}
    BY DEF FreedPlayersAreSaved
  <2>1. status[p] = "uninitialized" /\ SessionFits(p) /\ loaded[p] \in SUBSET Scopes
    BY DEF Allocated, StatusInv, UnlistedStatus, SessionInv, TypeOK
  <2> QED
    BY <2>1 DEF SessionFits, ToldFits, GlobalFits, ArenaFits, HasConnected, Early, Middle,
                Inside, Scopes
<1> QED
  BY <1>1, TypeCorrect, StatusInvariant, SessionInvariant, PTL

----------------------------------------------------------------------------
(* Logging in: the authenticator, and who replaces whom.                   *)

\* The statuses that the invariant of the logins tells apart.
Edge == {"uninitialized", "connected", "need_auth", "wait_auth", "leaving_zone",
         "wait_global_sync2", "timewait"}

\* A step that leaves the logins alone, but may kick, or get done what was left to do for
\* somebody who does not wait for the authenticator.
LEMMA LoginsKept ==
    ASSUME TypeOK, LoginInv, UNCHANGED <<stage, name, replacedBy, authq>>,
           whenloggedin \subseteq whenloggedin',
           \A p \in Players :
               /\ status'[p] = status[p] \/ (status[p] \notin Edge /\ status'[p] \notin Edge)
               /\ \/ pending'[p] = pending[p]
                  \/ pending'[p] = "idle" /\ status[p] # "wait_auth"
    PROVE  LoginInv'
<1> USE DEF Edge
<1>1. LoginsFit'
  BY DEF LoginInv, LoginsFit
<1>2. ReplacedFit'
  <2> SUFFICES ASSUME NEW old \in Players, replacedBy[old] # NoPlayer,
                      NEW new, new = replacedBy[old]
               PROVE  /\ stage[old] = "listed" /\ stage[new] = "listed" /\ new # old
                      /\ OnHisWayOut(old)' /\ status'[old] # "timewait"
                      /\ status'[new] = "wait_auth" /\ pending'[new] = "idle"
                      /\ new \notin authq /\ name[new] = name[old] /\ name[old] # NoName
                      /\ \A other \in Players : replacedBy[other] = new => other = old
    BY DEF ReplacedFit
  <2>1. new \in Players
    BY DEF TypeOK
  <2>2. /\ stage[old] = "listed" /\ stage[new] = "listed" /\ new # old
        /\ OnHisWayOut(old) /\ status[old] # "timewait"
        /\ status[new] = "wait_auth" /\ pending[new] = "idle" /\ new \notin authq
        /\ name[new] = name[old] /\ name[old] # NoName
        /\ \A other \in Players : replacedBy[other] = new => other = old
    BY DEF LoginInv, ReplacedFit
  <2>3. OnHisWayOut(old)' /\ status'[old] # "timewait"
    BY <2>2 DEF OnHisWayOut, OutStatuses
  <2> QED
    BY <2>1, <2>2, <2>3
<1>3. WaitersFit'
  BY DEF LoginInv, WaitersFit
<1> QED
  BY <1>1, <1>2, <1>3 DEF LoginInv

\* Who is at an end of replaced_by.
LEMMA ReplacedAre ==
    ASSUME TypeOK, LoginInv, NEW old \in Players, replacedBy[old] # NoPlayer
    PROVE  /\ replacedBy[old] \in Players /\ replacedBy[old] # old
           /\ stage[old] = "listed" /\ stage[replacedBy[old]] = "listed"
           /\ OnHisWayOut(old) /\ status[old] # "timewait" /\ name[old] # NoName
           /\ status[replacedBy[old]] = "wait_auth" /\ pending[replacedBy[old]] = "idle"
           /\ replacedBy[old] \notin authq /\ name[replacedBy[old]] = name[old]
           /\ \A other \in Players : replacedBy[other] = replacedBy[old] => other = old
BY DEF TypeOK, LoginInv, ReplacedFit

\* The form in which ReplacedFit is proved of the next state.
LEMMA ReplacedFitNext ==
    ASSUME TypeOK, TypeOK',
           \A old, new \in Players : replacedBy'[old] = new =>
               /\ stage'[old] = "listed" /\ stage'[new] = "listed" /\ new # old
               /\ OnHisWayOut(old)' /\ status'[old] # "timewait" /\ name'[old] # NoName
               /\ status'[new] = "wait_auth" /\ pending'[new] = "idle"
               /\ new \notin authq' /\ name'[new] = name'[old]
               /\ \A other \in Players : replacedBy'[other] = new => other = old
    PROVE  ReplacedFit'
<1> SUFFICES ASSUME NEW old \in Players, replacedBy'[old] # NoPlayer,
                    NEW new, new = replacedBy'[old]
             PROVE  /\ stage'[old] = "listed" /\ stage'[new] = "listed" /\ new # old
                    /\ OnHisWayOut(old)' /\ status'[old] # "timewait"
                    /\ status'[new] = "wait_auth" /\ pending'[new] = "idle"
                    /\ new \notin authq' /\ name'[new] = name'[old] /\ name'[old] # NoName
                    /\ \A other \in Players : replacedBy'[other] = new => other = old
  BY DEF ReplacedFit
<1>1. new \in Players
  BY DEF TypeOK
<1> QED
  BY <1>1

LEMMA NewConnectionLogins ==
    ASSUME TypeOK, TypeOK', StatusInv, LoginInv, NEW p \in Players, NewConnection(p)
    PROVE  LoginInv'
<1>1. /\ stage[p] = "none" /\ status[p] = "uninitialized"
      /\ stage' = [stage EXCEPT ![p] = "new"]
      /\ status' = [status EXCEPT ![p] = "connected"]
      /\ UNCHANGED <<name, replacedBy, authq, pending, whenloggedin>>
  BY DEF NewConnection, StatusInv, UnlistedStatus, cvars, tvars
<1>2. name[p] = NoName /\ p \notin authq /\ pending[p] # "need_auth"
  BY <1>1 DEF LoginInv, LoginsFit
<1>3. LoginsFit'
  BY <1>1, <1>2 DEF LoginInv, LoginsFit, TypeOK
<1>4. ReplacedFit'
  <2> SUFFICES ASSUME NEW old \in Players, NEW new \in Players, replacedBy[old] = new
               PROVE  old # p /\ new # p
    BY <1>1, ReplacedAre, ReplacedFitNext, ZoneAssumption DEF OnHisWayOut, TypeOK
  <2> QED
    BY <1>1, ReplacedAre, ZoneAssumption
<1>5. WaitersFit'
  BY <1>1 DEF LoginInv, WaitersFit, TypeOK
<1> QED
  BY <1>3, <1>4, <1>5 DEF LoginInv

LEMMA LoginLogins ==
    ASSUME TypeOK, TypeOK', LoginInv, NEW p \in Players, Login(p)
    PROVE  LoginInv'
<1>1. /\ status[p] = "connected"
      /\ status' = [status EXCEPT ![p] = "need_auth"]
      /\ UNCHANGED <<stage, name, replacedBy, authq, pending, whenloggedin>>
  BY DEF Login, cvars, tvars, qvars
<1>2. LoginsFit'
  BY <1>1 DEF LoginInv, LoginsFit, TypeOK
<1>3. ReplacedFit'
  <2> SUFFICES ASSUME NEW old \in Players, NEW new \in Players, replacedBy[old] = new
               PROVE  new # p /\ OnHisWayOut(old)' /\ status'[old] # "timewait"
    BY <1>1, ReplacedAre, ReplacedFitNext, ZoneAssumption DEF TypeOK
  <2>1. replacedBy[old] # NoPlayer
    BY ZoneAssumption
  <2>2. OnHisWayOut(old) /\ status[old] # "timewait" /\ status[new] = "wait_auth"
    BY <2>1, ReplacedAre
  <2> QED
    BY <1>1, <2>2 DEF OnHisWayOut, OutStatuses, TypeOK
<1>4. WaitersFit'
  BY <1>1 DEF LoginInv, WaitersFit, TypeOK
<1> QED
  BY <1>2, <1>3, <1>4 DEF LoginInv

\* A pass begins with nothing left to be done; whom it lets leave had been kicked.
LEMMA PlayerPassLogins ==
    ASSUME TypeOK, TypeOK', StatusInv, LoginInv, PlayerPass
    PROVE  LoginInv'
<1>1. /\ \A p \in Players : pending[p] = "idle"
      /\ \A p \in Players :
            /\ status'[p] = IF p \in Listed THEN PassedStatus(p) ELSE status[p]
            /\ pending'[p] = IF p \in Listed /\ status[p] \in DOMAIN NextStatus
                               THEN status[p] ELSE "idle"
            /\ p \in whenloggedin /\ p \notin whenloggedin' =>
                  p \in Listed /\ status[p] \in Waiting
      /\ UNCHANGED <<stage, name, replacedBy, authq>>
  BY DEF PlayerPass, MainFree, cvars, qvars
<1>2. ASSUME NEW p \in Players
      PROVE  LET s == status[p]
                 t == status'[p]
             IN  \/ t = s /\ pending'[p] # "need_auth"
                 \/ p \in Listed /\ s = "connected" /\ t = "leaving_zone" /\ pending'[p] = "idle"
                 \/ s = "need_auth" /\ t = "wait_auth" /\ pending'[p] = "need_auth" /\ p \in Listed
                 \/ s = "leaving_zone" /\ t = "wait_global_sync2" /\ pending'[p] # "need_auth"
                 \/ s \notin Edge /\ t \notin Edge /\ pending'[p] # "need_auth"
                 \/ p \in Listed /\ s = "loggedin" /\ t = "leaving_zone" /\ pending'[p] = "idle"
  <2>1. CASE p \notin Listed
    BY <1>1, <2>1
  <2>2. CASE p \in Listed /\ status[p] \in Waiting
    <3>1. status[p] \notin DOMAIN NextStatus
      BY <2>2 DEF Waiting, NextStatus
    <3> QED
      BY <1>1, <2>2, <3>1, PassedStatusIs DEF Waiting, Edge
  <2>3. CASE p \in Listed /\ status[p] \in DOMAIN NextStatus
    <3>1. status'[p] = NextStatus[status[p]] /\ pending'[p] = status[p]
      BY <1>1, <2>3 DEF PassedStatus, NextStatus, Waiting
    <3> QED
      BY <2>3, <3>1 DEF NextStatus, Edge
  <2>4. CASE p \in Listed /\ status[p] \notin Waiting \cup DOMAIN NextStatus
    BY <1>1, <2>4, PassedStatusIs DEF Waiting
  <2> QED
    BY <2>1, <2>2, <2>3, <2>4
<1>3. LoginsFit'
  <2> SUFFICES ASSUME NEW p \in Players
               PROVE  /\ p \in authq => pending'[p] = "idle"
                      /\ p \in authq \/ pending'[p] = "need_auth" =>
                            stage[p] = "listed" /\ status'[p] = "wait_auth" /\ name[p] = NoName
                      /\ status'[p] \in {"uninitialized", "connected", "need_auth"} =>
                            name[p] = NoName
    BY <1>1 DEF LoginsFit
  <2>1. p \in authq => pending'[p] = "idle" /\ status'[p] = "wait_auth"
    <3>1. p \in authq => status[p] = "wait_auth"
      BY DEF LoginInv, LoginsFit
    <3> QED
      BY <1>1, <1>2, <3>1 DEF Edge, NextStatus
  <2> QED
    BY <1>2, <2>1 DEF LoginInv, LoginsFit, Listed, Edge
<1>4. ReplacedFit'
  <2> SUFFICES ASSUME NEW old \in Players, NEW new \in Players, replacedBy[old] = new
               PROVE  /\ OnHisWayOut(old)' /\ status'[old] # "timewait"
                      /\ status'[new] = "wait_auth" /\ pending'[new] = "idle"
    BY <1>1, ReplacedAre, ReplacedFitNext, ZoneAssumption
  <2>1. replacedBy[old] # NoPlayer
    BY ZoneAssumption
  <2>2. OnHisWayOut(old) /\ status[old] # "timewait" /\ status[new] = "wait_auth"
    BY <2>1, ReplacedAre
  <2>3. status'[new] = "wait_auth" /\ pending'[new] = "idle"
    BY <1>1, <1>2, <2>2 DEF Edge, NextStatus
  <2>4. status'[old] # "timewait"
    BY <1>2, <2>2 DEF Edge
  <2>5. OnHisWayOut(old)'
    <3>1. CASE old \in whenloggedin'
      BY <3>1 DEF OnHisWayOut
    <3>2. CASE old \notin whenloggedin' /\ old \in whenloggedin
      <4>1. old \in Listed /\ status[old] \in Waiting
        BY <1>1, <3>2
      <4>2. status[old] \notin DOMAIN NextStatus
        BY <4>1 DEF Waiting, NextStatus
      <4>3. status'[old] = "leaving_zone"
        BY <1>1, <3>2, <4>1, <4>2 DEF PassedStatus
      <4> QED
        BY <4>3 DEF OnHisWayOut, OutStatuses
    <3>3. CASE old \notin whenloggedin
      BY <1>2, <2>2, <3>3 DEF OnHisWayOut, OutStatuses, Edge
    <3> QED
      BY <3>1, <3>2, <3>3
  <2> QED
    BY <2>3, <2>4, <2>5
<1>5. WaitersFit'
  <2> SUFFICES ASSUME NEW p \in Players, status'[p] = "wait_auth", p \notin authq,
                      pending'[p] = "idle"
               PROVE  \E old \in Players : replacedBy[old] = p
    BY <1>1 DEF WaitersFit
  <2>1. status[p] = "wait_auth"
    BY <1>2 DEF Edge
  <2> QED
    BY <1>1, <2>1 DEF LoginInv, WaitersFit
<1> QED
  BY <1>3, <1>4, <1>5 DEF LoginInv

\* player_sync_done: who has left lets in the one who waited for him, if somebody did.
LEMMA SyncDoneLogins ==
    ASSUME TypeOK, TypeOK', LoginInv, NEW p \in Players, status[p] \in Wait4,
           PlayerSyncDone(p), UNCHANGED <<stage, name, authq, whenloggedin>>,
           \A q \in Players : pending'[q] = pending[q] \/ (q = p /\ pending'[q] = "idle")
    PROVE  LoginInv'
<1>1. status[p] # "wait_auth"
  BY DEF Wait4
<1>2. CASE Replacement(p) = {}
  <2>1. /\ UNCHANGED replacedBy
        /\ status'[p] = SyncedStatus(p)
        /\ \A q \in Players \ {p} : status'[q] = status[q]
    BY <1>2 DEF PlayerSyncDone
  <2>2. CASE status[p] # "wait_global_sync2"
    <3>1. status[p] \notin Edge /\ status'[p] \notin Edge
      BY <2>1, <2>2 DEF SyncedStatus, Wait4, Edge
    <3> QED
      BY <1>1, <2>1, <3>1, LoginsKept
  <2>3. CASE status[p] = "wait_global_sync2"
    <3>1. status'[p] = "timewait"
      BY <2>1, <2>3 DEF SyncedStatus
    <3>2. replacedBy[p] = NoPlayer
      BY <1>2, <2>3, ReplacedAre DEF Replacement
    <3>3. LoginsFit'
      BY <1>1, <2>1, <3>1 DEF LoginInv, LoginsFit
    <3>4. ReplacedFit'
      <4> SUFFICES ASSUME NEW old \in Players, NEW new \in Players, replacedBy[old] = new
                   PROVE  OnHisWayOut(old)' /\ old # p /\ new # p
        BY <2>1, ReplacedAre, ReplacedFitNext, ZoneAssumption
      <4>1. replacedBy[old] # NoPlayer
        BY ZoneAssumption
      <4>2. OnHisWayOut(old) /\ old # p /\ status[new] = "wait_auth"
        BY <3>2, <4>1, ReplacedAre
      <4> QED
        BY <1>1, <2>1, <4>2 DEF OnHisWayOut
    <3>5. WaitersFit'
      BY <1>1, <2>1, <3>1 DEF LoginInv, WaitersFit
    <3> QED
      BY <3>3, <3>4, <3>5 DEF LoginInv
  <2> QED
    BY <2>2, <2>3
<1>3. CASE Replacement(p) # {}
  <2>1. status[p] = "wait_global_sync2" /\ replacedBy[p] # NoPlayer
    BY <1>3 DEF Replacement
  <2>2. PICK r \in Players : r = replacedBy[p]
    BY <2>1, ReplacedAre
  <2>3. /\ status[r] = "wait_auth" /\ pending[r] = "idle" /\ r \notin authq /\ r # p
        /\ \A other \in Players : replacedBy[other] = r => other = p
    BY <2>1, <2>2, ReplacedAre
  <2>4. /\ status'[p] = "timewait" /\ status'[r] = "need_global_sync"
        /\ \A q \in Players \ {p, r} : status'[q] = status[q]
        /\ replacedBy' = [replacedBy EXCEPT ![p] = NoPlayer]
    <3>1. Replacement(p) = {r}
      BY <2>1, <2>2, <2>3 DEF Replacement
    <3> QED
      BY <1>3, <2>1, <2>3, <3>1 DEF PlayerSyncDone, SyncedStatus
  <2>5. LoginsFit'
    BY <1>1, <2>3, <2>4 DEF LoginInv, LoginsFit
  <2>6. ReplacedFit'
    <3> SUFFICES ASSUME NEW old \in Players, NEW new \in Players, replacedBy'[old] = new
                 PROVE  /\ replacedBy[old] = new /\ OnHisWayOut(old)' /\ old # p
                        /\ status'[old] # "timewait" /\ new # p /\ new # r
                        /\ \A other \in Players : replacedBy'[other] = new => other = old
      BY <2>4, ReplacedAre, ReplacedFitNext, ZoneAssumption
    <3>1. replacedBy[old] = new /\ old # p /\ new # NoPlayer
      BY <2>4, ZoneAssumption DEF TypeOK
    <3>2. /\ OnHisWayOut(old) /\ status[new] = "wait_auth" /\ status[old] # "timewait"
          /\ \A other \in Players : replacedBy[other] = new => other = old
      BY <3>1, ReplacedAre
    <3>3. new # r /\ new # p
      BY <1>1, <2>2, <3>1, <3>2
    <3>4. status'[old] # "timewait"
      BY <2>4, <3>1, <3>2
    <3>5. OnHisWayOut(old)'
      BY <2>3, <2>4, <3>1, <3>2 DEF OnHisWayOut, OutStatuses
    <3>6. \A other \in Players : replacedBy'[other] = new => other = old
      BY <2>4, <3>1, <3>2 DEF TypeOK
    <3> QED
      BY <3>1, <3>3, <3>4, <3>5, <3>6
  <2>7. WaitersFit'
    <3> SUFFICES ASSUME NEW q \in Players, status'[q] = "wait_auth", q \notin authq,
                        pending'[q] = "idle"
                 PROVE  \E old \in Players : replacedBy'[old] = q
      BY DEF WaitersFit
    <3>1. q # p /\ q # r /\ status[q] = "wait_auth" /\ pending[q] = "idle"
      BY <2>4
    <3>2. PICK old \in Players : replacedBy[old] = q
      BY <3>1 DEF LoginInv, WaitersFit
    <3>3. old # p /\ replacedBy'[old] = q
      BY <2>2, <2>4, <3>1, <3>2 DEF TypeOK
    <3> QED
      BY <3>3
  <2> QED
    BY <2>5, <2>6, <2>7 DEF LoginInv
<1> QED
  BY <1>2, <1>3

LEMMA FreePlayerLogins ==
    ASSUME TypeOK, TypeOK', LoginInv, NEW p \in Players, FreePlayer(p)
    PROVE  LoginInv'
<1>1. /\ status[p] = "timewait"
      /\ stage' = [stage EXCEPT ![p] = "freeing"]
      /\ UNCHANGED <<status, name, replacedBy, authq, pending, whenloggedin>>
  BY DEF FreePlayer, cvars, tvars
<1>2. LoginsFit'
  BY <1>1 DEF LoginInv, LoginsFit, TypeOK
<1>3. ReplacedFit'
  <2> SUFFICES ASSUME NEW old \in Players, NEW new \in Players, replacedBy[old] = new
               PROVE  old # p /\ new # p /\ OnHisWayOut(old)'
    BY <1>1, ReplacedAre, ReplacedFitNext, ZoneAssumption DEF TypeOK
  <2>1. replacedBy[old] # NoPlayer
    BY ZoneAssumption
  <2> QED
    BY <1>1, <2>1, ReplacedAre DEF OnHisWayOut
<1>4. WaitersFit'
  BY <1>1 DEF LoginInv, WaitersFit
<1> QED
  BY <1>2, <1>3, <1>4 DEF LoginInv
\* The actions of a pass.
LEMMA RunActionLogins ==
    ASSUME TypeOK, TypeOK', SessionInv, LoginInv, NEW p \in Players, RunAction(p)
    PROVE  LoginInv'
<1>1. CASE ActAuthenticate(p)
  <2>1. /\ pending[p] = "need_auth"
        /\ pending' = [pending EXCEPT ![p] = "idle"]
        /\ authq' = authq \cup {p}
        /\ UNCHANGED <<stage, status, name, replacedBy, whenloggedin>>
    BY <1>1 DEF ActAuthenticate, Acted, cvars
  <2>2. stage[p] = "listed" /\ status[p] = "wait_auth" /\ name[p] = NoName
    BY <2>1 DEF LoginInv, LoginsFit
  <2>3. LoginsFit'
    BY <2>1, <2>2 DEF LoginInv, LoginsFit, TypeOK
  <2>4. ReplacedFit'
    <3> SUFFICES ASSUME NEW old \in Players, NEW new \in Players, replacedBy[old] = new
                 PROVE  new # p /\ OnHisWayOut(old)'
      BY <2>1, ReplacedAre, ReplacedFitNext, ZoneAssumption DEF TypeOK
    <3>1. replacedBy[old] # NoPlayer
      BY ZoneAssumption
    <3> QED
      BY <2>1, <3>1, ReplacedAre DEF OnHisWayOut
  <2>5. WaitersFit'
    BY <2>1 DEF LoginInv, WaitersFit, TypeOK
  <2> QED
    BY <2>3, <2>4, <2>5 DEF LoginInv
<1>2. ASSUME NEW s \in Statuses \ {"need_auth"}, Acted(p, s), UNCHANGED authq,
             UNCHANGED <<status, replacedBy>> \/ PlayerSyncDone(p)
      PROVE  LoginInv'
  <2>1. /\ pending[p] = s /\ <<s, status[p]>> \in LeftToDo
        /\ UNCHANGED <<stage, name, whenloggedin, authq>>
        /\ \A q \in Players : pending'[q] = pending[q] \/ (q = p /\ pending'[q] = "idle")
    BY <1>2, ActedAt DEF Acted, TypeOK
  <2>2. status[p] # "wait_auth"
    BY <2>1 DEF LeftToDo
  <2>3. CASE UNCHANGED <<status, replacedBy>>
    BY <2>1, <2>2, <2>3, LoginsKept
  <2>4. CASE PlayerSyncDone(p) /\ status[p] \in Wait4
    BY <2>1, <2>4, SyncDoneLogins
  <2>5. CASE PlayerSyncDone(p) /\ status[p] \notin Wait4
    <3>1. Replacement(p) = {} /\ SyncedStatus(p) = status[p]
      BY <2>5 DEF Replacement, SyncedStatus, Wait4
    <3>2. UNCHANGED <<status, replacedBy>>
      BY <2>5, <3>1 DEF PlayerSyncDone, TypeOK
    <3> QED
      BY <2>1, <2>2, <3>2, LoginsKept
  <2> QED
    BY <1>2, <2>3, <2>4, <2>5
<1>3. CASE ActGetGlobal(p) \/ ActGetArena(p) \/ ActPutArena(p) \/ ActLeaveZone(p)
  BY <1>2, <1>3
     DEF ActGetGlobal, ActGetArena, ActPutArena, ActLeaveZone, SyncPlayer, Statuses
<1>4. CASE ActConnect(p) \/ ActLoginResponse(p) \/ ActEnterArena(p) \/ ActLeaveArena(p)
  BY <1>2, <1>4
     DEF ActConnect, ActLoginResponse, ActEnterArena, ActLeaveArena, Statuses, cvars
<1> QED
  BY <1>1, <1>3, <1>4 DEF RunAction

\* The answer of the authenticator: who has one gets his name, and is no end of replaced_by yet.
LEMMA AuthDoneLogins ==
    ASSUME TypeOK, TypeOK', LoginInv, NEW p \in Players, AuthDone(p)
    PROVE  LoginInv'
<1>1. /\ p \in authq /\ pending[p] = "idle" /\ status[p] = "wait_auth" /\ stage[p] = "listed"
      /\ name[p] = NoName
      /\ authq' = authq \ {p} /\ UNCHANGED <<stage, pending>>
  BY DEF AuthDone, LoginInv, LoginsFit, tvars
<1>2. ASSUME NEW old \in Players, replacedBy[old] # NoPlayer
      PROVE  old # p /\ replacedBy[old] # p
  BY <1>1, <1>2, ReplacedAre
<1>3. ASSUME NEW n \in UserNames \cup {NoName}, name' = [name EXCEPT ![p] = n],
             NEW s \in {"connected", "need_global_sync"}, s = "connected" => n = NoName,
             status' = [status EXCEPT ![p] = s], UNCHANGED <<whenloggedin, replacedBy>>
      PROVE  LoginInv'
  <2>1. LoginsFit'
    BY <1>1, <1>3 DEF LoginInv, LoginsFit, TypeOK
  <2>2. ReplacedFit'
    <3> SUFFICES ASSUME NEW old \in Players, NEW new \in Players, replacedBy[old] = new
                 PROVE  old # p /\ new # p /\ OnHisWayOut(old)'
      BY <1>1, <1>3, ReplacedAre, ReplacedFitNext, ZoneAssumption DEF TypeOK
    <3>1. replacedBy[old] # NoPlayer
      BY ZoneAssumption
    <3>2. old # p /\ new # p
      BY <1>2, <3>1
    <3> QED
      BY <1>3, <3>1, <3>2, ReplacedAre DEF OnHisWayOut
  <2>3. WaitersFit'
    BY <1>1, <1>3 DEF LoginInv, WaitersFit, TypeOK
  <2> QED
    BY <2>1, <2>2, <2>3 DEF LoginInv
<1>4. CASE AuthRefused(p)
  <2>1. name' = [name EXCEPT ![p] = NoName]
    BY <1>1, <1>4 DEF AuthRefused, TypeOK
  <2> QED
    BY <1>3, <1>4, <2>1 DEF AuthRefused
<1>5. ASSUME NEW n \in UserNames, AuthAccepted(p, n) PROVE LoginInv'
  BY <1>3, <1>5 DEF AuthAccepted
<1>6. ASSUME NEW n \in UserNames, AuthReplaces(p, n) PROVE LoginInv'
  <2>1. PICK k \in FindPlayer(n) \ {p} :
           /\ name' = [name EXCEPT ![p] = n]
           /\ replacedBy' = [replacedBy EXCEPT ![k] = p]
           /\ Kick({k})
    BY <1>6 DEF AuthReplaces
  <2>2. /\ k \in Players /\ k # p /\ stage[k] = "listed" /\ name[k] = n /\ n # NoName
        /\ ~OnHisWayOut(k)
    BY <2>1, ZoneAssumption DEF FindPlayer, Listed, OnHisWayOut
  <2>3. replacedBy[k] = NoPlayer
    BY <2>2, ReplacedAre
  <2>4. /\ whenloggedin' = whenloggedin \cup {k}
        /\ \A q \in Players :
              status'[q] = status[q] \/ (status[q] \notin Edge /\ status'[q] \notin Edge)
        /\ \A q \in Players \ {k} : status'[q] = status[q]
    BY <2>1 DEF Kick, InArena, InitiateLeaveArena, LeftStatus, Edge
  <2>5. LoginsFit'
    BY <1>1, <2>1, <2>2, <2>4 DEF LoginInv, LoginsFit, TypeOK, Edge
  <2>6. ReplacedFit'
    <3>1. ASSUME NEW old \in Players \ {k}, NEW new \in Players, replacedBy'[old] = new
          PROVE  /\ stage[old] = "listed" /\ stage[new] = "listed" /\ new # old
                 /\ OnHisWayOut(old)' /\ status'[old] # "timewait" /\ name'[old] # NoName
                 /\ status'[new] = "wait_auth" /\ pending[new] = "idle"
                 /\ new \notin authq' /\ name'[new] = name'[old]
                 /\ \A other \in Players : replacedBy'[other] = new => other = old
      <4>1. replacedBy[old] = new /\ replacedBy[old] # NoPlayer
        BY <2>1, <3>1, ZoneAssumption DEF TypeOK
      <4>2. old # p /\ new # p
        BY <1>2, <4>1
      <4>3. OnHisWayOut(old)'
        BY <2>4, <4>1, ReplacedAre DEF OnHisWayOut
      <4>4. status'[new] = "wait_auth"
        BY <2>4, <4>1, ReplacedAre DEF Edge
      <4>5. name'[new] = name[new] /\ name'[old] = name[old]
        BY <2>1, <4>2 DEF TypeOK
      <4>6. \A other \in Players : replacedBy'[other] = new => other = old
        BY <2>1, <4>1, <4>2, ReplacedAre DEF TypeOK
      <4> QED
        BY <1>1, <2>4, <4>1, <4>3, <4>4, <4>5, <4>6, ReplacedAre
    <3>2. /\ OnHisWayOut(k)' /\ status'[k] # "timewait" /\ replacedBy'[k] = p
          /\ status'[p] = "wait_auth" /\ p \notin authq' /\ name'[p] = n /\ name'[k] = n
      BY <1>1, <2>1, <2>2, <2>4 DEF OnHisWayOut, OutStatuses, TypeOK, Edge
    <3>3. \A other \in Players : replacedBy'[other] = p => other = k
      BY <1>2, <2>1, ZoneAssumption DEF TypeOK
    <3> QED
      BY <1>1, <2>2, <3>1, <3>2, <3>3, ReplacedFitNext
  <2>7. WaitersFit'
    <3> SUFFICES ASSUME NEW q \in Players, status'[q] = "wait_auth", q \notin authq',
                        pending'[q] = "idle"
                 PROVE  \E old \in Players : replacedBy'[old] = q
      BY DEF WaitersFit
    <3>1. CASE q = p
      BY <2>1, <2>2, <3>1 DEF TypeOK
    <3>2. CASE q # p
      <4>1. q \notin authq /\ status[q] = "wait_auth" /\ pending[q] = "idle"
        BY <1>1, <2>4, <3>2 DEF Edge
      <4>2. PICK old \in Players : replacedBy[old] = q
        BY <4>1 DEF LoginInv, WaitersFit
      <4>3. old # k /\ replacedBy'[old] = q
        BY <2>1, <2>3, <4>2, ZoneAssumption DEF TypeOK
      <4> QED
        BY <4>3
    <3> QED
      BY <3>1, <3>2
  <2> QED
    BY <2>5, <2>6, <2>7 DEF LoginInv
<1> QED
  BY <1>1, <1>4, <1>5, <1>6 DEF AuthDone

LEMMA RunInMainLogins ==
    ASSUME TypeOK, TypeOK', ZoneInv, StatusInv, SessionInv, LoginInv, RunInMain
    PROVE  LoginInv'
<1>1. PICK m : m = Head(mainq)
  OBVIOUS
<1>2. /\ m \in MainMessages /\ mainq # <<>>
      /\ 1 \in DOMAIN mainq /\ m = mainq[1]
      /\ UNCHANGED <<pending, authq>>
  BY <1>1 DEF RunInMain, TypeOK
<1>3. CASE m.cb = SyncDone
  <2>1. /\ PlayerSyncDone(m.p) /\ UNCHANGED <<stage, name, whenloggedin>> /\ m.p \in Players
    BY <1>1, <1>2, <1>3 DEF RunInMain, SyncDone, MainMessages
  <2>2. status[m.p] \in Wait4
    BY <1>2, <1>3 DEF SessionInv, AnswersFit, SyncDone
  <2> QED
    BY <1>2, <2>1, <2>2, SyncDoneLogins
<1>4. CASE m.cb = "arena_sync_done"
  <2>1. UNCHANGED <<stage, name, whenloggedin, replacedBy, status>>
    BY <1>1, <1>4 DEF RunInMain, pvars, cvars
  <2> QED
    BY <1>2, <2>1, LoginsKept
<1>5. CASE m.cb = "newplayer_new"
  <2>1. /\ stage' = [stage EXCEPT ![m.p] = "listed"] /\ m.p \in Players
        /\ UNCHANGED <<status, name, whenloggedin, replacedBy>>
    BY <1>1, <1>2, <1>5 DEF RunInMain, cvars, MainMessages
  <2>2. LoginsFit' /\ WaitersFit'
    BY <1>2, <2>1 DEF LoginInv, LoginsFit, WaitersFit, TypeOK
  <2>3. ReplacedFit'
    <3> SUFFICES ASSUME NEW old \in Players, NEW new \in Players, replacedBy[old] = new
                 PROVE  OnHisWayOut(old)'
      BY <1>2, <2>1, ReplacedAre, ReplacedFitNext, ZoneAssumption DEF TypeOK
    <3>1. replacedBy[old] # NoPlayer
      BY ZoneAssumption
    <3> QED
      BY <2>1, <3>1, ReplacedAre DEF OnHisWayOut
  <2> QED
    BY <2>2, <2>3 DEF LoginInv
<1>6. CASE m.cb = "newplayer_free"
  <2>1. ForgetPlayer(m.p) /\ m.p \in Players
    BY <1>1, <1>2, <1>6 DEF RunInMain, MainMessages
  <2>2. PICK p \in Players : p = m.p
    BY <2>1
  <2>3. stage[p] = "freeing"
    BY <1>2, <1>6, <2>2 DEF ZoneInv, LifeQueuedOnce
  <2>4. /\ stage' = [stage EXCEPT ![p] = "none"]
        /\ status' = [status EXCEPT ![p] = "uninitialized"]
        /\ name' = [name EXCEPT ![p] = NoName]
        /\ whenloggedin' = whenloggedin \ {p}
        /\ replacedBy' = [replacedBy EXCEPT ![p] = NoPlayer]
    BY <2>1, <2>2 DEF ForgetPlayer
  <2>5. replacedBy[p] = NoPlayer
    BY <2>3, ReplacedAre
  <2>6. UNCHANGED replacedBy
    BY <2>4, <2>5 DEF TypeOK
  <2>7. LoginsFit'
    BY <1>2, <2>3, <2>4 DEF LoginInv, LoginsFit, TypeOK
  <2>8. ReplacedFit'
    <3> SUFFICES ASSUME NEW old \in Players, NEW new \in Players, replacedBy[old] = new
                 PROVE  old # p /\ new # p /\ OnHisWayOut(old)'
      BY <1>2, <2>4, <2>6, ReplacedAre, ReplacedFitNext, ZoneAssumption DEF TypeOK
    <3>1. replacedBy[old] # NoPlayer
      BY ZoneAssumption
    <3>2. old # p /\ new # p /\ OnHisWayOut(old)
      BY <2>3, <3>1, ReplacedAre
    <3> QED
      BY <2>4, <3>2 DEF OnHisWayOut, TypeOK
  <2>9. WaitersFit'
    BY <1>2, <2>4, <2>6 DEF LoginInv, WaitersFit, TypeOK
  <2> QED
    BY <2>7, <2>8, <2>9 DEF LoginInv
<1> QED
  BY <1>2, <1>3, <1>4, <1>5, <1>6 DEF MainMessages, SyncDone

\* Requests, arenas and the database leave the logins alone, except that they may kick.
LEMMA OtherLogins ==
    ASSUME TypeOK, LoginInv,
           \/ \E p \in Players :
                 KickPlayer(p) \/ Leaving(p) \/ (\E n \in ArenaNames : Go(p, n))
           \/ DBThread \/ Reap \/ ArenaFree
           \/ \E a \in Arenas : RecycleArena(a) \/ ProcessArenaStates(a) \/ Unhold(a)
    PROVE  LoginInv'
<1>1. ASSUME NEW L, InitiateLeaveArena(L), whenloggedin \subseteq whenloggedin',
             UNCHANGED <<stage, name, replacedBy, authq, pending>>
      PROVE  LoginInv'
  <2>1. \A p \in Players :
           status'[p] = status[p] \/ (status[p] \notin Edge /\ status'[p] \notin Edge)
    BY <1>1 DEF InitiateLeaveArena, LeftStatus, Edge
  <2> QED
    BY <1>1, <2>1, LoginsKept
<1>2. ASSUME NEW p \in Players,
             KickPlayer(p) \/ Leaving(p) \/ (\E n \in ArenaNames : Go(p, n))
      PROVE  LoginInv'
  BY <1>1, <1>2 DEF KickPlayer, Kick, Leaving, Go, LeaveArena, cvars, tvars, qvars
<1>3. ASSUME NEW a \in Arenas, RecycleArena(a)
      PROVE  LoginInv'
  BY <1>1, <1>3 DEF RecycleArena, cvars, tvars, qvars
<1>4. ASSUME UNCHANGED <<pvars, cvars, authq, pending>>
      PROVE  LoginInv'
  BY <1>4, LoginsKept DEF pvars, cvars
<1>5. CASE DBThread \/ Reap \/ ArenaFree
  BY <1>4, <1>5 DEF DBThread, Reap, ArenaFree, tvars, qvars
<1>6. ASSUME NEW a \in Arenas, ProcessArenaStates(a) \/ Unhold(a)
      PROVE  LoginInv'
  BY <1>4, <1>6 DEF ProcessArenaStates, ArenaInit0, ArenaInit1, ArenaInit2, ArenaWriteData,
     ArenaDestroy1, ArenaResurrect, ArenaRemove, ArenaDetachFails, Unhold, CallbacksHold,
     SyncArena, tvars, qvars
<1> QED
  BY <1>2, <1>3, <1>5, <1>6

LEMMA InitLogins == Init => LoginInv
BY DEF Init, LoginInv, LoginsFit, ReplacedFit, WaitersFit

LEMMA NextLogins ==
    ASSUME TypeOK, TypeOK', ZoneInv, StatusInv, SessionInv, LoginInv, [Next]_vars
    PROVE  LoginInv'
<1>1. CASE Input
  BY <1>1, NewConnectionLogins, LoginLogins, OtherLogins DEF Input
<1>2. CASE Server
  BY <1>2, PlayerPassLogins, RunActionLogins, AuthDoneLogins, FreePlayerLogins,
     RunInMainLogins, OtherLogins DEF Server
<1>3. CASE UNCHANGED vars
  BY <1>3, LoginsKept DEF vars, pvars, cvars, tvars, qvars
<1> QED
  BY <1>1, <1>2, <1>3 DEF Next

\* In every reachable state replaced_by and the authenticator's list name players who are
\* listed and wait or leave, and everybody who waits for somebody to leave is named.
THEOREM LoginInvariant == Spec => []LoginInv
<1>1. TypeOK /\ TypeOK' /\ ZoneInv /\ StatusInv /\ SessionInv /\ LoginInv /\ [Next]_vars =>
        LoginInv'
  BY NextLogins
<1> QED
  BY <1>1, InitLogins, TypeCorrect, ZoneInvariant, StatusInvariant, SessionInvariant, PTL
     DEF Spec

\* Whoever has his answer and still waits, waits for exactly one player of his name, who is
\* on his way out and lets him in (AuthDone, player_sync_done).
THEOREM WaitersWaitForOne == Spec => []ReplacementsWaitForOne
<1>1. TypeOK /\ LoginInv => ReplacementsWaitForOne
  <2> SUFFICES ASSUME TypeOK, LoginInv, NEW p \in Listed, status[p] = "wait_auth",
                      p \notin authq, pending[p] = "idle"
               PROVE  \E old \in Listed :
                         /\ {q \in Listed : replacedBy[q] = p} = {old}
                         /\ name[old] = name[p]
                         /\ old \in whenloggedin \/ status[old] \in OutStatuses \ {"timewait"}
    BY DEF ReplacementsWaitForOne
  <2>1. p \in Players /\ p # NoPlayer
    BY ZoneAssumption DEF Listed
  <2>2. PICK old \in Players : replacedBy[old] = p
    BY <2>1 DEF LoginInv, WaitersFit
  <2>3. /\ stage[old] = "listed" /\ name[old] = name[p]
        /\ OnHisWayOut(old) /\ status[old] # "timewait"
        /\ \A other \in Players : replacedBy[other] = p => other = old
    BY <2>1, <2>2, ReplacedAre
  <2> QED
    BY <2>2, <2>3 DEF Listed, OnHisWayOut
<1> QED
  BY <1>1, TypeCorrect, LoginInvariant, PTL

----------------------------------------------------------------------------
(* Arenas: where players are to go, and what is asked and answered of arenas. *)

\* A step that frees no arena, and sends players to arenas that exist.
LEMMA PlacesKept ==
    ASSUME TypeOK, TypeOK', PlacesExist,
           \A a \in Arenas : astatus[a] # "none" => astatus'[a] # "none",
           \A p \in Players : stage'[p] = "listed" /\ newarena'[p] # NoArena =>
               \/ stage[p] = "listed" /\ newarena'[p] = newarena[p]
               \/ astatus'[newarena'[p]] # "none"
    PROVE  PlacesExist'
<1> SUFFICES ASSUME NEW p \in Players, stage'[p] = "listed", newarena'[p] # NoArena
             PROVE  astatus'[newarena'[p]] # "none"
  BY DEF PlacesExist, Listed, Exists
<1>1. newarena'[p] \in Arenas
  BY DEF TypeOK
<1> QED
  BY <1>1 DEF PlacesExist, Listed, Exists

QueuesFit == RequestsNameArena /\ ArenaRequestsFit /\ ArenaAnswersFit

\* A request for arena data is of a player who is in an arena.
LEMMA AskedIn ==
    ASSUME TypeOK, SessionInv, NEW i \in DOMAIN dbq, dbq[i].p # NoPlayer, dbq[i].a # NoArena
    PROVE  dbq[i].p \in Players /\ status[dbq[i].p] \in InArenaStatuses
<1>1. ScopeOf(dbq[i].a) = "arena" /\ dbq[i].p \in Players
  BY DbTypes DEF ScopeOf
<1>2. <<status[dbq[i].p], dbq[i].cmd, ScopeOf(dbq[i].a)>> \in Requests
  BY DEF SessionInv, RequestsFit
<1> QED
  BY <1>1, <1>2 DEF Requests, InArenaStatuses

LEMMA ArenaOfRequest ==
    ASSUME TypeOK, NEW i \in DOMAIN dbq, dbq[i].p = NoPlayer
    PROVE  dbq[i].a \in Arenas
BY ZoneAssumption DEF TypeOK, DbMessages

LEMMA ArenaOfAnswer ==
    ASSUME TypeOK, NEW i \in DOMAIN mainq, mainq[i].cb = "arena_sync_done"
    PROVE  mainq[i].a \in Arenas
<1>1. mainq[i] \in MainMessages
  BY DEF TypeOK
<1> QED
  BY <1>1 DEF MainMessages

\* The arenas that wait, and those in which players are, stay as they are.
ArenasStay ==
    /\ \A a \in Arenas : astatus[a] \in Syncing => astatus'[a] = astatus[a]
    /\ \A p \in Players : status[p] \in InArenaStatuses => arena'[p] = arena[p]

LEMMA QueuesFitStay ==
    ASSUME TypeOK, SessionInv, QueuesFit, ArenasStay, UNCHANGED <<dbq, mainq>>
    PROVE  QueuesFit'
<1>1. RequestsNameArena'
  BY AskedIn DEF QueuesFit, RequestsNameArena, ArenasStay
<1>2. ArenaRequestsFit'
  BY ArenaOfRequest DEF QueuesFit, ArenaRequestsFit, ArenasStay
<1>3. ArenaAnswersFit'
  BY ArenaOfAnswer DEF QueuesFit, ArenaAnswersFit, ArenasStay
<1> QED
  BY <1>1, <1>2, <1>3 DEF QueuesFit

\* A player asks for his data of the arena he is in, or for the global ones.
LEMMA PlayerAsks ==
    ASSUME TypeOK, SessionInv, QueuesFit, ArenasStay, UNCHANGED mainq,
           NEW p \in Players, NEW c, NEW a, a = NoArena \/ a = arena'[p],
           dbq' = Append(dbq, DbMsg(c, p, a))
    PROVE  QueuesFit'
<1>1. /\ DOMAIN dbq' = DOMAIN dbq \cup {Len(dbq) + 1}
      /\ dbq'[Len(dbq) + 1] = DbMsg(c, p, a)
      /\ \A i \in DOMAIN dbq : dbq'[i] = dbq[i]
  BY AppendedDb
<1>2. p # NoPlayer /\ DbMsg(c, p, a).p = p /\ DbMsg(c, p, a).a = a
  BY ZoneAssumption DEF DbMsg
<1>3. RequestsNameArena'
  BY <1>1, <1>2, AskedIn DEF QueuesFit, RequestsNameArena, ArenasStay
<1>4. ArenaRequestsFit'
  BY <1>1, <1>2, ArenaOfRequest DEF QueuesFit, ArenaRequestsFit, ArenasStay
<1>5. ArenaAnswersFit'
  BY ArenaOfAnswer DEF QueuesFit, ArenaAnswersFit, ArenasStay
<1> QED
  BY <1>3, <1>4, <1>5 DEF QueuesFit

\* A function that is not about an arena is queued for main.
LEMMA MainAsked ==
    ASSUME TypeOK, SessionInv, QueuesFit, ArenasStay, UNCHANGED dbq,
           NEW m, m.cb # "arena_sync_done", mainq' = Append(mainq, m)
    PROVE  QueuesFit'
<1>1. /\ DOMAIN mainq' = DOMAIN mainq \cup {Len(mainq) + 1}
      /\ mainq'[Len(mainq) + 1] = m
      /\ \A i \in DOMAIN mainq : mainq'[i] = mainq[i]
  BY AppendedMain
<1>2. RequestsNameArena'
  BY AskedIn DEF QueuesFit, RequestsNameArena, ArenasStay
<1>3. ArenaRequestsFit'
  BY <1>1, ArenaOfRequest DEF QueuesFit, ArenaRequestsFit, ArenasStay
<1>4. ArenaAnswersFit'
  BY <1>1, ArenaOfAnswer DEF QueuesFit, ArenaAnswersFit, ArenasStay
<1> QED
  BY <1>2, <1>3, <1>4 DEF QueuesFit

\* An arena that does not wait yet asks the database and waits, or goes on without it.
LEMMA ArenaAsks ==
    ASSUME TypeOK, SessionInv, QueuesFit, NEW a \in Arenas, astatus[a] \notin Syncing,
           NEW c, NEW w \in Syncing, NEW s, SyncArena(a, c, w, s)
    PROVE  QueuesFit'
<1>1. UNCHANGED <<arena, mainq>>
  BY DEF SyncArena, pvars
<1>2. CASE ~HasPersist
  BY <1>1, <1>2, QueuesFitStay DEF SyncArena, ArenasStay, TypeOK
<1>3. CASE HasPersist
  <2> DEFINE m == DbMsg(c, NoPlayer, a)
  <2>1. m.p = NoPlayer /\ m.a = a /\ dbq' = Append(dbq, m)
        /\ astatus' = [astatus EXCEPT ![a] = w]
    BY <1>3 DEF SyncArena, DbMsg
  <2> HIDE DEF m
  <2>2. /\ DOMAIN dbq' = DOMAIN dbq \cup {Len(dbq) + 1} /\ Len(dbq) + 1 \notin DOMAIN dbq
        /\ dbq'[Len(dbq) + 1] = m
        /\ \A i \in DOMAIN dbq : dbq'[i] = dbq[i]
    BY <2>1, AppendedDb
  <2>3. \A i \in DOMAIN dbq : dbq[i].p = NoPlayer => dbq[i].a \in Arenas /\ dbq[i].a # a
    BY ArenaOfRequest DEF QueuesFit, ArenaRequestsFit
  <2>4. \A i \in DOMAIN mainq :
           mainq[i].cb = "arena_sync_done" => mainq[i].a \in Arenas /\ mainq[i].a # a
    BY ArenaOfAnswer DEF QueuesFit, ArenaAnswersFit
  <2>5. astatus'[a] \in Syncing /\ \A b \in Arenas \ {a} : astatus'[b] = astatus[b]
    BY <2>1 DEF TypeOK
  <2>6. RequestsNameArena'
    BY <1>1, <2>1, <2>2 DEF QueuesFit, RequestsNameArena
  <2>7. ArenaRequestsFit'
    <3> SUFFICES ASSUME NEW i \in DOMAIN dbq', dbq'[i].p = NoPlayer
                 PROVE  /\ astatus'[dbq'[i].a] \in Syncing
                        /\ \A j \in DOMAIN dbq' :
                              dbq'[j].p = NoPlayer /\ dbq'[j].a = dbq'[i].a => i = j
                        /\ \A j \in DOMAIN mainq' :
                              mainq'[j].cb = "arena_sync_done" => mainq'[j].a # dbq'[i].a
      BY DEF ArenaRequestsFit
    <3>1. CASE i \in DOMAIN dbq
      BY <1>1, <2>1, <2>2, <2>3, <2>5, <3>1 DEF QueuesFit, ArenaRequestsFit
    <3>2. CASE i = Len(dbq) + 1
      BY <1>1, <2>1, <2>2, <2>3, <2>4, <2>5, <3>2
    <3> QED
      BY <2>2, <3>1, <3>2
  <2>8. ArenaAnswersFit'
    BY <1>1, <2>4, <2>5 DEF QueuesFit, ArenaAnswersFit
  <2> QED
    BY <2>6, <2>7, <2>8 DEF QueuesFit
<1> QED
  BY <1>2, <1>3

\* The database thread makes an answer of the oldest request.
LEMMA DBThreadAnswers ==
    ASSUME TypeOK, SessionInv, QueuesFit, DBThread
    PROVE  QueuesFit'
<1>1. PICK m : m = Head(dbq)
  OBVIOUS
<1>2. /\ dbq # <<>> /\ dbq' = Tail(dbq) /\ mainq' = Append(mainq, CallbackOf(m))
      /\ UNCHANGED <<astatus, arena>>
  BY <1>1 DEF DBThread, pvars, avars
<1>3. /\ 1 \in DOMAIN dbq /\ m = dbq[1]
      /\ \A i \in DOMAIN dbq' :
           i + 1 \in DOMAIN dbq /\ i + 1 # 1 /\ dbq'[i] = dbq[i + 1] /\ i \in Nat
  BY <1>1, <1>2, TakenDb
<1>4. m \in DbMessages
  BY <1>3 DEF TypeOK
<1>5. \/ m.p \in Players /\ m.p # NoPlayer /\ CallbackOf(m).cb = SyncDone
      \/ m.p = NoPlayer /\ CallbackOf(m).cb = "arena_sync_done" /\ CallbackOf(m).a = m.a
  BY <1>4, ZoneAssumption DEF DbMessages, CallbackOf, MainMsg, SyncDone
<1>6. PICK c : c = CallbackOf(m)
  OBVIOUS
<1>7. /\ DOMAIN mainq' = DOMAIN mainq \cup {Len(mainq) + 1} /\ Len(mainq) + 1 \notin DOMAIN mainq
      /\ mainq'[Len(mainq) + 1] = c
      /\ \A i \in DOMAIN mainq : mainq'[i] = mainq[i]
  BY <1>2, <1>6, AppendedMain
<1>8. RequestsNameArena'
  BY <1>2, <1>3 DEF QueuesFit, RequestsNameArena
<1>9. ArenaRequestsFit'
  <2> SUFFICES ASSUME NEW i \in DOMAIN dbq', dbq'[i].p = NoPlayer
               PROVE  /\ astatus'[dbq'[i].a] \in Syncing
                      /\ \A j \in DOMAIN dbq' :
                            dbq'[j].p = NoPlayer /\ dbq'[j].a = dbq'[i].a => i = j
                      /\ \A j \in DOMAIN mainq' :
                            mainq'[j].cb = "arena_sync_done" => mainq'[j].a # dbq'[i].a
    BY DEF ArenaRequestsFit
  <2>1. i + 1 \in DOMAIN dbq /\ i + 1 # 1 /\ dbq'[i] = dbq[i + 1]
    BY <1>3
  <2>2. /\ astatus'[dbq'[i].a] \in Syncing
        /\ \A j \in DOMAIN mainq : mainq[j].cb = "arena_sync_done" => mainq[j].a # dbq'[i].a
        /\ \A j \in DOMAIN dbq : dbq[j].p = NoPlayer /\ dbq[j].a = dbq'[i].a => j = i + 1
    BY <1>2, <2>1 DEF QueuesFit, ArenaRequestsFit
  <2>3. \A j \in DOMAIN dbq' : dbq'[j].p = NoPlayer /\ dbq'[j].a = dbq'[i].a => i = j
    <3> SUFFICES ASSUME NEW j \in DOMAIN dbq', dbq'[j].p = NoPlayer, dbq'[j].a = dbq'[i].a
                 PROVE  i = j
      OBVIOUS
    <3>1. j + 1 = i + 1 /\ i \in Nat /\ j \in Nat
      BY <1>3, <2>2
    <3> QED
      BY <3>1
  <2>4. c.cb = "arena_sync_done" => c.a # dbq'[i].a
    BY <1>3, <1>5, <1>6, <2>1, <2>2 DEF SyncDone
  <2> QED
    BY <1>7, <2>2, <2>3, <2>4
<1>10. ArenaAnswersFit'
  <2>1. ASSUME c.cb = "arena_sync_done"
        PROVE  /\ astatus[c.a] \in Syncing
               /\ \A j \in DOMAIN mainq : mainq[j].cb = "arena_sync_done" => mainq[j].a # c.a
    BY <1>3, <1>5, <1>6, <2>1 DEF QueuesFit, ArenaRequestsFit, SyncDone
  <2> SUFFICES ASSUME NEW i \in DOMAIN mainq', mainq'[i].cb = "arena_sync_done"
               PROVE  /\ astatus'[mainq'[i].a] \in Syncing
                      /\ \A j \in DOMAIN mainq' :
                            mainq'[j].cb = "arena_sync_done" /\ mainq'[j].a = mainq'[i].a => i = j
    BY DEF ArenaAnswersFit
  <2>2. CASE i \in DOMAIN mainq
    BY <1>2, <1>7, <2>1, <2>2 DEF QueuesFit, ArenaAnswersFit
  <2>3. CASE i = Len(mainq) + 1
    BY <1>2, <1>7, <2>1, <2>3
  <2> QED
    BY <1>7, <2>2, <2>3
<1> QED
  BY <1>8, <1>9, <1>10 DEF QueuesFit

\* Main hears an answer; the arena it is about has no other one and no request.
LEMMA RunInMainAnswered ==
    ASSUME TypeOK, ZoneInv, StatusInv, SessionInv, QueuesFit, RunInMain
    PROVE  QueuesFit'
<1>1. PICK m : m = Head(mainq)
  OBVIOUS
<1>2. /\ mainq # <<>> /\ mainq' = Tail(mainq) /\ UNCHANGED dbq
      /\ 1 \in DOMAIN mainq /\ m = mainq[1] /\ m \in MainMessages
      /\ \A i \in DOMAIN mainq' :
           i + 1 \in DOMAIN mainq /\ i + 1 # 1 /\ mainq'[i] = mainq[i + 1] /\ i \in Nat
  BY <1>1, TakenMain DEF RunInMain, TypeOK
<1>3. /\ \A p \in Players : arena'[p] = arena[p] \/ (m.cb = "newplayer_free" /\ m.p = p)
      /\ \A a \in Arenas : astatus'[a] = astatus[a] \/ (m.cb = "arena_sync_done" /\ m.a = a)
  <2>1. CASE m.cb \in {"newplayer_new", SyncDone}
    BY <1>1, <2>1 DEF RunInMain, avars, SyncDone
  <2>2. CASE m.cb = "newplayer_free"
    <3>1. ForgetPlayer(m.p) /\ UNCHANGED avars
      BY <1>1, <2>2 DEF RunInMain
    <3> QED
      BY <2>2, <3>1 DEF ForgetPlayer, avars, TypeOK
  <2>3. CASE m.cb = "arena_sync_done"
    <3>1. astatus' = [astatus EXCEPT ![m.a] = SyncedArenaStatus(@)] /\ UNCHANGED pvars
      BY <1>1, <2>3 DEF RunInMain
    <3> QED
      BY <2>3, <3>1 DEF pvars, TypeOK
  <2> QED
    BY <1>2, <2>1, <2>2, <2>3 DEF MainMessages, SyncDone
<1>4. RequestsNameArena'
  <2> SUFFICES ASSUME NEW i \in DOMAIN dbq, dbq[i].p # NoPlayer, dbq[i].a # NoArena
               PROVE  dbq[i].a = arena'[dbq[i].p]
    BY <1>2 DEF RequestsNameArena
  <2>1. dbq[i].p \in Players /\ status[dbq[i].p] \in InArenaStatuses
        /\ dbq[i].a = arena[dbq[i].p]
    BY AskedIn DEF QueuesFit, RequestsNameArena
  <2>2. m.cb = "newplayer_free" => m.p # dbq[i].p
    BY <1>2, <2>1 DEF ZoneInv, LifeQueuedOnce, StatusInv, UnlistedStatus, InArenaStatuses
  <2> QED
    BY <1>3, <2>1, <2>2
<1>5. ArenaRequestsFit'
  <2> SUFFICES ASSUME NEW i \in DOMAIN dbq, dbq[i].p = NoPlayer
               PROVE  /\ astatus'[dbq[i].a] \in Syncing
                      /\ \A j \in DOMAIN dbq :
                            dbq[j].p = NoPlayer /\ dbq[j].a = dbq[i].a => i = j
                      /\ \A j \in DOMAIN mainq' :
                            mainq'[j].cb = "arena_sync_done" => mainq'[j].a # dbq[i].a
    BY <1>2 DEF ArenaRequestsFit
  <2> QED
    BY <1>2, <1>3, ArenaOfRequest DEF QueuesFit, ArenaRequestsFit
<1>6. ArenaAnswersFit'
  <2> SUFFICES ASSUME NEW i \in DOMAIN mainq', mainq'[i].cb = "arena_sync_done"
               PROVE  /\ astatus'[mainq'[i].a] \in Syncing
                      /\ \A j \in DOMAIN mainq' :
                            mainq'[j].cb = "arena_sync_done" /\ mainq'[j].a = mainq'[i].a => i = j
    BY DEF ArenaAnswersFit
  <2>1. i + 1 \in DOMAIN mainq /\ i + 1 # 1 /\ mainq'[i] = mainq[i + 1]
    BY <1>2
  <2>2. /\ astatus[mainq'[i].a] \in Syncing /\ mainq'[i].a \in Arenas
        /\ \A j \in DOMAIN mainq :
              mainq[j].cb = "arena_sync_done" /\ mainq[j].a = mainq'[i].a => j = i + 1
    BY <2>1, ArenaOfAnswer DEF QueuesFit, ArenaAnswersFit
  <2>3. astatus'[mainq'[i].a] \in Syncing
    BY <1>2, <1>3, <2>1, <2>2
  <2>4. ASSUME NEW j \in DOMAIN mainq', mainq'[j].cb = "arena_sync_done",
               mainq'[j].a = mainq'[i].a
        PROVE  i = j
    <3>1. j + 1 = i + 1 /\ i \in Nat /\ j \in Nat
      BY <1>2, <2>2, <2>4
    <3> QED
      BY <3>1
  <2> QED
    BY <2>3, <2>4
<1> QED
  BY <1>4, <1>5, <1>6 DEF QueuesFit
\* A step that leaves the places, the arenas and the queues alone.
LEMMA NothingAsked ==
    ASSUME TypeOK, TypeOK', SessionInv, ReferenceInv,
           UNCHANGED <<stage, arena, newarena, astatus, dbq, mainq>>
    PROVE  ReferenceInv'
<1>1. PlacesExist'
  BY PlacesKept DEF ReferenceInv
<1>2. QueuesFit'
  BY QueuesFitStay DEF ReferenceInv, QueuesFit, ArenasStay
<1> QED
  BY <1>1, <1>2 DEF ReferenceInv, QueuesFit

LEMMA InputReferences ==
    ASSUME TypeOK, TypeOK', SessionInv, ReferenceInv, Input
    PROVE  ReferenceInv'
<1>1. ASSUME NEW p \in Players, NewConnection(p) PROVE ReferenceInv'
  <2>1. /\ stage' = [stage EXCEPT ![p] = "new"]
        /\ mainq' = Append(mainq, MainMsg("newplayer_new", p, NoArena))
        /\ UNCHANGED <<arena, newarena, astatus, dbq>>
    BY <1>1 DEF NewConnection, avars
  <2>2. PlacesExist'
    BY <2>1, PlacesKept DEF ReferenceInv, TypeOK
  <2>3. QueuesFit'
    BY <2>1, MainAsked DEF ReferenceInv, QueuesFit, ArenasStay, MainMsg
  <2> QED
    BY <2>2, <2>3 DEF ReferenceInv, QueuesFit
<1>2. ASSUME NEW p \in Players, Login(p) \/ KickPlayer(p) \/ Leaving(p) PROVE ReferenceInv'
  BY <1>2, NothingAsked DEF Login, KickPlayer, Leaving, avars, qvars
<1>3. ASSUME NEW p \in Players, NEW n \in ArenaNames, Go(p, n) PROVE ReferenceInv'
  <2>1. PICK a \in Arenas : PlaceIn(p, n, a)
    BY <1>3 DEF Go
  <2>2. p \in Listed /\ UNCHANGED <<stage, arena, dbq, mainq>>
    BY <1>3 DEF Go, Handles, qvars
  <2>3. /\ newarena' = [newarena EXCEPT ![p] = a]
        /\ astatus'[a] # "none"
        /\ \A b \in Arenas : astatus[b] # "none" => astatus'[b] = astatus[b]
    <3>1. CASE FoundArenas(n) = {}
      BY <2>1, <3>1 DEF PlaceIn, CreateArena, Exists, TypeOK
    <3>2. CASE FoundArenas(n) # {}
      BY <2>1, <3>2 DEF PlaceIn, FoundArenas, Exists
    <3> QED
      BY <3>1, <3>2
  <2>4. PlacesExist'
    BY <2>2, <2>3, PlacesKept DEF ReferenceInv, TypeOK
  <2>5. QueuesFit'
    BY <2>2, <2>3, QueuesFitStay DEF ReferenceInv, QueuesFit, ArenasStay, Syncing
  <2> QED
    BY <2>4, <2>5 DEF ReferenceInv, QueuesFit
<1>4. ASSUME NEW a \in Arenas, RecycleArena(a) PROVE ReferenceInv'
  <2>1. /\ astatus[a] = "running"
        /\ \A p \in Players : newarena'[p] = newarena[p] \/ newarena'[p] = a
        /\ astatus' = [astatus EXCEPT ![a] = "closing"]
        /\ UNCHANGED <<stage, arena, dbq, mainq>>
    BY <1>4 DEF RecycleArena, qvars
  <2>2. PlacesExist'
    BY <2>1, PlacesKept DEF ReferenceInv, TypeOK
  <2>3. QueuesFit'
    BY <2>1, QueuesFitStay DEF ReferenceInv, QueuesFit, ArenasStay, Syncing, TypeOK
  <2> QED
    BY <2>2, <2>3 DEF ReferenceInv, QueuesFit
<1> QED
  BY <1>1, <1>2, <1>3, <1>4 DEF Input

LEMMA RunActionReferences ==
    ASSUME TypeOK, TypeOK', SessionInv, ReferenceInv, NEW p \in Players, RunAction(p)
    PROVE  ReferenceInv'
<1>1. /\ UNCHANGED <<stage, arena, newarena, astatus, mainq>>
      /\ \/ UNCHANGED dbq
         \/ \E c \in {"get_player", "put_player"}, a \in {NoArena, arena[p]} :
               dbq' = Append(dbq, DbMsg(c, p, a))
  BY DEF RunAction, ActAuthenticate, ActGetGlobal, ActConnect, ActLoginResponse,
     ActGetArena, ActEnterArena, ActLeaveArena, ActPutArena, ActLeaveZone, Acted, avars,
     SyncPlayer
<1>2. CASE UNCHANGED dbq
  BY <1>1, <1>2, NothingAsked
<1>3. CASE ~UNCHANGED dbq
  <2>1. PICK c \in {"get_player", "put_player"}, a \in {NoArena, arena[p]} :
           dbq' = Append(dbq, DbMsg(c, p, a))
    BY <1>1, <1>3
  <2>2. PlacesExist'
    BY <1>1, PlacesKept DEF ReferenceInv
  <2>3. QueuesFit'
    BY <1>1, <2>1, PlayerAsks DEF ReferenceInv, QueuesFit, ArenasStay
  <2> QED
    BY <2>2, <2>3 DEF ReferenceInv, QueuesFit
<1> QED
  BY <1>2, <1>3

LEMMA PlayersReferences ==
    ASSUME TypeOK, TypeOK', ZoneInv, StatusInv, SessionInv, ReferenceInv,
           \/ PlayerPass \/ DBThread \/ RunInMain
           \/ \E p \in Players : RunAction(p) \/ AuthDone(p) \/ FreePlayer(p)
    PROVE  ReferenceInv'
<1>1. CASE PlayerPass
  <2>1. /\ \A p \in Players : newarena'[p] \in {newarena[p], NoArena}
        /\ \A p \in Players : status[p] \notin Waiting => arena'[p] = arena[p]
        /\ UNCHANGED <<stage, astatus, dbq, mainq>>
    BY <1>1 DEF PlayerPass, avars, qvars
  <2>2. PlacesExist'
    BY <2>1, PlacesKept DEF ReferenceInv
  <2>3. QueuesFit'
    BY <2>1, QueuesFitStay DEF ReferenceInv, QueuesFit, ArenasStay, InArenaStatuses, Waiting
  <2> QED
    BY <2>2, <2>3 DEF ReferenceInv, QueuesFit
<1>2. CASE DBThread
  <2>1. PlacesExist'
    BY <1>2, PlacesKept DEF ReferenceInv, DBThread, pvars, avars
  <2> QED
    BY <1>2, <2>1, DBThreadAnswers DEF ReferenceInv, QueuesFit
<1>3. CASE RunInMain
  <2>1. PICK m : m = Head(mainq)
    OBVIOUS
  <2>2. m \in MainMessages /\ 1 \in DOMAIN mainq /\ m = mainq[1]
    BY <1>3, <2>1 DEF RunInMain, TypeOK
  <2>3. ASSUME m.cb = "newplayer_new" PROVE PlacesExist'
    <3>1. /\ stage' = [stage EXCEPT ![m.p] = "listed"] /\ UNCHANGED <<newarena, astatus>>
      BY <1>3, <2>1, <2>3 DEF RunInMain, avars
    <3>2. m.p \in Players /\ newarena[m.p] = NoArena
      BY <2>2, <2>3 DEF ZoneInv, LifeQueuedOnce, NewcomersHaveNoArena, MainMessages
    <3> QED
      BY <3>1, <3>2, PlacesKept DEF ReferenceInv, TypeOK
  <2>4. ASSUME m.cb = "newplayer_free" PROVE PlacesExist'
    <3>1. ForgetPlayer(m.p) /\ UNCHANGED avars
      BY <1>3, <2>1, <2>4 DEF RunInMain
    <3> QED
      BY <3>1, PlacesKept DEF ReferenceInv, ForgetPlayer, TypeOK, avars
  <2>5. ASSUME m.cb = SyncDone PROVE PlacesExist'
    <3>1. UNCHANGED <<stage, newarena, astatus>>
      BY <1>3, <2>1, <2>5 DEF RunInMain, SyncDone, avars
    <3> QED
      BY <3>1, PlacesKept DEF ReferenceInv
  <2>6. ASSUME m.cb = "arena_sync_done" PROVE PlacesExist'
    <3>1. /\ astatus' = [astatus EXCEPT ![m.a] = SyncedArenaStatus(@)]
          /\ UNCHANGED <<stage, newarena>>
      BY <1>3, <2>1, <2>6 DEF RunInMain, pvars
    <3>2. \A t : t # "none" => SyncedArenaStatus(t) # "none"
      BY DEF SyncedArenaStatus
    <3> QED
      BY <3>1, <3>2, PlacesKept DEF ReferenceInv, TypeOK
  <2>7. PlacesExist'
    BY <2>2, <2>3, <2>4, <2>5, <2>6 DEF MainMessages, SyncDone, ReferenceInv
  <2> QED
    BY <1>3, <2>7, RunInMainAnswered DEF ReferenceInv, QueuesFit
<1>4. ASSUME NEW p \in Players, AuthDone(p) PROVE ReferenceInv'
  BY <1>4, NothingAsked DEF AuthDone, avars
<1>5. ASSUME NEW p \in Players, FreePlayer(p) PROVE ReferenceInv'
  <2>1. /\ stage' = [stage EXCEPT ![p] = "freeing"]
        /\ mainq' = Append(mainq, MainMsg("newplayer_free", p, NoArena))
        /\ UNCHANGED <<arena, newarena, astatus, dbq>>
    BY <1>5 DEF FreePlayer, avars
  <2>2. PlacesExist'
    BY <2>1, PlacesKept DEF ReferenceInv, TypeOK
  <2>3. QueuesFit'
    BY <2>1, MainAsked DEF ReferenceInv, QueuesFit, ArenasStay, MainMsg
  <2> QED
    BY <2>2, <2>3 DEF ReferenceInv, QueuesFit
<1> QED
  BY <1>1, <1>2, <1>3, <1>4, <1>5, RunActionReferences

\* One arena that does not wait for the database moves on.
LEMMA ArenaMovesOn ==
    ASSUME TypeOK, TypeOK', SessionInv, ReferenceInv, NEW a \in Arenas, NEW s, s # "none",
           astatus[a] \notin Syncing, astatus' = [astatus EXCEPT ![a] = s],
           UNCHANGED <<stage, arena, newarena, dbq, mainq>>
    PROVE  ReferenceInv'
<1>1. PlacesExist'
  BY PlacesKept DEF ReferenceInv, TypeOK
<1>2. QueuesFit'
  BY QueuesFitStay DEF ReferenceInv, QueuesFit, ArenasStay, TypeOK
<1> QED
  BY <1>1, <1>2 DEF ReferenceInv, QueuesFit

LEMMA ArenaAsksReferences ==
    ASSUME TypeOK, TypeOK', SessionInv, ReferenceInv, NEW a \in Arenas,
           astatus[a] \notin Syncing, NEW c, NEW w \in Syncing, NEW s, s # "none",
           SyncArena(a, c, w, s)
    PROVE  ReferenceInv'
<1>1. PlacesExist'
  <2>1. PICK u \in {w, s} : astatus' = [astatus EXCEPT ![a] = u]
    BY DEF SyncArena
  <2>2. u # "none" /\ UNCHANGED <<stage, newarena>>
    BY DEF SyncArena, Syncing, pvars
  <2> QED
    BY <2>1, <2>2, PlacesKept DEF ReferenceInv, TypeOK
<1>2. QueuesFit'
  BY ArenaAsks DEF ReferenceInv, QueuesFit
<1> QED
  BY <1>1, <1>2 DEF ReferenceInv, QueuesFit

LEMMA ArenasReferences ==
    ASSUME TypeOK, TypeOK', ZoneInv, SessionInv, ReferenceInv,
           Reap \/ ArenaFree \/ (\E a \in Arenas : ProcessArenaStates(a) \/ Unhold(a))
    PROVE  ReferenceInv'
<1>1. CASE Reap
  <2> DEFINE open == {a \in Arenas : astatus[a] \in {"running", "closing"}}
             reap == {a \in open \ UsedArenas : a \notin WantedArenas \/ astatus[a] = "closing"}
  <2>0. /\ astatus' = [a \in Arenas |->
                          IF a \in reap /\ (astatus[a] = "closing" \/ a \notin keepalive)
                            THEN "do_write_data" ELSE astatus[a]]
        /\ UNCHANGED <<stage, arena, newarena, dbq, mainq>>
    BY <1>1 DEF Reap, pvars, qvars
  <2>1. \A a \in Arenas :
           \/ astatus'[a] = astatus[a]
           \/ astatus[a] \in {"running", "closing"} /\ astatus'[a] = "do_write_data"
    BY <2>0
  <2> HIDE DEF open, reap
  <2>2. PlacesExist'
    BY <2>0, <2>1, PlacesKept DEF ReferenceInv
  <2>3. QueuesFit'
    BY <2>0, <2>1, QueuesFitStay DEF ReferenceInv, QueuesFit, ArenasStay, Syncing
  <2> QED
    BY <2>2, <2>3 DEF ReferenceInv, QueuesFit
<1>2. CASE ArenaFree
  <2>1. /\ draining \in Arenas /\ astatus[draining] = "do_destroy2"
        /\ draining \notin resurrect
        /\ astatus' = [astatus EXCEPT ![draining] = "none"]
        /\ UNCHANGED <<stage, arena, newarena, dbq, mainq>>
    BY <1>2 DEF ArenaFree, ZoneInv, DrainedIsGone, TypeOK, pvars, qvars
  <2>2. \A p \in Listed : newarena[p] # draining
    BY <2>1, ZoneAssumption DEF ZoneInv, WantedArenasReturn, OnTheWayOut
  <2>3. PlacesExist'
    BY <2>1, <2>2 DEF ReferenceInv, PlacesExist, Exists, Listed, TypeOK
  <2>4. QueuesFit'
    BY <2>1, QueuesFitStay DEF ReferenceInv, QueuesFit, ArenasStay, Syncing, TypeOK
  <2> QED
    BY <2>3, <2>4 DEF ReferenceInv, QueuesFit
<1>3. ASSUME NEW a \in Arenas, ProcessArenaStates(a) PROVE ReferenceInv'
  <2>1. CASE ArenaInit0(a) \/ ArenaInit1(a) \/ ArenaDestroy1(a)
    BY <2>1, TurnFrom, ArenaMovesOn
       DEF ArenaInit0, ArenaInit1, ArenaDestroy1, CallbacksHold, pvars, qvars, Syncing
  <2>2. CASE ArenaInit2(a)
    BY <2>2, TurnFrom, ArenaAsksReferences DEF ArenaInit2, Syncing
  <2>3. CASE ArenaWriteData(a) /\ Occupied(a)
    BY <2>3, TurnFrom, ArenaMovesOn DEF ArenaWriteData, pvars, qvars, Syncing
  <2>4. CASE ArenaWriteData(a) /\ ~Occupied(a)
    BY <2>4, TurnFrom, ArenaAsksReferences DEF ArenaWriteData, Syncing
  <2>5. CASE ArenaResurrect(a) \/ ArenaRemove(a) \/ ArenaDetachFails(a)
    BY <2>5, TurnFrom, ArenaMovesOn
       DEF ArenaResurrect, ArenaRemove, ArenaDetachFails, pvars, qvars, Syncing
  <2> QED
    BY <1>3, <2>1, <2>2, <2>3, <2>4, <2>5 DEF ProcessArenaStates
<1>4. ASSUME NEW a \in Arenas, Unhold(a) PROVE ReferenceInv'
  BY <1>4, NothingAsked DEF Unhold, pvars, qvars
<1> QED
  BY <1>1, <1>2, <1>3, <1>4

LEMMA InitReferences == Init => ReferenceInv
BY DEF Init, ReferenceInv, PlacesExist, Listed, RequestsNameArena, ArenaRequestsFit, ArenaAnswersFit

LEMMA NextReferences ==
    ASSUME TypeOK, TypeOK', ZoneInv, StatusInv, SessionInv, ReferenceInv, [Next]_vars
    PROVE  ReferenceInv'
<1>1. CASE Input
  BY <1>1, InputReferences
<1>2. CASE Server
  BY <1>2, PlayersReferences, ArenasReferences DEF Server
<1>3. CASE UNCHANGED vars
  BY <1>3, NothingAsked DEF vars, pvars, avars, qvars
<1> QED
  BY <1>1, <1>2, <1>3 DEF Next

\* In every reachable state the requests and answers are about arenas that wait for them, and
\* players are sent to arenas that exist.
THEOREM ReferenceInvariant == Spec => []ReferenceInv
<1>1. TypeOK /\ TypeOK' /\ ZoneInv /\ StatusInv /\ SessionInv /\ ReferenceInv /\ [Next]_vars
        => ReferenceInv'
  BY NextReferences
<1> QED
  BY <1>1, InitReferences, TypeCorrect, ZoneInvariant, StatusInvariant, SessionInvariant, PTL
     DEF Spec

----------------------------------------------------------------------------
(* No pointer outlives what it points to.                                  *)

LEMMA ArenasAreThere ==
    ASSUME TypeOK, ZoneInv, SessionInv, ReferenceInv
    PROVE  NoDanglingArena
<1>1. ASSUME NEW p \in Listed, arena[p] # NoArena PROVE Exists(arena[p]) /\ arena[p] # draining
  BY <1>1 DEF ZoneInv, OccupiedArenasOpen, DrainedIsGone, Exists
<1>2. ASSUME NEW p \in Listed, newarena[p] # NoArena
      PROVE  Exists(newarena[p]) /\ newarena[p] # draining
  BY <1>2 DEF ZoneInv, WantedArenasReturn, DrainedIsGone, ReferenceInv, PlacesExist, OnTheWayOut
<1>3. ASSUME NEW i \in DOMAIN dbq, dbq[i].a # NoArena
      PROVE  Exists(dbq[i].a) /\ dbq[i].a # draining
  <2>1. CASE dbq[i].p = NoPlayer
    BY <2>1, <1>3 DEF ReferenceInv, ArenaRequestsFit, Syncing, Exists, ZoneInv, DrainedIsGone
  <2>2. CASE dbq[i].p # NoPlayer
    <3>1. dbq[i].p \in Players /\ status[dbq[i].p] \in InArenaStatuses
      BY <1>3, <2>2, AskedIn
    <3>2. dbq[i].p \in Listed /\ arena[dbq[i].p] # NoArena
      BY <3>1 DEF ZoneInv, InsideIsListed, Listed
    <3>3. dbq[i].a = arena[dbq[i].p]
      BY <1>3, <2>2 DEF ReferenceInv, RequestsNameArena
    <3> QED
      BY <1>1, <3>2, <3>3
  <2> QED
    BY <2>1, <2>2
<1>4. ASSUME NEW i \in DOMAIN mainq, mainq[i].a # NoArena
      PROVE  Exists(mainq[i].a) /\ mainq[i].a # draining
  <2>1. mainq[i].cb = "arena_sync_done"
    BY <1>4, MainTypes DEF MainMessages
  <2> QED
    BY <2>1, <1>4 DEF ReferenceInv, ArenaAnswersFit, Syncing, Exists, ZoneInv, DrainedIsGone
<1> QED
  BY <1>1, <1>2, <1>3, <1>4 DEF NoDanglingArena

LEMMA PlayersAreThere ==
    ASSUME TypeOK, ZoneInv, StatusInv, SessionInv, LoginInv
    PROVE  NoDanglingPlayer
<1> SUFFICES ASSUME NEW p \in Players, stage[p] = "none"
             PROVE  /\ pending[p] = "idle"
                    /\ p \notin authq
                    /\ \A i \in DOMAIN dbq : dbq[i].p # p
                    /\ \A i \in DOMAIN mainq : mainq[i].p # p
                    /\ \A q \in Allocated : replacedBy[q] # p
  BY DEF NoDanglingPlayer, Allocated
<1>1. status[p] = "uninitialized" /\ p # NoPlayer
  BY ZoneAssumption DEF StatusInv, UnlistedStatus
<1>2. pending[p] = "idle"
  BY <1>1 DEF SessionInv, SessionFits, PendingFits, LeftToDo
<1>3. p \notin authq
  BY DEF LoginInv, LoginsFit
<1>4. ~Asked(p) /\ ~Answered(p)
  BY <1>1, AskedWait DEF SessionInv, Wait4
<1>5. ASSUME NEW i \in DOMAIN mainq PROVE mainq[i].p # p
  <2>1. \/ mainq[i].cb \in {"newplayer_new", "newplayer_free", SyncDone}
        \/ mainq[i].p = NoPlayer
    BY MainTypes DEF MainMessages, SyncDone
  <2> QED
    BY <1>1, <1>4, <2>1 DEF ZoneInv, LifeQueuedOnce, Answered, SyncDone
<1>6. \A q \in Allocated : replacedBy[q] # p
  BY <1>1, ReplacedAre DEF Allocated
<1> QED
  BY <1>2, <1>3, <1>4, <1>5, <1>6 DEF Asked

\* What is freed is forgotten by everybody: when run_newplayer_free gives a Player back or
\* ProcessArenaStates an Arena, no player, list, or message of any thread points to it.
THEOREM NothingDangles == Spec => []NoDangling
<1>1. TypeOK /\ ZoneInv /\ StatusInv /\ SessionInv /\ LoginInv /\ ReferenceInv => NoDangling
  BY ArenasAreThere, PlayersAreThere DEF NoDangling
<1> QED
  BY <1>1, TypeCorrect, ZoneInvariant, StatusInvariant, SessionInvariant, LoginInvariant,
     ReferenceInvariant, PTL
=============================================================================
