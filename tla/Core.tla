-------------------------------- MODULE Core --------------------------------
(***************************************************************************)
(* core.c: logging in and the player state machine.                        *)
(*                                                                         *)
(* process_player_states is a timer of the main thread.  Holding the       *)
(* player lock it moves every player on, and remembers in its actions list *)
(* the ones for which something is to be done; then, without the lock, it  *)
(* does these things one after the other (RunAction).  PLogin and MLogin,  *)
(* AuthDone for the authenticator and player_sync_done for persist run in  *)
(* the main thread, too.                                                   *)
(***************************************************************************)
EXTENDS PlayerData

----------------------------------------------------------------------------
(* PLogin, MLogin: what is not refused (fail_login_with leads through       *)
(* S_WAIT_AUTH and AuthDone back to S_CONNECTED).                          *)

Login(p) ==
    /\ Handles(p)
    /\ status[p] = "connected"
    /\ status' = [status EXCEPT ![p] = "need_auth"]
    /\ UNCHANGED <<stage, whenloggedin, arena, newarena, leaveflag, name, cvars,
                   avars, tvars, qvars, gvars>>

----------------------------------------------------------------------------
(* process_player_states, under the player lock.                           *)

\* The states that "automatically transition to another one".
NextStatus ==
    [need_auth              |-> "wait_auth",
     need_global_sync       |-> "wait_global_sync1",
     do_global_callbacks    |-> "send_login_response",
     send_login_response    |-> "loggedin",
     do_freq_and_arena_sync |-> "wait_arena_sync1",
     arena_resp_and_cbs     |-> "playing",
     leaving_arena          |-> "do_arena_sync2",
     do_arena_sync2         |-> "wait_arena_sync2",
     leaving_zone           |-> "wait_global_sync2"]

Waiting == {"connected", "loggedin"}

\* Mistaken variant: does not wait for ARENA_RUNNING.
ArenaExists(p) == newarena[p] # NoArena

ArenaReady(p) == newarena[p] # NoArena /\ astatus[newarena[p]] = "running"

\* Mistaken variant: looks at the arena before whenloggedin.
PrefersArena(p) ==
    CASE status[p] \in Waiting /\ ArenaReady(p) -> "do_freq_and_arena_sync"
      [] status[p] \in Waiting /\ ~ArenaReady(p) ->
             IF p \in whenloggedin THEN "leaving_zone" ELSE status[p]
      [] status[p] \in DOMAIN NextStatus -> NextStatus[status[p]]
      [] OTHER -> status[p]

PassedStatus(p) ==
    CASE status[p] \in Waiting /\ p \in whenloggedin  -> "leaving_zone"
      [] status[p] \in Waiting /\ p \notin whenloggedin ->
             IF ArenaReady(p) THEN "do_freq_and_arena_sync" ELSE status[p]
      [] status[p] \in DOMAIN NextStatus -> NextStatus[status[p]]
      [] OTHER -> status[p]

PlayerPass ==
    LET waiting == {p \in Listed : status[p] \in Waiting}
        ready   == {p \in waiting : ArenaReady(p)}
    IN  /\ MainFree
        /\ status' = [p \in Players |-> IF p \in Listed THEN PassedStatus(p)
                                                       ELSE status[p]]
        /\ arena' = [p \in Players |-> IF p \in ready THEN newarena[p]
                                       ELSE IF p \in waiting THEN NoArena
                                       ELSE arena[p]]
        /\ newarena' = [p \in Players |-> IF p \in ready THEN NoArena
                                          ELSE newarena[p]]
        /\ whenloggedin' = whenloggedin \ waiting
        /\ pending' = [p \in Players |->
                          IF p \in Listed /\ status[p] \in DOMAIN NextStatus
                            THEN status[p] ELSE "idle"]
        /\ UNCHANGED <<stage, leaveflag, name, cvars, avars, draining, qvars, gvars>>

----------------------------------------------------------------------------
(* player_sync_done                                                        *)

\* Mistaken variant: ignores leave_arena_when_done_waiting.
IgnoresLeaveFlag(p) ==
    CASE status[p] = "wait_arena_sync1"  -> "arena_resp_and_cbs"
      [] status[p] = "wait_arena_sync2"  -> "loggedin"
      [] status[p] = "wait_global_sync1" -> "do_global_callbacks"
      [] status[p] = "wait_global_sync2" -> "timewait"
      [] OTHER -> status[p]

\* Mistaken variant: has no case for the end of an arena's second sync.
MissesSync2(p) ==
    IF status[p] = "wait_arena_sync2" THEN status[p] ELSE IgnoresLeaveFlag(p)

SyncedStatus(p) ==
    CASE status[p] = "wait_arena_sync1" ->
             IF p \in leaveflag THEN "do_arena_sync2" ELSE "arena_resp_and_cbs"
      [] status[p] = "wait_arena_sync2"  -> "loggedin"
      [] status[p] = "wait_global_sync1" -> "do_global_callbacks"
      [] status[p] = "wait_global_sync2" -> "timewait"
      [] OTHER -> status[p]

\* Mistaken variant: forgets replaced_by.
NoReplacement(p) == {}

\* The player who has been waiting for p to leave.
Replacement(p) ==
    IF status[p] = "wait_global_sync2" /\ replacedBy[p] # NoPlayer
      THEN {q \in {replacedBy[p]} : status[q] = "wait_auth"} ELSE {}

PlayerSyncDone(p) ==
    /\ status' = [q \in Players |-> IF q \in Replacement(p) THEN "need_global_sync"
                                    ELSE IF q = p THEN SyncedStatus(p)
                                    ELSE status[q]]
    /\ replacedBy' = IF Replacement(p) = {} THEN replacedBy
                     ELSE [replacedBy EXCEPT ![p] = NoPlayer]

\* Ask the database to get or put p's data, or be done at once.
SyncPlayer(p, wanted, cmd, a) ==
    IF wanted
      THEN /\ dbq' = Append(dbq, DbMsg(cmd, p, a))
           /\ UNCHANGED <<status, replacedBy>>
      ELSE PlayerSyncDone(p) /\ UNCHANGED dbq

----------------------------------------------------------------------------
(* process_player_states, the actions.                                     *)

Acted(p, s) ==
    /\ pending[p] = s
    /\ pending' = [pending EXCEPT ![p] = "idle"]
    /\ UNCHANGED <<stage, whenloggedin, arena, newarena, leaveflag, name, avars,
                   draining, mainq>>

\* S_NEED_AUTH: the answer of Authenticate comes at once or later (AuthDone).
ActAuthenticate(p) ==
    /\ Acted(p, "need_auth")
    /\ authq' = authq \cup {p}
    /\ UNCHANGED <<status, cvars, dbq, gvars>>

\* S_NEED_GLOBAL_SYNC
ActGetGlobal(p) ==
    /\ Acted(p, "need_global_sync")
    /\ SyncPlayer(p, HasPersist, "get_player", NoArena)
    /\ gsync' = gsync \cup {p}
    /\ UNCHANGED <<async, gcallbacks, authq, gvars>>

\* S_DO_GLOBAL_CALLBACKS: PA_CONNECT
ActConnect(p) ==
    /\ Acted(p, "do_global_callbacks")
    /\ told' = [told EXCEPT ![p] = "connected"]
    /\ gcallbacks' = gcallbacks \cup {p}
    /\ UNCHANGED <<status, gsync, async, replacedBy, authq, dbq, loaded>>

\* S_SEND_LOGIN_RESPONSE
ActLoginResponse(p) ==
    /\ Acted(p, "send_login_response")
    /\ UNCHANGED <<status, cvars, authq, dbq, gvars>>

\* Mistaken variant: forgets to set hasdoneasync.
GetsArenaUnnoted(p) ==
    /\ Acted(p, "do_freq_and_arena_sync")
    /\ SyncPlayer(p, HasPersist, "get_player", arena[p])
    /\ UNCHANGED <<gsync, async, gcallbacks, authq, gvars>>

\* S_DO_FREQ_AND_ARENA_SYNC
ActGetArena(p) ==
    /\ Acted(p, "do_freq_and_arena_sync")
    /\ SyncPlayer(p, HasPersist, "get_player", arena[p])
    /\ async' = async \cup {p}
    /\ UNCHANGED <<gsync, gcallbacks, authq, gvars>>

\* S_ARENA_RESP_AND_CBS: PA_ENTERARENA
ActEnterArena(p) ==
    /\ Acted(p, "arena_resp_and_cbs")
    /\ told' = [told EXCEPT ![p] = "entered"]
    /\ UNCHANGED <<status, cvars, authq, dbq, loaded>>

\* S_LEAVING_ARENA: PA_LEAVEARENA
ActLeaveArena(p) ==
    /\ Acted(p, "leaving_arena")
    /\ told' = [told EXCEPT ![p] = "connected"]
    /\ UNCHANGED <<status, cvars, authq, dbq, loaded>>

\* S_DO_ARENA_SYNC2
ActPutArena(p) ==
    /\ Acted(p, "do_arena_sync2")
    /\ SyncPlayer(p, HasPersist /\ p \in async, "put_player", arena[p])
    /\ async' = async \ {p}
    /\ UNCHANGED <<gsync, gcallbacks, authq, gvars>>

\* S_LEAVING_ZONE: PA_DISCONNECT, if there was a PA_CONNECT
ActLeaveZone(p) ==
    /\ Acted(p, "leaving_zone")
    /\ told' = IF p \in gcallbacks THEN [told EXCEPT ![p] = "out"] ELSE told
    /\ SyncPlayer(p, HasPersist /\ p \in gsync, "put_player", NoArena)
    /\ gsync' = gsync \ {p}
    /\ UNCHANGED <<async, gcallbacks, authq, loaded>>

RunAction(p) ==
    \/ ActAuthenticate(p) \/ ActGetGlobal(p) \/ ActConnect(p)
    \/ ActLoginResponse(p) \/ ActGetArena(p) \/ ActEnterArena(p)
    \/ ActLeaveArena(p) \/ ActPutArena(p) \/ ActLeaveZone(p)

----------------------------------------------------------------------------
(* AuthDone                                                                *)

\* The login failed: the player may try again.
AuthRefused(p) ==
    /\ status' = [status EXCEPT ![p] = "connected"]
    /\ UNCHANGED <<whenloggedin, leaveflag, name, replacedBy>>

\* The login succeeded and nobody of that name is on.
AuthAccepted(p, n) ==
    /\ FindPlayer(n) \ {p} = {}
    /\ name' = [name EXCEPT ![p] = n]
    /\ status' = [status EXCEPT ![p] = "need_global_sync"]
    /\ UNCHANGED <<whenloggedin, leaveflag, replacedBy>>

\* Somebody is: he is kicked, and the new player waits until he has left.
AuthReplaces(p, n) ==
    \E old \in FindPlayer(n) \ {p} :
        /\ name' = [name EXCEPT ![p] = n]
        /\ replacedBy' = [replacedBy EXCEPT ![old] = p]
        /\ Kick({old})

\* The authenticator answers at once, in the middle of the actions, or when its
\* server does (billing_ssc.c, process_packet, a function of runinmain_queue).
AuthDone(p) ==
    /\ p \in authq
    /\ authq' = authq \ {p}
    /\ IF status[p] # "wait_auth"
         THEN UNCHANGED <<status, whenloggedin, leaveflag, name, replacedBy>>
         ELSE \/ AuthRefused(p)
              \/ \E n \in UserNames : AuthAccepted(p, n) \/ AuthReplaces(p, n)
    /\ UNCHANGED <<stage, arena, newarena, gsync, async, gcallbacks, avars, tvars,
                   dbq, mainq, gvars>>
=============================================================================
