----------------------------- MODULE ZoneState -----------------------------
(***************************************************************************)
(* The state that the core modules of asss share: the player list          *)
(* (player.h, player.c), the arena list (arenaman.h, arenaman.c), core's   *)
(* private per-player data (core.c), and the queues that connect the main  *)
(* thread with the database thread, the authenticator and the network      *)
(* threads.                                                                *)
(*                                                                         *)
(* A member of Players or Arenas is a struct, that is a pointer: it is     *)
(* allocated, used, freed and allocated again.  A C flag of a struct is    *)
(* modelled by the set of the structs in which it is set.                  *)
(***************************************************************************)
EXTENDS Naturals, Sequences, FiniteSets

CONSTANTS
    Players,      \* the Player structs
    Chat,         \* those of type T_CHAT; the others are IS_STANDARD
    Arenas,       \* the Arena structs
    ArenaNames,   \* the arena names that players ask for
    PermArenas,   \* the arenas created when arenaman is loaded (keep_alive)
    PermName,     \* the name of each of them
    BrokenName,   \* the "#foo" name given to an arena that cannot be detached
    UserNames,    \* the names that the authenticator gives to players
    HasPersist,   \* is the persist module loaded?
    Detachable,   \* the arenas from which modules always detach cleanly
    MaxHolds,     \* bound: how often the modules hold an arena in one stage
    NoPlayer, NoArena, NoName

ASSUME ZoneAssumption ==
    /\ Chat \subseteq Players
    /\ NoPlayer \notin Players
    /\ NoArena \notin Arenas
    /\ PermArenas \subseteq Arenas
    /\ Detachable \subseteq Arenas
    /\ PermName \in [PermArenas -> ArenaNames]
    /\ \A a, b \in PermArenas : PermName[a] = PermName[b] => a = b
    /\ BrokenName \notin ArenaNames /\ NoName \notin ArenaNames
    /\ BrokenName # NoName
    /\ NoName \notin UserNames
    /\ HasPersist \in BOOLEAN
    /\ MaxHolds \in Nat

VARIABLES
    stage,        \* the life of a Player struct, see Stages
    status,       \* p->status
    whenloggedin, \* the players with p->whenloggedin = S_LEAVING_ZONE
    arena,        \* p->arena
    newarena,     \* p->newarena
    leaveflag,    \* the players with p->flags.leave_arena_when_done_waiting
    name,         \* p->name
    gsync,        \* the players with pdata.hasdonegsync
    async,        \* the players with pdata.hasdoneasync
    gcallbacks,   \* the players with pdata.hasdonegcallbacks
    replacedBy,   \* pdata.replaced_by

    astatus,      \* a->status, or "none" for an Arena that is not allocated
    aname,        \* a->name
    keepalive,    \* the arenas with a->keep_alive
    holds,        \* adata.holds
    resurrect,    \* the arenas with adata.resurrect

    pending,      \* the actions list of process_player_states
    draining,     \* the arena whose ARENA_DO_DESTROY2 waits in WaitRunInMainDrain
    authq,        \* the players the authenticator has not answered yet
    dbq,          \* the queue of the database thread (persist.c)
    mainq,        \* runinmain_queue (mainloop.c)

    told,         \* what CB_PLAYERACTION has told the modules of each player
    loaded        \* the data that was read from the database and not yet saved

pvars  == <<stage, status, whenloggedin, arena, newarena, leaveflag, name>>
cvars  == <<gsync, async, gcallbacks, replacedBy>>
avars  == <<astatus, aname, keepalive, holds, resurrect>>
tvars  == <<pending, draining>>
qvars  == <<authq, dbq, mainq>>
gvars  == <<told, loaded>>
vars   == <<pvars, cvars, avars, tvars, qvars, gvars>>

----------------------------------------------------------------------------
(* The enumerations of player.h and arenaman.h, in their order.            *)

Statuses ==
    {"uninitialized", "connected", "need_auth", "wait_auth",
     "need_global_sync", "wait_global_sync1", "do_global_callbacks",
     "send_login_response", "loggedin", "do_freq_and_arena_sync",
     "wait_arena_sync1", "arena_resp_and_cbs", "playing", "leaving_arena",
     "do_arena_sync2", "wait_arena_sync2", "leaving_zone",
     "wait_global_sync2", "timewait"}

\* "p->arena is valid starting here" up to "p->arena is no longer valid after
\* this point" (player.h).
InArenaStatuses ==
    {"do_freq_and_arena_sync", "wait_arena_sync1", "arena_resp_and_cbs",
     "playing", "leaving_arena", "do_arena_sync2", "wait_arena_sync2"}

\* status >= S_LEAVING_ZONE
OutStatuses == {"leaving_zone", "wait_global_sync2", "timewait"}

ArenaStatuses ==
    {"do_init0", "wait_holds0", "do_init1", "wait_holds1", "do_init2",
     "wait_sync1", "running", "closing", "do_write_data", "wait_sync2",
     "do_destroy1", "wait_holds2", "do_destroy2"}

HoldStatuses == {"wait_holds0", "wait_holds1", "wait_holds2"}

\* status > ARENA_RUNNING
OnTheWayOut ==
    {"closing", "do_write_data", "wait_sync2", "do_destroy1", "wait_holds2",
     "do_destroy2"}

\* NewPlayer returns a struct that is "new" until run_newplayer_new puts it
\* on the player list; FreePlayer takes it off, and it is "freeing" until
\* run_newplayer_free gives the memory back.
Stages == {"none", "new", "listed", "freeing"}

Allocated == {p \in Players : stage[p] # "none"}
Listed    == {p \in Players : stage[p] = "listed"}
Exists(a) == astatus[a] # "none"

----------------------------------------------------------------------------
(* The messages between the threads.                                       *)

Scopes == {"global", "arena"}
ScopeOf(a) == IF a = NoArena THEN "global" ELSE "arena"

DbMessages ==
         [cmd : {"get_player", "put_player"}, p : Players, a : Arenas \cup {NoArena}]
    \cup [cmd : {"get_arena", "put_arena"}, p : {NoPlayer}, a : Arenas]

MainMessages ==
         [cb : {"newplayer_new", "newplayer_free", "player_sync_done"},
          p : Players, a : {NoArena}]
    \cup [cb : {"arena_sync_done"}, p : {NoPlayer}, a : Arenas]

DbMsg(c, p, a)   == [cmd |-> c, p |-> p, a |-> a]
MainMsg(c, p, a) == [cb |-> c, p |-> p, a |-> a]

\* The main thread is between two timers: in no action of process_player_states
\* and in no drain.
MainFree == draining = NoArena /\ \A p \in Players : pending[p] = "idle"

\* It takes functions from runinmain_queue between timers and while it drains.
MayRunInMain == MainFree \/ draining # NoArena

\* Messages are handled in the main thread: a packet of a game client is a
\* function of that queue (net.c, ProcessBuffer), a line of a chat client is
\* handled in a timer (chatnet.c, do_one_iter).  Both are of players that main
\* has put on the list before.
Handles(p) == p \in Listed /\ IF p \in Chat THEN MainFree ELSE MayRunInMain

\* Main holds the arena lock for writing while it drains.
ArenaLockFree == draining = NoArena

----------------------------------------------------------------------------
Init ==
    /\ stage = [p \in Players |-> "none"]
    /\ status = [p \in Players |-> "uninitialized"]
    /\ whenloggedin = {}
    /\ arena = [p \in Players |-> NoArena]
    /\ newarena = [p \in Players |-> NoArena]
    /\ leaveflag = {}
    /\ name = [p \in Players |-> NoName]
    /\ gsync = {} /\ async = {} /\ gcallbacks = {}
    /\ replacedBy = [p \in Players |-> NoPlayer]
    /\ astatus = [a \in Arenas |-> IF a \in PermArenas THEN "do_init0" ELSE "none"]
    /\ aname = [a \in Arenas |-> IF a \in PermArenas THEN PermName[a] ELSE NoName]
    /\ keepalive = PermArenas
    /\ holds = [a \in Arenas |-> 0]
    /\ resurrect = {}
    /\ pending = [p \in Players |-> "idle"]
    /\ draining = NoArena
    /\ authq = {}
    /\ dbq = <<>>
    /\ mainq = <<>>
    /\ told = [p \in Players |-> "out"]
    /\ loaded = [p \in Players |-> {}]

TypeOK ==
    /\ stage \in [Players -> Stages]
    /\ status \in [Players -> Statuses]
    /\ whenloggedin \subseteq Players
    /\ arena \in [Players -> Arenas \cup {NoArena}]
    /\ newarena \in [Players -> Arenas \cup {NoArena}]
    /\ leaveflag \subseteq Players
    /\ name \in [Players -> UserNames \cup {NoName}]
    /\ gsync \subseteq Players /\ async \subseteq Players
    /\ gcallbacks \subseteq Players
    /\ replacedBy \in [Players -> Players \cup {NoPlayer}]
    /\ astatus \in [Arenas -> ArenaStatuses \cup {"none"}]
    /\ aname \in [Arenas -> ArenaNames \cup {BrokenName, NoName}]
    /\ keepalive \subseteq Arenas
    /\ holds \in [Arenas -> Nat]
    /\ resurrect \subseteq Arenas
    /\ pending \in [Players -> Statuses \cup {"idle"}]
    /\ draining \in Arenas \cup {NoArena}
    /\ authq \subseteq Players
    /\ dbq \in Seq(DbMessages)
    /\ mainq \in Seq(MainMessages)
    /\ told \in [Players -> {"out", "connected", "entered"}]
    /\ loaded \in [Players -> SUBSET Scopes]
=============================================================================
