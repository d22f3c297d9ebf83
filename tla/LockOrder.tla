----------------------------- MODULE LockOrder ------------------------------
(***************************************************************************)
(* Which thread takes which lock while it holds which others.              *)
(*                                                                         *)
(* A section is what a thread does from the moment it takes its first lock *)
(* until it holds none again, reduced to the locks it takes and releases;  *)
(* the functions below are those of the core modules that take one lock    *)
(* while they hold another, and the shortest of the others.  A thread runs *)
(* its sections in any order.  Most are those of the main thread: timers   *)
(* run there when they are due, and the handlers of all ordinary packets,  *)
(* which net.c queues for it (ProcessBuffer).                              *)
(***************************************************************************)
EXTENDS Naturals, Sequences

CONSTANT
    HasPersist   \* persist.c is loaded

ASSUME PersistAssumption == HasPersist \in BOOLEAN

Threads == {"main", "recv", "rel", "send", "db", "worker"}

RWLocks == {"plock", "arenalock"}
Recursive == {"chat_bigmtx", "fm_mutex", "flagmtx", "ballmtx", "modmtx"}
Plain == {"dbmtx", "secmtx", "specmtx", "freqshipmtx", "kothmtx", "bannermtx",
          "setmtx", "billmtx", "lvlmtx", "hashmtx", "conn_bigmtx", "olmtx"}

VARIABLES
    todo,   \* what is left of the section each thread is in
    held    \* the locks it holds, the latest first

vars == <<todo, held>>

----------------------------------------------------------------------------
(* Sections are put together from these.                                   *)

Holding(mode, lock, inner) ==
    <<[op |-> mode, lock |-> lock]>> \o inner \o <<[op |-> "release", lock |-> lock]>>

Read(lock, inner)  == Holding("read", lock, inner)
Write(lock, inner) == Holding("write", lock, inner)
Mutex(lock, inner) == Holding("lock", lock, inner)

Nothing == <<>>
IfPersist(section) == IF HasPersist THEN section ELSE Nothing

\* Sections of parts that do not run are empty: they are none.
Real(sections) == sections \ {Nothing}

----------------------------------------------------------------------------
(* What many of them end in.                                               *)

\* net.c and, for chat clients, chatnet.c
SendToOne   == Mutex("olmtx", Nothing) \o Mutex("chat_bigmtx", Nothing)
SendToArena == Read("plock", Nothing) \o SendToOne

\* chat.c
SendArenaMessage == SendToArena

\* initiate_leave_arena is done when plock is released, the sending is not.
LeaveArena == Write("plock", Nothing) \o SendToArena

KickPlayer == Write("plock", LeaveArena)

\* mapdata.c
GetChecksum == Mutex("lvlmtx", Nothing)

----------------------------------------------------------------------------
(* player.c, core.c, arenaman.c                                            *)

\* NewPlayer, FreePlayer, run_newplayer_new, fail_login_with, PLogin, MLogin,
\* AuthDone, player_sync_done, NewConnection: they change the list or a status.
ChangePlayer == Write("plock", Nothing)

ProcessPlayerStates == Write("plock", Nothing)

CompleteGo == Write("arenalock", Write("plock", Nothing))

RecycleArena == Write("arenalock", Write("plock", SendToOne))

ReapArenas == Read("arenalock", Read("plock", Nothing))

ArenaSyncDone == Write("arenalock", Nothing)

Unhold == Write("arenalock", Nothing)

\* Mistaken variant: the map stays locked while its arena is released.
HoldMapLonger == Mutex("lvlmtx", Unhold)

\* mapdata.c: aaction_work
LoadMap == Mutex("lvlmtx", Nothing) \o Unhold

----------------------------------------------------------------------------
(* game.c, freqman.c                                                       *)

HandlePpk == Read("plock", SendToOne)

SetShipAndFreq == Mutex("freqshipmtx", Mutex("specmtx", Nothing))

SpecRequest == Mutex("specmtx", Read("plock", Nothing))    \* PidToPlayer

StopSpeccing == Mutex("specmtx", Read("plock", Nothing))   \* PA_LEAVEARENA

UpdateFreqs == Read("plock", Mutex("fm_mutex", Nothing))

FreqLeave == Read("plock", Mutex("fm_mutex", UpdateFreqs))

\* get_freq_metric takes both, in the other order.
BalancerAllowsChange == Mutex("fm_mutex", Read("plock", Mutex("fm_mutex", Nothing)))

----------------------------------------------------------------------------
(* The other modules.                                                      *)

FlagTouch == Mutex("flagmtx", Mutex("flagmtx", SendToArena))

FlagCleanup == Mutex("flagmtx", Mutex("flagmtx", SendToArena))

BallGoal == Mutex("ballmtx", Mutex("ballmtx", SendToArena \o SendArenaMessage))

BallTimer == Read("arenalock", Mutex("ballmtx", SendToArena))

CheckKoth == Mutex("kothmtx", Read("plock", Nothing) \o SendArenaMessage)

KothKill == Mutex("kothmtx", SendToArena)

SetBanner == Mutex("bannermtx", SendToArena)

BannersEnter == Mutex("bannermtx", SendToArena \o Read("plock", SendToOne))

GameTimer == Read("arenalock", SendArenaMessage)

\* billing_ssc.c: process_packet, for the answer to a login
BillerAnswers == Mutex("billmtx", Mutex("bannermtx", Nothing) \o Write("plock", Nothing))

\* drop_connection
BillerLost == SendArenaMessage \o Read("plock", Nothing)

BillerTimer == Mutex("billmtx", BillerLost)

----------------------------------------------------------------------------
(* security.c, without Security:SecurityKickoff, which is off unless it is  *)
(* configured: KickPlayer is not called.                                   *)

SecResponse == Mutex("secmtx", Nothing)

SendTimer ==
    Mutex("secmtx", Read("arenalock", GetChecksum) \o Read("plock", Mutex("setmtx", Nothing))
                    \o SendToOne)

CheckTimer == Mutex("secmtx", Read("plock", Nothing))

----------------------------------------------------------------------------
(* ProcessArenaStates and the callbacks and modules it calls.              *)

PersistArenaAction == IfPersist(Mutex("dbmtx", Nothing))

\* The modules that register data do it when they are attached.
DoAttach == Mutex("modmtx", IfPersist(Mutex("dbmtx", Nothing)))

ArenaCreated ==
    Write("arenalock",
          DoAttach \o PersistArenaAction \o Mutex("flagmtx", Nothing) \o Mutex("ballmtx", Nothing)
          \o Mutex("setmtx", Nothing) \o Mutex("fm_mutex", Nothing))

ArenaWritten == Write("arenalock", Read("plock", Nothing))

\* DetachAllFromArena, and the functions that wait in the main loop
ArenaDestroyed ==
    Write("arenalock", Mutex("modmtx", Nothing) \o ChangePlayer)

ArenaConfChanged ==
    Read("arenalock",
         PersistArenaAction \o Mutex("ballmtx", Nothing)
         \o Mutex("setmtx", Read("plock", SendToOne)) \o Mutex("fm_mutex", Mutex("fm_mutex", Nothing)))

----------------------------------------------------------------------------
(* persist.c: DBThread.                                                    *)

StoreAll == Mutex("dbmtx", Read("plock", Nothing) \o Read("arenalock", Nothing))

EndInterval == Mutex("dbmtx", Read("plock", Nothing) \o Read("arenalock", Nothing))

----------------------------------------------------------------------------
(* net.c: the other threads.                                               *)

SendOutgoing == Read("plock", Mutex("olmtx", Nothing))

ProcessLagouts ==
    Read("plock", Mutex("olmtx", Nothing) \o Mutex("conn_bigmtx", Nothing) \o Mutex("hashmtx", Nothing))

QueueMoreData == Read("plock", Mutex("olmtx", Nothing) \o Mutex("olmtx", Nothing))

ProcessPresize == Mutex("conn_bigmtx", Nothing)

NewConnection == Mutex("hashmtx", Nothing)

----------------------------------------------------------------------------
(* chatnet.c runs the handlers of chat clients' messages within its locks, *)
(* and module.c loads and unloads modules within its own.                  *)

ChatMessage(handler) == Write("plock", Mutex("chat_bigmtx", handler))

UnloadModule == Mutex("modmtx", Write("arenalock", Nothing))

----------------------------------------------------------------------------
\* Whatever clients of either kind can ask for.
Handlers ==
    {ChangePlayer, CompleteGo, RecycleArena, LeaveArena, SetShipAndFreq, SpecRequest,
     BalancerAllowsChange, UnloadModule, SendToArena}

MainSections ==
    {ProcessPlayerStates, ArenaSyncDone, ReapArenas, StopSpeccing, FreqLeave, UpdateFreqs,
     FlagCleanup, BallTimer, CheckKoth, BannersEnter, GameTimer, BillerTimer, SendTimer,
     CheckTimer, ArenaCreated, ArenaWritten, ArenaDestroyed, ArenaConfChanged, QueueMoreData,
     HandlePpk, FlagTouch, BallGoal, KothKill, SetBanner, BillerAnswers, SecResponse}
    \cup Handlers \cup {ChatMessage(handler) : handler \in Handlers}

\* What the threads of net.c do themselves: connections, drops, sized packets.
NetSections == {KickPlayer, BillerLost, ProcessPresize}

RecvSections == NetSections \cup {ChangePlayer, NewConnection}

RelSections == NetSections

SendSections == {SendOutgoing, ProcessLagouts, KickPlayer, ChangePlayer, BillerLost}

\* RunInThread
WorkerSections == {LoadMap, Unhold}

DBSections == {IfPersist(section) : section \in {StoreAll, EndInterval}}

SectionsOf(t) ==
    Real(CASE t = "main" -> MainSections
           [] t = "recv" -> RecvSections
           [] t = "rel"  -> RelSections
           [] t = "send" -> SendSections
           [] t = "db"   -> DBSections
           [] t = "worker" -> WorkerSections)

----------------------------------------------------------------------------
Holds(t, mode, lock) ==
    \E i \in DOMAIN held[t] : held[t][i] = [op |-> mode, lock |-> lock]

\* Those that keep t from taking this step.  Readers of rwlock.c do not wait for
\* writers that wait; one who reads and does not write cannot write, and one who
\* holds a mutex that is not recursive cannot take it.
Blockers(t, step) ==
    {u \in Threads :
        CASE step.op = "read" -> u # t /\ Holds(u, "write", step.lock)
          [] step.op = "write" ->
                \/ u # t /\ (Holds(u, "write", step.lock) \/ Holds(u, "read", step.lock))
                \/ u = t /\ Holds(t, "read", step.lock) /\ ~Holds(t, "write", step.lock)
          [] step.op = "lock" ->
                Holds(u, "lock", step.lock) /\ (u # t \/ step.lock \in Plain)}

Init ==
    /\ todo = [t \in Threads |-> <<>>]
    /\ held = [t \in Threads |-> <<>>]

Enter(t) ==
    /\ todo[t] = <<>>
    /\ \E section \in SectionsOf(t) : todo' = [todo EXCEPT ![t] = section]
    /\ UNCHANGED held

\* How many locks it gives back before it takes the next one.
Releases(steps) ==
    CHOOSE n \in 0 .. Len(steps) :
        /\ \A i \in 1 .. n : steps[i].op = "release"
        /\ n < Len(steps) => steps[n + 1].op # "release"

\* t takes a lock, and gives back what it does not need any more: it waits for
\* nobody to do so, so it may as well be at once.
Advance(t) ==
    /\ todo[t] # <<>>
    /\ LET step == Head(todo[t])
           n    == Releases(Tail(todo[t]))
       IN  /\ Blockers(t, step) = {}
           /\ held' = [held EXCEPT ![t] = SubSeq(<<step>> \o @, n + 1, Len(@) + 1)]
           /\ todo' = [todo EXCEPT ![t] = SubSeq(@, n + 2, Len(@))]

Next == \E t \in Threads : Enter(t) \/ Advance(t)

Spec == Init /\ [][Next]_vars

----------------------------------------------------------------------------
(* Properties.                                                             *)

Steps == [op : {"read", "write", "lock", "release"}, lock : RWLocks \cup Recursive \cup Plain]

\* Whatever a section takes it gives back.
TypeOK ==
    /\ todo \in [Threads -> Seq(Steps)]
    /\ held \in [Threads -> Seq(Steps)]
    /\ \A t \in Threads : todo[t] = <<>> => held[t] = <<>>

Waits(t) == todo[t] # <<>> /\ Blockers(t, Head(todo[t])) # {}

\* No threads wait for each other in a circle, none for itself, whatever
\* sections they are in (doc/asss-threading.txt: "Acquire locks in this order to
\* avoid deadlock").
NoDeadlock ==
    \A S \in SUBSET Threads \ {{}} :
        \E t \in S : ~Waits(t) \/ Blockers(t, Head(todo[t])) \cap S = {}

=============================================================================
