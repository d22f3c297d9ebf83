----------------------------- MODULE PlayerData -----------------------------
(***************************************************************************)
(* player.c: allocation and release of the Player structs, kicking and     *)
(* finding players.                                                        *)
(***************************************************************************)
EXTENDS ArenaMan

\* NewPlayer, and the S_CONNECTED that NewConnection (net.c) and try_accept
\* (chatnet.c) set at once.  The struct is zeroed, and comes on the player
\* list when main gets to run_newplayer_new.
NewConnection(p) ==
    /\ p \in Players \ Chat \/ MainFree
    /\ stage[p] = "none"
    /\ stage' = [stage EXCEPT ![p] = "new"]
    /\ status' = [status EXCEPT ![p] = "connected"]
    /\ mainq' = Append(mainq, MainMsg("newplayer_new", p, NoArena))
    /\ UNCHANGED <<whenloggedin, arena, newarena, leaveflag, name, cvars, avars,
                   tvars, authq, dbq, gvars>>

\* Mistaken variant: does not wait for S_TIMEWAIT.
FreeEarly(p) ==
    /\ p \in Players \ Chat \/ MainFree
    /\ p \in Listed
    /\ status[p] \in OutStatuses
    /\ stage' = [stage EXCEPT ![p] = "freeing"]
    /\ mainq' = Append(mainq, MainMsg("newplayer_free", p, NoArena))
    /\ UNCHANGED <<status, whenloggedin, arena, newarena, leaveflag, name, cvars,
                   avars, tvars, authq, dbq, gvars>>

\* FreePlayer, which SendThread (net.c, process_lagouts) and do_one_iter
\* (chatnet.c) call for a player in S_TIMEWAIT.
FreePlayer(p) ==
    /\ p \in Players \ Chat \/ MainFree
    /\ p \in Listed
    /\ status[p] = "timewait"
    /\ stage' = [stage EXCEPT ![p] = "freeing"]
    /\ mainq' = Append(mainq, MainMsg("newplayer_free", p, NoArena))
    /\ UNCHANGED <<status, whenloggedin, arena, newarena, leaveflag, name, cvars,
                   avars, tvars, authq, dbq, gvars>>

\* What remains of a freed Player struct: the next NewPlayer finds zeroes.
ForgetPlayer(p) ==
    /\ stage' = [stage EXCEPT ![p] = "none"]
    /\ status' = [status EXCEPT ![p] = "uninitialized"]
    /\ whenloggedin' = whenloggedin \ {p}
    /\ arena' = [arena EXCEPT ![p] = NoArena]
    /\ newarena' = [newarena EXCEPT ![p] = NoArena]
    /\ leaveflag' = leaveflag \ {p}
    /\ name' = [name EXCEPT ![p] = NoName]
    /\ gsync' = gsync \ {p} /\ async' = async \ {p}
    /\ gcallbacks' = gcallbacks \ {p}
    /\ replacedBy' = [replacedBy EXCEPT ![p] = NoPlayer]

\* KickPlayer: LeaveArena within one critical section of the player lock.
Kick(K) ==
    /\ InitiateLeaveArena(InArena(K))
    /\ whenloggedin' = whenloggedin \cup K

\* A lagout, a disconnect, a dropped connection or a command: any thread.  RecvThread
\* finds game clients by their address before they are on the player list.
KickPlayer(p) ==
    /\ \/ p \in Listed
       \/ stage[p] = "new" /\ p \notin Chat
    /\ Kick({p})
    /\ UNCHANGED <<stage, arena, newarena, name, cvars, avars, tvars, qvars, gvars>>

\* FindPlayer: not "players who are on their way out".
FindPlayer(n) ==
    {q \in Listed : name[q] = n /\ status[q] \notin OutStatuses /\ q \notin whenloggedin}
=============================================================================
