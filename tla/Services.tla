------------------------------ MODULE Services -------------------------------
(***************************************************************************)
(* Players come and go, and the services of their zone follow.             *)
(***************************************************************************)
EXTENDS Billing, Transfers, Recorder, Objects, TurfReward, Bricks, Config, Peer, Stats, Groups

vars == <<conf, clientvars, billvars, transvars, recvars, objvars, turfvars, mapvars, brickvars, configvars,
          peervars, statvars, groupvars>>

Init == ClientsInit /\ BillingInit /\ TransfersInit /\ RecorderInit /\ ObjectsInit /\ TurfInit /\ MapInit /\ BricksInit /\ ConfigInit
        /\ PeerInit /\ StatsInit /\ GroupsInit

\* The authenticator is asked; it answers at once when there is no biller.
Login(p) ==
    /\ phase[p] = "connected" /\ p \notin going /\ p \notin bigs
    /\ CASE Has("billing") /\ Ssc -> Quiet /\ SscAuthenticate(p)
         [] Has("billing") /\ ~Ssc -> Quiet /\ TextAuthenticate(p)
         [] OTHER -> Goes(p, "accepted") /\ UNCHANGED <<logindata, told, pending, out>>
    /\ UNCHANGED <<conf, going, known, bstate, linked, losing, answers, greeted, online, transvars, recvars,
                   objvars, turfvars, mapvars, brickvars, configvars, peervars, statvars, groupvars>>

\* The map is sent, and PA_ENTERARENA; PA_LEAVEARENA.
Arrive(p) ==
    /\ Arrives(p) /\ Room /\ Loaded /\ ObjectsArrive(p) /\ StatsArrive(p) /\ GroupsArrive(p)
    /\ UNCHANGED <<billvars, transvars, recvars, turfvars, mapvars, brickvars, configvars, peervars>>

Enter(p) ==
    /\ EnterCallbacks(p) /\ Records(p, "enter") /\ SendOldBricks(p) /\ StatsEnter(p)
    /\ UNCHANGED <<billvars, transvars, objvars, turfvars, configvars, peervars, groupvars>>

Leave(p) ==
    /\ LeaveCallbacks(p) /\ Records(p, "leave") /\ ObjectsLeave(p) /\ ForgetBricks(p) /\ StatsLeave(p)
    /\ GroupsLeave(p)
    /\ UNCHANGED <<billvars, transvars, turfvars, configvars, peervars>>

\* PA_DISCONNECT.
Disconnect(p) ==
    /\ Disconnects(p)
    /\ IF p \in known THEN BillingDisconnect(p) /\ TransfersDisconnect(p)
                      ELSE UNCHANGED <<billvars, transvars>>
    /\ UNCHANGED <<recvars, objvars, turfvars, mapvars, brickvars, configvars, peervars, statvars, groupvars>>

Free(p) == Freed(p) /\ BillingForgets(p) /\ TransfersFree(p) /\ UNCHANGED <<recvars, objvars, turfvars, mapvars, brickvars, configvars, peervars, statvars, groupvars>>

Coming(p) ==
    /\ Connects(p) \/ Departs(p) \/ ConnectCallbacks(p) \/ Leaves(p)
    /\ UNCHANGED <<billvars, transvars, recvars, objvars, turfvars, mapvars, brickvars, configvars, peervars, statvars, groupvars>>

Next ==
    \/ MainRuns /\ \E p \in conf.players :
           Login(p) \/ Arrive(p) \/ Enter(p) \/ Leave(p) \/ Disconnect(p) \/ Free(p) \/ Coming(p)
    \/ Has("billing") /\ BillingStep /\ UNCHANGED <<transvars, recvars, objvars, turfvars, mapvars, brickvars, configvars, peervars, statvars, groupvars>>
    \/ Has("files") /\ TransfersStep /\ UNCHANGED <<billvars, recvars, objvars, turfvars, mapvars, brickvars, configvars, peervars, statvars, groupvars>>
    \/ Has("record") /\ RecorderStep /\ UNCHANGED <<billvars, transvars, objvars, turfvars, mapvars, brickvars, configvars, peervars, statvars, groupvars>>
    \/ Has("objects") /\ ObjectsStep /\ UNCHANGED <<billvars, transvars, recvars, turfvars, mapvars, brickvars, configvars, peervars, statvars, groupvars>>
    \/ Has("turf") /\ TurfStep /\ UNCHANGED <<billvars, transvars, recvars, objvars, mapvars, brickvars, configvars, peervars, statvars, groupvars>>
    \/ MapStep /\ UNCHANGED <<conf, clientvars, billvars, transvars, recvars, objvars, turfvars, brickvars,
                              configvars, peervars, statvars, groupvars>>
    \/ Has("bricks") /\ BrickStep
       /\ UNCHANGED <<conf, clientvars, billvars, transvars, recvars, objvars, turfvars, configvars, peervars, statvars, groupvars>>
    \/ Has("config") /\ ConfigStep
       /\ UNCHANGED <<conf, clientvars, billvars, transvars, recvars, objvars, turfvars, mapvars, brickvars, peervars, statvars, groupvars>>
    \/ Has("peer") /\ PeerStep
       /\ UNCHANGED <<conf, clientvars, billvars, transvars, recvars, objvars, turfvars, mapvars, brickvars, configvars, statvars, groupvars>>
    \/ Has("stats") /\ StatsStep
       /\ UNCHANGED <<billvars, transvars, recvars, objvars, turfvars, mapvars, brickvars, configvars, peervars, groupvars>>
    \/ Has("groups") /\ GroupsStep
       /\ UNCHANGED <<conf, clientvars, billvars, transvars, recvars, objvars, turfvars, mapvars, brickvars, configvars, peervars, statvars>>

Spec == Init /\ [][Next]_vars
=============================================================================
