------------------------------- MODULE Clients -------------------------------
(***************************************************************************)
(* The players as the services of a zone meet them: which of core's        *)
(* callbacks each has been through.  Zone has their states in full; here   *)
(* a state stands for all of those between two callbacks.                  *)
(***************************************************************************)
EXTENDS Naturals, Integers, Sequences, FiniteSets, SequencesExt

CONSTANTS
    Players,   \* the Player structs: each is used, freed and used again
    Configs,   \* which services a zone has, and their settings
    NoPlayer

ASSUME ClientsAssumption ==
    /\ NoPlayer \notin Players
    /\ \A c \in Configs : c.players \subseteq Players

VARIABLES
    conf,      \* the configuration of this zone, which stays
    phase,     \* where each player is
    going,     \* the players with whenloggedin = S_LEAVING_ZONE
    known      \* the players who have had PA_CONNECT, hasdonegcallbacks

clientvars == <<phase, going, known>>

(* "free"       the struct is not in use                                   *)
(* "connected"  S_CONNECTED                                                *)
(* "waiting"    S_WAIT_AUTH: the authenticator has been asked              *)
(* "accepted"   S_NEED_GLOBAL_SYNC up to PA_CONNECT                        *)
(* "loggedin"   S_LOGGEDIN, and on the way into an arena                   *)
(* "arriving"   S_PLAYING, before PA_ENTERARENA is called                  *)
(* "playing"    S_PLAYING                                                  *)
(* "leaving"    S_LEAVING_ARENA, before PA_LEAVEARENA is called            *)
(* "timewait"   S_TIMEWAIT, after PA_DISCONNECT                            *)
Phases == {"free", "connected", "waiting", "accepted", "loggedin", "arriving", "playing",
           "leaving", "timewait"}

Has(service) == service \in conf.on

Playing == {p \in Players : phase[p] \in {"arriving", "playing"}}
InArena == {p \in Players : phase[p] \in {"arriving", "playing", "leaving"}}

Goes(p, to) == phase' = [phase EXCEPT ![p] = to]

\* Bound: when only arenas matter, all are in the zone and stay.
ClientsInit ==
    /\ conf \in Configs
    /\ phase = [p \in Players |-> IF conf.stay THEN "loggedin" ELSE "free"]
    /\ going = {} /\ known = IF conf.stay THEN Players ELSE {}

\* NewPlayer.
Connects(p) ==
    /\ phase[p] = "free" /\ Goes(p, "connected")
    /\ UNCHANGED <<conf, going, known>>

\* AuthDone; nothing happens to one who is not asked about.
AuthDone(p, ok) ==
    IF phase[p] = "waiting" THEN Goes(p, IF ok THEN "accepted" ELSE "connected")
                            ELSE UNCHANGED phase

\* KickPlayer, which takes him out of the arena, too; PA_ENTERARENA comes first.
KickPlayer(p) ==
    /\ going' = going \cup {p}
    /\ phase' = [phase EXCEPT ![p] = IF @ = "playing" THEN "leaving" ELSE @]

\* He disconnects, or is kicked by somebody.
Departs(p) ==
    /\ ~conf.stay /\ phase[p] \notin {"free", "timewait"} /\ p \notin going
    /\ KickPlayer(p) /\ UNCHANGED <<conf, known>>

\* PA_CONNECT, for somebody who is let in.
ConnectCallbacks(p) ==
    /\ phase[p] = "accepted" /\ Goes(p, "loggedin")
    /\ known' = known \cup {p} /\ UNCHANGED <<conf, going>>

\* He asks for the arena, and is put into S_PLAYING.
Arrives(p) ==
    /\ phase[p] = "loggedin" /\ p \notin going /\ Goes(p, "arriving")
    /\ UNCHANGED <<conf, going, known>>

\* PA_ENTERARENA.
EnterCallbacks(p) ==
    /\ phase[p] = "arriving" /\ Goes(p, IF p \in going THEN "leaving" ELSE "playing")
    /\ UNCHANGED <<conf, going, known>>

\* LeaveArena.
Leaves(p) ==
    /\ phase[p] = "playing" /\ Goes(p, "leaving") /\ UNCHANGED <<conf, going, known>>

\* PA_LEAVEARENA.
LeaveCallbacks(p) ==
    /\ phase[p] = "leaving" /\ Goes(p, "loggedin") /\ UNCHANGED <<conf, going, known>>

\* whenloggedin is looked at in S_CONNECTED and S_LOGGEDIN only; PA_DISCONNECT is for
\* those who have had PA_CONNECT.
Disconnects(p) ==
    /\ p \in going /\ phase[p] \in {"connected", "loggedin"} /\ Goes(p, "timewait")
    /\ going' = going \ {p} /\ known' = known \ {p} /\ UNCHANGED conf

\* FreePlayer, by the network thread.
Freed(p) ==
    /\ phase[p] = "timewait" /\ Goes(p, "free") /\ UNCHANGED <<conf, going, known>>
=============================================================================
