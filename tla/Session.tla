------------------------------ MODULE Session ------------------------------
(***************************************************************************)
(* What core promises to the modules about each player (the comments of    *)
(* the status codes in player.h and of PA_CONNECT ... PA_DISCONNECT): his  *)
(* global data are in memory before he connects, his arena data before he  *)
(* enters an arena; he leaves it before his arena data are saved, and      *)
(* disconnects, outside of every arena and with his arena data saved,      *)
(* before his global data are saved.  Nothing is saved that was not read.  *)
(***************************************************************************)
CONSTANTS Players, HasPersist

VARIABLES
    told,    \* what CB_PLAYERACTION has told the modules
    loaded   \* the scopes that were read from the database and not yet saved

vars == <<told, loaded>>

Init ==
    /\ told = [p \in Players |-> "out"]
    /\ loaded = [p \in Players |-> {}]

InMemory(p, scope) == HasPersist => scope \in loaded[p]

Read(p, scope) ==
    /\ scope \notin loaded[p]
    /\ loaded' = [loaded EXCEPT ![p] = @ \cup {scope}]
    /\ UNCHANGED told

Save(p, scope) ==
    /\ scope \in loaded[p]
    /\ loaded' = [loaded EXCEPT ![p] = @ \ {scope}]
    /\ UNCHANGED told

Tell(p, from, to) ==
    /\ told[p] = from
    /\ told' = [told EXCEPT ![p] = to]
    /\ UNCHANGED loaded

ReadGlobal(p) == told[p] = "out" /\ Read(p, "global")
Connect(p)    == InMemory(p, "global") /\ Tell(p, "out", "connected")
ReadArena(p)  == told[p] = "connected" /\ Read(p, "arena")
Enter(p)      == InMemory(p, "arena") /\ Tell(p, "connected", "entered")
Leave(p)      == Tell(p, "entered", "connected")
SaveArena(p)  == told[p] = "connected" /\ Save(p, "arena")
Disconnect(p) == "arena" \notin loaded[p] /\ Tell(p, "connected", "out")
SaveGlobal(p) == told[p] = "out" /\ Save(p, "global")

Next ==
    \E p \in Players :
        \/ ReadGlobal(p) \/ Connect(p) \/ ReadArena(p) \/ Enter(p)
        \/ Leave(p) \/ SaveArena(p) \/ Disconnect(p) \/ SaveGlobal(p)

Spec == Init /\ [][Next]_vars
=============================================================================
