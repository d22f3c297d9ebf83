------------------------------- MODULE Objects -------------------------------
(***************************************************************************)
(* The lvz objects of one arena, objects.c: what the server keeps of them, *)
(* and what each client has been told.  All of it runs in the main thread. *)
(* Of the attributes of an object one, its timer, matters to the rest.     *)
(***************************************************************************)
EXTENDS Clients

CONSTANTS
    Attrs,     \* the attributes of an object, "time" among them
    Values     \* what they may be; 0 stands for what the file says

ASSUME ObjectsAssumption ==
    /\ "time" \in Attrs /\ 0 \in Values
    /\ \A c \in Configs : c.objects \in Nat

VARIABLES
    lvz,         \* list: of each object, off and current
    togdiffs,    \* tog_diffs
    extdiffs,    \* ext_diffs
    view,        \* what each client shows
    ingame,      \* the players who have had PA_ENTERGAME
    private      \* the players who have been told something others have not

objvars == <<lvz, togdiffs, extdiffs, view, ingame, private>>

\* The objects of the arena's files.
LvzIds == 1 .. conf.objects
Default == [off |-> TRUE, current |-> [a \in Attrs |-> 0]]
Fresh == [o \in LvzIds |-> Default]

Differs(o) == lvz[o].current # Default.current

ObjectsInit ==
    /\ lvz = Fresh /\ togdiffs = 0 /\ extdiffs = 0
    /\ view = [p \in Players |-> Fresh] /\ ingame = {} /\ private = {}

\* net->SendToArena, a packet that makes of object o what Change says.
Shown(o, Change(_)) == view' = [p \in Players |-> IF p \in Playing THEN [view[p] EXCEPT ![o] = Change(@)]
                                                                     ELSE view[p]]

----------------------------------------------------------------------------

\* Mistaken variant: what is on is not counted again when it goes off.
OnlyOn(o, on) ==
    IF lvz[o].current["time"] = 0
      THEN /\ lvz' = [lvz EXCEPT ![o].off = ~on]
           /\ togdiffs' = IF ~on /\ ~lvz[o].off THEN togdiffs - 1 ELSE togdiffs
           /\ Shown(o, LAMBDA v : [v EXCEPT !.off = ~on])
      ELSE UNCHANGED <<lvz, togdiffs, view>>

\* Toggle, and ToggleSet for each of its objects, to the arena; PBroadcast of a bot who
\* toggles one.  An object with a timer is shown for its time.
ToggleObject(o, on) ==
    IF lvz[o].current["time"] = 0
      THEN /\ lvz' = [lvz EXCEPT ![o].off = ~on]
           /\ togdiffs' = CASE on /\ lvz[o].off -> togdiffs + 1
                            [] ~on /\ ~lvz[o].off -> togdiffs - 1
                            [] OTHER -> togdiffs
           /\ Shown(o, LAMBDA v : [v EXCEPT !.off = ~on])
      ELSE UNCHANGED <<lvz, togdiffs, view>>

Toggle ==
    /\ \E o \in LvzIds, on \in BOOLEAN : ToggleObject(o, on)
    /\ UNCHANGED <<conf, clientvars, extdiffs, ingame, private>>

\* Bound: nobody sets the timer of an object that is on.
MaySet(o, attr) == attr = "time" => lvz[o].off

\* Move, Image, Layer, Timer, Mode, to the arena.
Extended(o, attr, value) ==
    LET after == [lvz[o].current EXCEPT ![attr] = value]
    IN  /\ lvz' = [lvz EXCEPT ![o].current = after]
        /\ extdiffs' = CASE after # Default.current /\ ~Differs(o) -> extdiffs + 1
                         [] after = Default.current /\ Differs(o) -> extdiffs - 1
                         [] OTHER -> extdiffs
        /\ Shown(o, LAMBDA v : [v EXCEPT !.current[attr] = value])

Change ==
    /\ \E o \in LvzIds, attr \in Attrs, value \in Values :
          MaySet(o, attr) /\ Extended(o, attr, value)
    /\ UNCHANGED <<conf, clientvars, togdiffs, ingame, private>>

\* The same, and PBroadcast, to one player.
ToPlayer(p) ==
    /\ p \in ingame /\ private' = private \cup {p}
    /\ UNCHANGED <<conf, clientvars, lvz, togdiffs, extdiffs, view, ingame>>

\* PBroadcast of a bot that changes some attributes.  Bound (conf.restores): only to what
\* they are not in the file; such values are neither stored nor counted as the others are.
Rebroadcast(o, attrs, value) ==
    LET changing == \E a \in attrs : value[a] # 0
    IN  /\ lvz' = [lvz EXCEPT ![o].current =
                      [a \in Attrs |-> IF a \in attrs /\ value[a] # 0 THEN value[a] ELSE @[a]]]
        /\ extdiffs' = CASE changing /\ ~Differs(o) -> extdiffs + 1
                         [] ~changing /\ Differs(o) -> extdiffs - 1
                         [] OTHER -> extdiffs
        /\ Shown(o, LAMBDA v : [v EXCEPT !.current =
                      [a \in Attrs |-> IF a \in attrs THEN value[a] ELSE @[a]]])

PBroadcast ==
    /\ Playing # {}
    /\ \E o \in LvzIds, attrs \in (SUBSET Attrs) \ {{}}, value \in [Attrs -> Values] :
          /\ \A a \in attrs : MaySet(o, a) /\ (conf.restores \/ value[a] # 0)
          /\ Rebroadcast(o, attrs, value)
    /\ UNCHANGED <<conf, clientvars, togdiffs, ingame, private>>

----------------------------------------------------------------------------
(* Players.                                                                *)

\* He loads the files of the arena.
ObjectsArrive(p) ==
    /\ view' = [view EXCEPT ![p] = Fresh]
    /\ UNCHANGED <<lvz, togdiffs, extdiffs, ingame, private>>

\* SendState: two packets as long as the counts say; it stops where one of them is full.
UpTo(o, Some(_)) == Cardinality({i \in 1 .. o : Some(i)})
On(o) == ~lvz[o].off
ExtFits(o) == Differs(o) => UpTo(o, Differs) <= extdiffs
TogFits(o) == On(o) => UpTo(o, On) <= togdiffs
Reached(o) == \A i \in 1 .. o - 1 : ExtFits(i) /\ TogFits(i)

SendState(p) ==
    view' = [view EXCEPT ![p] = [o \in LvzIds |->
        [off |-> IF On(o) /\ Reached(o) /\ ExtFits(o) /\ TogFits(o) THEN FALSE ELSE view[p][o].off,
         current |-> [a \in Attrs |->
            IF lvz[o].current[a] # 0 /\ Reached(o) /\ ExtFits(o) THEN lvz[o].current[a]
                                                                ELSE view[p][o].current[a]]]]]

\* PA_ENTERGAME, with his first position.
EnterGame(p) ==
    /\ phase[p] = "playing" /\ p \notin ingame /\ ingame' = ingame \cup {p} /\ SendState(p)
    /\ UNCHANGED <<conf, clientvars, lvz, togdiffs, extdiffs, private>>

ObjectsLeave(p) ==
    /\ ingame' = ingame \ {p} /\ private' = private \ {p}
    /\ UNCHANGED <<lvz, togdiffs, extdiffs, view>>

\* AA_DESTROY and AA_CREATE again: the list is read anew, in a thread, while the arena is
\* held, and the counts stay as they are.  Bound: on the counts.
Recycle ==
    /\ InArena = {} /\ lvz # Fresh /\ togdiffs + extdiffs < conf.diffs
    /\ lvz' = Fresh
    /\ UNCHANGED <<conf, clientvars, togdiffs, extdiffs, view, ingame, private>>

ObjectsStep ==
    \/ Toggle \/ Change \/ PBroadcast \/ Recycle
    \/ \E p \in Players : ToPlayer(p) \/ EnterGame(p)

----------------------------------------------------------------------------
(* Properties.                                                             *)

\* Who has entered the game sees the objects as the arena has them, whether he was there
\* when they changed, came after, or was on his way: the packets of SendState have room
\* for all that differs, although counts that survive the arena say how much that is.
EntrantsSeeTheArena == Has("objects") => \A p \in (Playing \cap ingame) \ private : view[p] = lvz
=============================================================================
