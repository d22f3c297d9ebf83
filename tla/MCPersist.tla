----------------------------- MODULE MCPersist ------------------------------
(***************************************************************************)
(* Persist on a few players, arenas and descriptors.                       *)
(***************************************************************************)
EXTENDS Persist

CONSTANTS p1, p2, a1, a2, public

OneGroup == [a \in Arenas |-> public]

Descriptor(key, scope, interval) == [key |-> key, scope |-> scope, interval |-> interval]

NoData      == {}
GlobalReset == {Descriptor(1, "global", "reset")}
Stats       == {Descriptor(1, "allarenas", "reset"), Descriptor(2, "global", "forever")}
Jackpot     == {Descriptor(3, "allarenas", "game")}

\* The intervals that end in each run.
ResetAndGame == {<<public, "reset">>, <<a1, "game">>}
GlobalEnds   == {<<Global, "reset">>}
=============================================================================
