------------------------------- MODULE MCZone -------------------------------
(***************************************************************************)
(* Zone on small instances.                                                *)
(***************************************************************************)
EXTENDS Zone, TLC

\* Model values for the structs and for the arena names.
CONSTANTS p1, p2, a1, a2, n1, n2

\* Every permanent arena (there is at most one) is called n1.
MCPermName == [a \in PermArenas |-> n1]

\* Bound: of the two players and the two arenas, both players are about or both arenas are
\* busy, not all of them at once.  The permanent arena is always there; it counts as busy
\* when it does something.
Idle(a) ==
    /\ a \in PermArenas /\ astatus[a] = "running" /\ a \notin resurrect /\ holds[a] = 0
    /\ \A p \in Players : arena[p] # a /\ newarena[p] # a
Busy == {a \in Arenas : Exists(a) /\ ~Idle(a)}
Small == Cardinality(Allocated) <= 1 \/ Cardinality(Busy) <= 1
=============================================================================
