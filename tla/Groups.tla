-------------------------------- MODULE Groups --------------------------------
(***************************************************************************)
(* capman.c, and the commands of playercmd.c that change groups: in which  *)
(* group a player is while he is in an arena, where the group is from, and *)
(* what staff.conf says of it.  (Bounds: staff.conf is changed by these    *)
(* commands only; the target of a command is in an arena; all players have *)
(* been authenticated by name.)                                            *)
(***************************************************************************)
EXTENDS Clients

VARIABLES
    staff,     \* staff.conf: the group by scope, an arena or "global", and name
    group,     \* pdata->group
    source,    \* pdata->source, where it is from
    inarena    \* the arena of each player

groupvars == <<staff, group, source, inarena>>

Scopes == conf.arenas \cup {"global"}

GroupsInit ==
    /\ staff = [s \in Scopes |-> [p \in Players |-> IF s = "global" /\ p \in conf.staff THEN "smod" ELSE "unset"]]
    /\ group = [p \in Players |-> "none"] /\ source = [p \in Players |-> "default"]
    /\ inarena = [p \in Players |-> "nowhere"]

\* What update_group finds: the arena's entry comes first, whatever it is.
Entry1(n, p) ==
    IF staff[n][p] # "unset" THEN [group |-> staff[n][p], source |-> "arena"]
    ELSE IF staff["global"][p] # "unset" THEN [group |-> staff["global"][p], source |-> "global"]
    ELSE [group |-> "default", source |-> "default"]

Assigned(p, g, s) == group' = [group EXCEPT ![p] = g] /\ source' = [source EXCEPT ![p] = s]

\* paction: PA_PREENTERARENA; PA_LEAVEARENA, after which source keeps what it was.
GroupsArrive(p) ==
    \E n \in conf.arenas :
        /\ inarena' = [inarena EXCEPT ![p] = n] /\ Assigned(p, Entry1(n, p).group, Entry1(n, p).source)
        /\ UNCHANGED staff
GroupsLeave(p) ==
    /\ group' = [group EXCEPT ![p] = "none"] /\ inarena' = [inarena EXCEPT ![p] = "nowhere"]
    /\ UNCHANGED <<staff, source>>

\* HasCapability(p, "higher_than_..."), as groupdef.conf has it.
HigherThan(p, g) == <<group[p], g>> \in {<<"smod", "mod">>, <<"smod", "default">>, <<"mod", "default">>}

\* SetPermGroup.
SetPermGroup(t, g, global) ==
    /\ Assigned(t, g, IF global THEN "global" ELSE "arena")
    /\ staff' = [staff EXCEPT ![IF global THEN "global" ELSE inarena[t]][t] = g]
    /\ UNCHANGED inarena

\* Mistaken variant of the next: where the group is from stays as it was.
KeepsSource(t, g) == group' = [group EXCEPT ![t] = g] /\ UNCHANGED <<staff, source, inarena>>

SetTempGroup(t, g) == Assigned(t, g, "temp") /\ UNCHANGED <<staff, inarena>>

\* Csetgroup: by one who is above that group, for one who is in the default group.
Csetgroup(p, t, g) ==
    /\ HigherThan(p, g) /\ group[t] = "default"
    /\ SetTempGroup(t, g) \/ \E global \in BOOLEAN : SetPermGroup(t, g, global)

\* RemoveGroup: the entry that the group is from, if there is one, becomes the default group.
RemoveGroup(t) ==
    /\ group' = [group EXCEPT ![t] = "default"]
    /\ staff' = CASE source[t] = "arena" -> [staff EXCEPT ![inarena[t]][t] = "default"]
                  [] source[t] = "global" -> [staff EXCEPT !["global"][t] = "default"]
                  [] source[t] \in {"default", "temp"} -> staff
    /\ UNCHANGED <<source, inarena>>

Crmgroup(p, t) == HigherThan(p, group[t]) /\ RemoveGroup(t)

\* Cgrplogin: who knows the password of a group is in it for the session.
Cgrplogin(p) == \E g \in conf.passwords : SetTempGroup(p, g)

GroupsStep ==
    \E p \in Playing :
        \/ Cgrplogin(p)
        \/ \E t \in Playing : Crmgroup(p, t) \/ \E g \in {"mod", "smod"} : Csetgroup(p, t, g)
-----------------------------------------------------------------------------
\* A group that was not given for the session only is the one he will have when he enters
\* the arena again, and a group that was taken away stays away where it was valid; unless
\* the arena has an entry of its own, which hides a global group that is given later.
PermanentGroupsStay ==
    \A p \in Playing :
        source[p] = "temp" \/ (source[p] = "global" /\ staff[inarena[p]][p] # "unset")
          \/ group[p] = Entry1(inarena[p], p).group

\* However groups are given and taken, nobody gets the highest one who did not have it, for
\* a group can only be given by somebody above it.
NobodyRises ==
    \A p \in Players \ conf.staff : group[p] # "smod" /\ \A s \in Scopes : staff[s][p] # "smod"

GroupsAreEarned == Has("groups") => PermanentGroupsStay /\ NobodyRises
=============================================================================
