-------------------------------- MODULE Koth ---------------------------------
(***************************************************************************)
(* King of the hill (koth.c).                                              *)
(***************************************************************************)
EXTENDS Game

VARIABLES
    crown,      \* pdata->crown
    hadCrown,   \* pdata->hadcrown
    crownDeaths,\* pdata->deaths
    crownKills  \* pdata->crownkills

kothvars == <<crown, hadCrown, crownDeaths, crownKills>>

Contestants == {p \in Playing : InShip(p)}

\* start_koth.
StartKoth ==
    /\ crown' = (crown \ Playing) \cup Contestants
    /\ hadCrown' = (hadCrown \ Playing) \cup Contestants
    /\ crownDeaths' = [p \in Players |-> IF p \in Contestants THEN 0 ELSE crownDeaths[p]]
    /\ crownKills' = [p \in Players |-> IF p \in Contestants THEN 0 ELSE crownKills[p]]

\* check_koth, by its timer: when nobody wears a crown any more, those who lost
\* theirs since the last check have won; then hadcrown is what crown is.
CheckKoth ==
    /\ Attached("koth") /\ MayRun("main")
    /\ IF /\ Contestants \cap Humans \cap crown = {}
          /\ Cardinality(Contestants \cap Humans) >= conf.minPlaying
         THEN StartKoth
         ELSE /\ hadCrown' = (hadCrown \ Contestants) \cup (crown \cap Contestants)
              /\ UNCHANGED <<crown, crownDeaths, crownKills>>
    /\ UNCHANGED <<conf, status, ship, freq, teamvars, gamevars, flagvars, queue, doing, crashed>>

\* Mistaken variant: the callback is not registered.
CrownStays(p) == UNCHANGED kothvars

\* paction on PA_ENTERARENA and PA_LEAVEARENA.
KothEnterLeave(p) ==
    /\ crown' = crown \ {p} /\ hadCrown' = hadCrown \ {p}
    /\ UNCHANGED <<crownDeaths, crownKills>>

\* shipfreqchange calls paction with action 0, which is neither of the two.
KothChange(p) == UNCHANGED kothvars

\* mykill.
KothKill(killer, killed) ==
    LET deaths1 == crownDeaths[killed] + 1
        left == IF killed \in crown /\ deaths1 > conf.deathCount THEN crown \ {killed} ELSE crown
        deathsNow == IF killed \in crown THEN [crownDeaths EXCEPT ![killed] = deaths1]
                     ELSE crownDeaths
        counts == killer \notin left /\ killed \in left /\ conf.recoverKills > 0
        kills == crownKills[killer] + 1
        recovers == counts /\ kills >= conf.recoverKills
        crowned == IF killer \in left \/ recovers THEN {killer} ELSE {}
    IN  /\ crown' = left \cup crowned
        /\ hadCrown' = hadCrown \cup crowned
        /\ crownDeaths' = IF recovers THEN [deathsNow EXCEPT ![killer] = 0] ELSE deathsNow
        /\ crownKills' = IF ~counts THEN crownKills
                         ELSE [crownKills EXCEPT ![killer] = IF recovers THEN 0 ELSE kills]

\* p_kothexpired: his client's timer has run out.
PKothExpired(p) ==
    /\ Attached("koth") /\ MayRun("net") /\ p \in crown \cap Humans \cap InArena
    /\ crown' = crown \ {p}
    /\ UNCHANGED <<conf, status, ship, freq, teamvars, gamevars, flagvars, hadCrown, crownDeaths,
                   crownKills, queue, doing, crashed>>

\* ?resetkoth.
ResetKoth ==
    /\ Attached("koth") /\ "resetkoth" \in conf.commands /\ MayRun("net")
    /\ StartKoth
    /\ UNCHANGED <<conf, status, ship, freq, teamvars, gamevars, flagvars, queue, doing, crashed>>

\* A Player struct that is allocated again has no crown.
KothNew(p) ==
    /\ crown' = crown \ {p} /\ hadCrown' = hadCrown \ {p}
    /\ crownDeaths' = [crownDeaths EXCEPT ![p] = 0]
    /\ crownKills' = [crownKills EXCEPT ![p] = 0]

KothInit ==
    /\ crown = {} /\ hadCrown = {}
    /\ crownDeaths = [p \in Players |-> 0] /\ crownKills = [p \in Players |-> 0]
=============================================================================
