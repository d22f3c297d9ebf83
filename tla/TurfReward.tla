----------------------------- MODULE TurfReward ------------------------------
(***************************************************************************)
(* turf_reward.c of one arena, with the flags that fg_turf.py lets people  *)
(* tag, and the points of points_turf_reward.c: who held which flag for    *)
(* how many dings, who may recover what he lost, and who is rewarded.      *)
(* Statistics of the interval, messages and percentages are left out.      *)
(***************************************************************************)
EXTENDS Clients

CONSTANTS
    Fids,      \* the flags of the map
    TurfFreqs

NoFreq == -1

\* Frequencies are numbered; RecoverDings is a number of dings, and RecoverMax one of
\* recoveries or -1.
ASSUME TurfAssumption ==
    /\ IsFiniteSet(TurfFreqs) /\ TurfFreqs # {} /\ NoFreq \notin TurfFreqs
    /\ \A c \in Configs : c.recoverDings \in Nat /\ c.recoverMax \in Nat \cup {-1}

VARIABLES
    freqof,    \* p_freq
    owner,     \* the owner of each flag, as flagcore has it
    tflags,    \* ta->flags
    tteams,    \* ta->teams: of each frequency with a TurfTeam, its lists
    tplayers,  \* ta->players: of each frequency and name with a TurfPlayer, his flags, isActive
    twice      \* the players whom the last ding gave their points more than once

turfvars == <<freqof, owner, tflags, tteams, tplayers, twice>>

\* old, the list of those who may recover the flag, is a set: what becomes of an entry does
\* not depend on its place.
NoFlag == [team |-> NoFreq, tagger |-> NoPlayer, dings |-> 0, recovered |-> 0, old |-> {}]
NoTeam == [flags |-> {}, pts |-> <<>>]
NewTurfPlayer == [flags |-> {}, active |-> FALSE]

TurfInit ==
    /\ freqof = [p \in Players |-> CHOOSE f \in TurfFreqs : TRUE] /\ owner = [i \in Fids |-> NoFreq]
    /\ tflags = [i \in Fids |-> NoFlag] /\ tteams = <<>> /\ tplayers = <<>>
    /\ twice = {}

\* getTeamPtr and getTurfPlayerPtr, of all of who (frequencies and names), who are created
\* if they do not exist.
TeamsFor(who) ==
    LET freqs == {w[1] : w \in who}
    IN  [f \in DOMAIN tteams \cup freqs |-> IF f \in DOMAIN tteams THEN tteams[f] ELSE NoTeam]
TurfPlayersFor(who) ==
    [w \in DOMAIN tplayers \cup who |-> IF w \in DOMAIN tplayers THEN tplayers[w] ELSE NewTurfPlayer]

Me(p) == <<freqof[p], p>>

----------------------------------------------------------------------------

\* calcWeight by the number of dings; the last of the weights is for all that are longer.
Weight(dings) == conf.weights[1 + (IF dings < Len(conf.weights) THEN dings ELSE Len(conf.weights) - 1)]

\* Dings beyond the last weight make no difference.
Longer(dings) == IF dings < Len(conf.weights) THEN dings + 1 ELSE dings

\* Mistaken variant: an entry is looked for where the flag has not been lost to others.
NeverMatches(i, freq) == {}

\* The entry of old for this frequency.
Matches(i, freq) == {e \in tflags[i].old : e.freq = freq}

NewlyTagged == [dings |-> 0, recovered |-> -1]

\* flagTag: the flag changes lists, who loses it gets a chance to recover it, and who had
\* such a chance has his flag back as it was, or is too late.
FlagTag(p, i) ==
    LET flag == tflags[i]
        freq == freqof[p]
        chance == flag.team # NoFreq /\ (conf.recoverMax = -1 \/ flag.recovered < conf.recoverMax)
        lost == [freq |-> flag.team, dings |-> flag.dings, recovered |-> flag.recovered, lastOwned |-> 0]
        match == Matches(i, freq)
        old == flag.old \ match
        Moves(list, gains, loses) == IF gains THEN list \cup {i} ELSE IF loses THEN list \ {i} ELSE list
        teams == TeamsFor({Me(p)})
        people == TurfPlayersFor({Me(p)})
    IN  IF flag.team = freq THEN UNCHANGED <<tflags, tteams, tplayers>>
        ELSE /\ tteams' = [t \in DOMAIN teams |->
                              [teams[t] EXCEPT !.flags = Moves(@, t = freq, t = flag.team)]]
             /\ tplayers' = [w \in DOMAIN people |->
                              [people[w] EXCEPT !.flags = Moves(@, w = Me(p), w = <<flag.team, flag.tagger>>)]]
             /\ \E back \in IF match = {} THEN {NewlyTagged}
                            ELSE match \cup (IF conf.cutoff = "time" THEN {NewlyTagged} ELSE {}) :
                   tflags' = [tflags EXCEPT ![i] =
                      [team |-> freq, tagger |-> p, dings |-> back.dings, recovered |-> back.recovered + 1,
                       old |-> IF chance THEN old \cup {lost} ELSE old]]

\* FlagTouch of fg_turf.py, called with a flag that another team has.
TurfTag ==
    /\ \E p \in Players, i \in Fids :
          /\ phase[p] = "playing" /\ owner[i] # freqof[p]
          /\ owner' = [owner EXCEPT ![i] = freqof[p]] /\ FlagTag(p, i)
    /\ UNCHANGED <<conf, clientvars, freqof, twice>>

\* shipFreqChange.
TurfChange ==
    /\ \E p \in Players, freq \in TurfFreqs :
          /\ phase[p] = "playing" /\ freqof[p] # freq
          /\ freqof' = [freqof EXCEPT ![p] = freq]
          /\ tteams' = TeamsFor({<<freq, p>>}) /\ tplayers' = TurfPlayersFor({<<freq, p>>})
    /\ UNCHANGED <<conf, clientvars, owner, tflags, twice>>

\* killEvent.
TurfKill ==
    /\ \E p, q \in Players :
          /\ p # q /\ phase[p] = "playing" /\ phase[q] = "playing"
          /\ tteams' = TeamsFor({Me(p), Me(q)}) /\ tplayers' = TurfPlayersFor({Me(p), Me(q)})
    /\ UNCHANGED <<conf, clientvars, freqof, owner, tflags, twice>>

----------------------------------------------------------------------------
(* doReward, of which preCalc is the first part.                           *)

Eligible(t, eligible) == {p \in eligible : freqof[p] = t}

\* The players of the arena have their entries, the eligible are in the list of their team.
PreTeams(eligible) ==
    LET teams == TeamsFor({Me(p) : p \in InArena})
    IN  [t \in DOMAIN teams |-> [teams[t] EXCEPT !.pts = SetToSeq(Eligible(t, eligible)) \o @]]

PrePlayers ==
    LET here == {Me(p) : p \in InArena}
        people == TurfPlayersFor(here)
    IN  [w \in DOMAIN people |-> [people[w] EXCEPT !.active = @ \/ w \in here]]

\* Teams without players and flags go.
Linked(teams, people) ==
    Restrict(teams, {t \in DOMAIN teams : teams[t].flags # {} \/ \E w \in DOMAIN people : w[1] = t})

NumWeights(t) == FoldFunctionOnSet(+, 0, [i \in Fids |-> Weight(tflags[i].dings)],
                                   {i \in Fids : tflags[i].team = t})

Qualify(teams, eligible) ==
    {t \in DOMAIN teams : /\ Cardinality(Eligible(t, eligible)) >= conf.minPlayers
                          /\ teams[t].flags # {} /\ NumWeights(t) >= 1}

PerCapita(t, eligible) == NumWeights(t) \div Cardinality(Eligible(t, eligible))

\* CalcReward: crWeights, and crStandard, whose integer division may leave nobody anything;
\* then it neither awards nor updates.
Rewards(t, eligible) == IF conf.style = "weights" THEN NumWeights(t) ELSE PerCapita(t, eligible)
Succeeds(teams, eligible) ==
    conf.style = "weights" \/ \E t \in Qualify(teams, eligible) : PerCapita(t, eligible) > 0

\* awardPtsTeam: whoever a list of a valid team names gets its points, each time it does.
AwardedAgain(teams, eligible) ==
    LET paid == {t \in Qualify(teams, eligible) : Rewards(t, eligible) > 0}
        Times(t, p) == Cardinality({k \in DOMAIN teams[t].pts : teams[t].pts[k] = p})
    IN  {p \in Players : FoldFunctionOnSet(+, 0, [t \in paid |-> Times(t, p)], paid) > 1}

\* updateFlags: another ding for each flag, and for each chance to recover one.
UpdateFlags ==
    \E late \in IF conf.cutoff = "time" THEN SUBSET (Fids \X TurfFreqs) ELSE {{}} :
        tflags' = [i \in Fids |->
            LET flag == tflags[i]
                Stays(e) == IF conf.cutoff = "time" THEN <<i, e.freq>> \notin late
                                                    ELSE e.lastOwned + 1 <= conf.recoverDings
                Older(e) == [e EXCEPT !.lastOwned = IF conf.cutoff = "time" THEN 0 ELSE @ + 1]
            IN  [flag EXCEPT !.dings = IF flag.team # NoFreq THEN Longer(@) ELSE @,
                             !.old = {Older(e) : e \in {o \in flag.old : Stays(o)}}]]

\* Mistaken variant: who is not there is forgotten, whether he holds a flag or not.
Absent(people) == Restrict(people, {w \in DOMAIN people : people[w].active})

Remembered(people) ==
    Restrict(people, {w \in DOMAIN people : people[w].active \/ people[w].flags # {}})

\* Mistaken variant: the lists of those who get points stay.
ListsStay(teams) == teams

Emptied(teams) == [t \in DOMAIN teams |-> [teams[t] EXCEPT !.pts = <<>>]]

\* postRewardCleanup.
PostRewardCleanup(teams, people) ==
    LET stay == Remembered(people)
    IN  /\ tplayers' = [w \in DOMAIN stay |-> [stay[w] EXCEPT !.active = FALSE]]
        /\ tteams' = Linked(Emptied(teams), stay)
       

DoReward ==
    \E eligible \in SUBSET Playing :
        LET people == PrePlayers
            teams == Linked(PreTeams(eligible), people)
            met == Cardinality(InArena) >= conf.minArena /\ Qualify(teams, eligible) # {}
        IN  /\ IF met /\ Succeeds(teams, eligible)
                 THEN twice' = AwardedAgain(teams, eligible) /\ UpdateFlags
                 ELSE twice' = {} /\ UNCHANGED tflags
            /\ PostRewardCleanup(teams, people)

\* turfRewardTimer, ?forceding.
Ding ==
    /\ DoReward
    /\ UNCHANGED <<conf, clientvars, freqof, owner>>

----------------------------------------------------------------------------

\* flagGameReset.
TurfResetFlags ==
    /\ Playing # {} /\ owner' = [i \in Fids |-> NoFreq]
    /\ tflags' = [i \in Fids |-> NoFlag] /\ tteams' = <<>> /\ tplayers' = <<>>
    /\ UNCHANGED <<conf, clientvars, freqof, twice>>

\* FlagReset by somebody else (?flagreset), of which turf_reward is not told.
OthersReset ==
    /\ Playing # {} /\ owner' = [i \in Fids |-> NoFreq]
    /\ UNCHANGED <<conf, clientvars, freqof, tflags, tteams, tplayers, twice>>

\* AA_DESTROY, and AA_CREATE again; fg_turf restores the owners there were, or some of them.
TurfRecycle ==
    /\ InArena = {}
    /\ tflags' = [i \in Fids |-> NoFlag] /\ tteams' = <<>> /\ tplayers' = <<>>
    /\ UNCHANGED <<conf, clientvars, freqof, owner, twice>>

TurfStep == TurfTag \/ TurfChange \/ TurfKill \/ Ding \/ TurfResetFlags \/ OthersReset \/ TurfRecycle

----------------------------------------------------------------------------
(* Properties.                                                             *)

\* A flag is in the lists of its team and its tagger, who still exist, and in no others:
\* the records that a ding frees are those of people and teams no flag points to, however
\* tags, changes of frequency, kills, resets and dings follow each other.
TurfListsAgree ==
    /\ \A t \in DOMAIN tteams : tteams[t].flags = {i \in Fids : tflags[i].team = t}
    /\ \A w \in DOMAIN tplayers :
          /\ w[1] \in DOMAIN tteams
          /\ tplayers[w].flags = {i \in Fids : <<tflags[i].team, tflags[i].tagger>> = w}
    /\ \A i \in Fids : tflags[i].team # NoFreq => <<tflags[i].team, tflags[i].tagger>> \in DOMAIN tplayers

\* A frequency has at most one chance to recover a flag, none while it has the flag, none
\* for longer than RecoverDings, and none after RecoverMax recoveries (turf_reward.c:634).
OneChanceToRecover ==
    \A i \in Fids :
        LET flag == tflags[i]
        IN  /\ \A e, o \in flag.old : e.freq = o.freq => e = o
            /\ \A e \in flag.old : e.freq # flag.team /\ e.lastOwned <= conf.recoverDings
            /\ conf.recoverMax # -1 => flag.recovered <= conf.recoverMax

\* A ding gives everybody his points once, whatever the dings before it did with the lists.
RewardedOnce == twice = {}

\* However tags, kills, dings, resets and changes of team follow each other, the lists a ding
\* pays by are right, and so are the chances to recover a flag.
TurfRewards == Has("turf") => TurfListsAgree /\ OneChanceToRecover /\ RewardedOnce
=============================================================================
