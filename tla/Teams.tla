-------------------------------- MODULE Teams --------------------------------
(***************************************************************************)
(* The frequency manager (freqman.c) with its balancer, and the enforcers  *)
(* it asks (enf_*.c).                                                      *)
(***************************************************************************)
EXTENDS GameState, Functions

Nobody == [p \in Humans |-> 0]

Exists(f) == f \in DOMAIN teams

\* The players of a Freq struct are a list: someone may be in it twice.
Count(f) == IF Exists(f) THEN FoldFunction(LAMBDA a, b : a + b, 0, teams[f].players) ELSE 0

\* create_freq with refresh_freq: what the settings say now is kept in the struct.
NewTeam(f, c) == [players |-> Nobody, required |-> f < c.required,
                  remembered |-> f < c.remembered, balanced |-> f \in c.balanced]

\* Mistaken variant: it does not look whether the frequencies are empty.
PruneAll(ts, c) ==
    [f \in 0 .. c.remembered - 1 |->
        IF f \notin DOMAIN ts THEN NewTeam(f, c)
        ELSE [ts[f] EXCEPT !.required = @ /\ f < c.remembered]]

\* prune_freqs: empty frequencies go, those to be remembered are made.
Prune(ts, c) ==
    LET kept == {f \in DOMAIN ts : f < c.remembered \/ ts[f].players # Nobody}
    IN  [f \in kept \cup 0 .. c.remembered - 1 |->
            IF f \notin DOMAIN ts THEN NewTeam(f, c)
            ELSE [ts[f] EXCEPT !.required = @ /\ f < c.remembered]]

\* Mistaken variant: the struct goes as soon as one leaves who was alone when he came.
WithoutOthers(ts, p, f) ==
    IF ~ts[f].remembered THEN Restrict(ts, DOMAIN ts \ {f})
    ELSE [ts EXCEPT ![f].players[p] = IF @ > 0 THEN @ - 1 ELSE 0]

\* remove_player_from_freq: a list that is empty goes, unless it is remembered.
Without(ts, p, f) ==
    LET rest == [ts[f].players EXCEPT ![p] = IF @ > 0 THEN @ - 1 ELSE 0]
    IN  IF rest = Nobody /\ ~ts[f].remembered
          THEN Restrict(ts, DOMAIN ts \ {f})
          ELSE [ts EXCEPT ![f].players = rest]

\* add_player_to_freq.
With(ts, p, f) ==
    LET t == IF f \in DOMAIN ts THEN ts[f] ELSE NewTeam(f, conf)
        new == [t EXCEPT !.players[p] = @ + 1]
    IN  [g \in DOMAIN ts \cup {f} |-> IF g = f THEN new ELSE ts[g]]

\* The assertion of update_freqs, freq == pdat->freq; the list is then used.
FreqIsKnown(p, old) == old # SpecFreq => Exists(old) /\ team[p] = old

\* update_freqs, which ends the server when the assertion fails.
UpdateFreqs(p, new, old) ==
    IF new = old \/ p \in Fakes THEN UNCHANGED <<teams, team, crashed>>
    ELSE IF ~FreqIsKnown(p, old) THEN crashed' = TRUE /\ UNCHANGED <<teams, team>>
    ELSE
      LET left == IF old = SpecFreq THEN teams ELSE Without(teams, p, old)
      IN  /\ teams' = IF new = SpecFreq THEN left ELSE With(left, p, new)
          /\ team' = [team EXCEPT ![p] =
                 IF new # SpecFreq THEN new ELSE IF old # SpecFreq THEN NoTeam ELSE @]
          /\ UNCHANGED crashed

----------------------------------------------------------------------------
(* The enforcers.                                                          *)

\* enf_shipcount: the others' ships of one kind on a frequency.
ShipCount(p, f, s) == Cardinality({q \in InArena \ {p} : freq[q] = f /\ ship[q] = s})

\* enforcers_get_allowable_ships.  early: he changed his ship not long ago, or
\* is antiwarped (enf_shipchange).
AllowableShips(p, f, early) ==
    {s \in Ships :
        /\ f # SpecFreq
        /\ ~Attached("enf_lockspec")
        /\ Attached("enf_legalship") => s \in conf.legal
        /\ Attached("enf_shipcount") => ShipCount(p, f, s) < conf.limit
        /\ early => s = ship[p]}

Early == IF Attached("enf_shipchange") THEN BOOLEAN ELSE {FALSE}

MaxFreqSize(f) == IF f >= conf.firstPrivate THEN conf.maxPrivate ELSE conf.maxPublic

FreqNotFull(f) ==
    Cardinality({p \in Humans \cap Playing : freq[p] = f /\ (InShip(p) \/ conf.countSpecs)})
        < MaxFreqSize(f)

ArenaNotFull == Cardinality({p \in Humans \cap Playing : InShip(p)}) <= conf.maxPlaying

PlayerMetric(p) == IF p \in Humans THEN 1 ELSE 0

\* GetMaximumDifference of the default balancer.
TooUneven(d) == conf.forceEven /\ d > conf.maxDiff

\* balancer_allows_change.
BalancerAllows(p, f) ==
    LET old == freq[p]
        new == Count(f) + PlayerMetric(p)
        rest == Count(old) - PlayerMetric(p)
    IN  \/ Exists(f) /\ teams[f].required /\ Count(f) = 0
        \/ /\ ~(Exists(old) /\ teams[old].required /\ Count(old) = 1)
           /\ \A g \in DOMAIN teams : ~(teams[g].required /\ Count(g) = 0)
           /\ MaxFreqSize(f) # 0 => new <= MaxFreqSize(f)
           /\ ~(Exists(old) /\ rest > 0 /\ TooUneven(new - rest))
           /\ \A g \in DOMAIN teams \ {old, f} :
                 ~(teams[g].balanced /\ TooUneven(new - Count(g)))

\* enforcers_can_change_to_freq: freqman's own adviser, and enf_flagwin (grace:
\* he left the winning team not long ago).
CanChangeToFreq(p, f, grace) ==
    /\ FreqNotFull(f) /\ BalancerAllows(p, f)
    /\ Attached("enf_flagwin") => grace \/ ~IsWinning(f)

\* CanEnterGame; lagged: flags.no_ship.
CanEnterGame(lagged) == ArenaNotFull /\ ~lagged

Grace == IF Attached("enf_flagwin") THEN BOOLEAN ELSE {FALSE}

----------------------------------------------------------------------------
(* Where somebody may play.                                                *)

Least(S) == CHOOSE x \in S : \A y \in S : x <= y

\* find_entry_freq: of the desired teams the first that does not exist yet, else
\* the smallest; of the others the first that will do.
FindEntryFreq(p, grace) ==
    LET Allowed(i) == CanChangeToFreq(p, i, grace)
        Fits(i) == Count(i) <= MaxFreqSize(i) - PlayerMetric(p)
        fresh == {i \in 0 .. conf.desired - 1 : Allowed(i) /\ ~Exists(i)}
        fits == {i \in 0 .. conf.desired - 1 : Allowed(i) /\ Fits(i)}
        stops == {i \in conf.desired .. conf.number - 1 :
                      ~Exists(i) \/ (Allowed(i) /\ Fits(i))}
    IN  IF fresh # {} THEN Least(fresh)
        ELSE IF fits # {} THEN Least({i \in fits : \A j \in fits : Count(i) <= Count(j)})
        ELSE IF stops # {} /\ Allowed(Least(stops)) THEN Least(stops)
        ELSE SpecFreq

\* A ship out of those he may use: the one asked for, his own, the first, or none.
ShipOf(p, wanted, mask) ==
    IF wanted \in mask THEN wanted
    ELSE IF ship[p] \in mask THEN ship[p]
    ELSE IF mask # {} THEN Least(mask)
    ELSE SHIP_SPEC

\* Initial, as <<ship, freq>>; in: may he enter the game?
Initial(p, wanted, in, early, grace) ==
    LET f == FindEntryFreq(p, grace)
        s == ShipOf(p, wanted, AllowableShips(p, f, early))
    IN  IF conf.startInSpec \/ ~in \/ wanted = SHIP_SPEC \/ f = SpecFreq \/ s = SHIP_SPEC
          THEN <<SHIP_SPEC, SpecFreq>>
          ELSE <<s, f>>

\* What freqman may call of game: SetShipAndFreq, or SetFreq.
Both(s, f) == [set |-> "both", ship |-> s, freq |-> f]
OnlyFreq(f) == [set |-> "freq", ship |-> SHIP_SPEC, freq |-> f]

\* ShipChange: the set of its calls (at most one).
ShipChange(p, wanted, in, early, grace) ==
    LET coming == ~InShip(p)
        f == IF coming /\ freq[p] = SpecFreq THEN FindEntryFreq(p, grace) ELSE freq[p]
        s == ShipOf(p, wanted, AllowableShips(p, f, early))
        full == coming /\ freq[p] # SpecFreq /\ ~conf.countSpecs /\ ~FreqNotFull(f)
    IN  IF wanted = SHIP_SPEC THEN {Both(SHIP_SPEC, SpecFreq)}
        ELSE IF coming /\ (~in \/ full) THEN {}
        ELSE {Both(s, IF s = SHIP_SPEC /\ conf.noTeamSpecs THEN SpecFreq ELSE f)}

\* FreqChange, likewise.
FreqChange(p, f, in, early, grace) ==
    LET mask == AllowableShips(p, f, early)
        first == IF mask = {} THEN SHIP_SPEC ELSE Least(mask)
        s == IF InShip(p) THEN IF ship[p] \in mask THEN ship[p] ELSE first
             ELSE IF conf.noTeamSpecs THEN first ELSE SHIP_SPEC
    IN  IF ~InShip(p) /\ f = SpecFreq THEN {OnlyFreq(SpecFreq)}
        ELSE IF f \notin 0 .. conf.number - 1
          THEN IF InShip(p) \/ freq[p] = SpecFreq THEN {} ELSE {OnlyFreq(SpecFreq)}
        ELSE IF \/ ~CanChangeToFreq(p, f, grace)
                \/ ~InShip(p) /\ conf.noTeamSpecs /\ ~in
                \/ conf.noTeamSpecs /\ s = SHIP_SPEC
          THEN {}
        ELSE {Both(s, f)}

----------------------------------------------------------------------------
(* The callbacks of freqman.                                               *)

TeamsPreEnter(p) == team' = [team EXCEPT ![p] = NoTeam] /\ UNCHANGED teams

TeamsEnter(p) == UpdateFreqs(p, freq[p], SpecFreq)

TeamsLeave(p) == UpdateFreqs(p, SpecFreq, IF team[p] = NoTeam THEN SpecFreq ELSE team[p])

TeamsConfChanged(c) == teams' = Prune(teams, c) /\ UNCHANGED team
=============================================================================
