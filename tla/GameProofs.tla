----------------------------- MODULE GameProofs -----------------------------
(***************************************************************************)
(* The games of an arena, whatever players, settings and numbers of flags  *)
(* and balls there are.                                                    *)
(***************************************************************************)
EXTENDS ArenaGames, Sums, SequenceTheorems

----------------------------------------------------------------------------
(* The pointers of freqman, whatever threads do.                           *)

\* What add_player_to_freq and remove_player_from_freq go by.
IsList(l) == l.players \in [Humans -> Nat] /\ DOMAIN l = {"players", "required", "remembered", "balanced"}

IsTeams(ts) == ts = [f \in DOMAIN ts |-> ts[f]] /\ \A f \in DOMAIN ts : IsList(ts[f])

\* p is in the list that his pointer shows.
HasList(ts, p, f) == f \in DOMAIN ts /\ ts[f].players[p] > 0

TeamIs(t) == t = [p \in Humans |-> t[p]]

PointersInv == IsTeams(teams) /\ TeamIs(team) /\ \A p \in Humans : team[p] # NoTeam => HasList(teams, p, team[p])

LEMMA ListChanges ==
    ASSUME NEW l, IsList(l), NEW players \in [Humans -> Nat]
    PROVE  /\ IsList([l EXCEPT !.players = players]) /\ [l EXCEPT !.players = players].players = players
           /\ [l EXCEPT !.players = players].remembered = l.remembered
BY DEF IsList

LEMMA CountChanges ==
    ASSUME NEW h \in [Humans -> Nat], NEW p, NEW n, p \in Humans => n \in Nat
    PROVE  /\ [h EXCEPT ![p] = n] \in [Humans -> Nat]
           /\ \A q \in Humans : [h EXCEPT ![p] = n][q] = IF q = p THEN n ELSE h[q]
<1>1. CASE p \in Humans
  BY <1>1
<1>2. CASE p \notin Humans
  <2>1. [h EXCEPT ![p] = n] = h
    BY <1>2
  <2> QED
    BY <1>2, <2>1
<1> QED
  BY <1>1, <1>2

LEMMA WithList ==
    ASSUME NEW ts, IsTeams(ts), NEW p, NEW f
    PROVE  /\ IsTeams(With(ts, p, f)) /\ (p \in Humans => HasList(With(ts, p, f), p, f))
           /\ \A q \in Humans : \A g : HasList(ts, q, g) => HasList(With(ts, p, f), q, g)
<1> DEFINE t == IF f \in DOMAIN ts THEN ts[f] ELSE NewTeam(f, conf)
           new == [t EXCEPT !.players[p] = @ + 1]
<1>1. IsList(t)
  BY DEF IsTeams, IsList, NewTeam, Nobody
<1>2. IsList(new) /\ new.players = [t.players EXCEPT ![p] = @ + 1]
  <2> HIDE DEF t
  <2>1. [t.players EXCEPT ![p] = @ + 1] \in [Humans -> Nat]
    <3> DEFINE h == t.players
    <3>1. h \in [Humans -> Nat]
      BY <1>1 DEF IsList
    <3> HIDE DEF h
    <3>2. [h EXCEPT ![p] = h[p] + 1] \in [Humans -> Nat]
      BY <3>1, CountChanges
    <3> QED
      BY <3>2 DEF h
  <2> QED
    BY <1>1, <2>1, ListChanges
<1>3. With(ts, p, f) = [g \in DOMAIN ts \cup {f} |-> IF g = f THEN new ELSE ts[g]]
  BY DEF With
<1>4. f \in DOMAIN ts => t = ts[f]
  OBVIOUS
<1> HIDE DEF t, new
<1>5. \A q \in Humans : new.players[q] = IF q = p THEN t.players[q] + 1 ELSE t.players[q]
  BY <1>1, <1>2 DEF IsList
<1> QED
  BY <1>1, <1>2, <1>3, <1>4, <1>5 DEF IsTeams, IsList, HasList

LEMMA WithoutList ==
    ASSUME NEW ts, IsTeams(ts), NEW p, NEW f \in DOMAIN ts
    PROVE  /\ IsTeams(Without(ts, p, f))
           /\ \A q \in Humans \ {p} : \A g : HasList(ts, q, g) => HasList(Without(ts, p, f), q, g)
<1> DEFINE rest == [ts[f].players EXCEPT ![p] = IF @ > 0 THEN @ - 1 ELSE 0]
           l == [ts[f] EXCEPT !.players = rest]
<1>1. rest \in [Humans -> Nat] /\ \A q \in Humans \ {p} : rest[q] = ts[f].players[q]
  <2> DEFINE pl == ts[f].players
  <2>1. pl \in [Humans -> Nat]
    BY DEF IsTeams, IsList
  <2> HIDE DEF pl
  <2>2. [pl EXCEPT ![p] = IF @ > 0 THEN @ - 1 ELSE 0] \in [Humans -> Nat]
    <3> DEFINE n == IF pl[p] > 0 THEN pl[p] - 1 ELSE 0
    <3>1. p \in Humans => n \in Nat
      BY <2>1
    <3> HIDE DEF n
    <3>2. [pl EXCEPT ![p] = n] \in [Humans -> Nat]
      BY <2>1, <3>1, CountChanges
    <3> QED
      BY <3>2 DEF n
  <2>3. \A q \in Humans \ {p} : [pl EXCEPT ![p] = IF @ > 0 THEN @ - 1 ELSE 0][q] = pl[q]
    BY <2>1
  <2> QED
    BY <2>2, <2>3 DEF pl
<1>2. IsList(l) /\ l.players = rest
  <2> HIDE DEF rest
  <2>1. IsList(ts[f])
    BY DEF IsTeams
  <2> QED
    BY <1>1, <2>1, ListChanges
<1>3. Without(ts, p, f) = IF rest = Nobody /\ ~ts[f].remembered THEN Restrict(ts, DOMAIN ts \ {f})
                                                                 ELSE [ts EXCEPT ![f] = l]
  BY DEF Without
<1> HIDE DEF rest, l
<1>4. CASE rest = Nobody /\ ~ts[f].remembered
  <2>1. Without(ts, p, f) = [g \in DOMAIN ts \ {f} |-> ts[g]]
    BY <1>3, <1>4 DEF Restrict
  <2>2. \A q \in Humans \ {p} : ~HasList(ts, q, f)
    BY <1>1, <1>4 DEF HasList, Nobody
  <2> QED
    BY <2>1, <2>2 DEF IsTeams, HasList
<1>5. CASE ~(rest = Nobody /\ ~ts[f].remembered)
  <2>1. Without(ts, p, f) = [ts EXCEPT ![f] = l]
    BY <1>3, <1>5
  <2> QED
    BY <1>1, <1>2, <2>1 DEF IsTeams, HasList
<1> QED
  BY <1>4, <1>5

LEMMA TeamChanges ==
    ASSUME NEW t, TeamIs(t), NEW p, NEW f
    PROVE  /\ TeamIs([t EXCEPT ![p] = f])
           /\ \A q \in Humans : [t EXCEPT ![p] = f][q] = IF q = p THEN f ELSE t[q]
<1>1. DOMAIN t = Humans
  BY DEF TeamIs
<1>2. \A q \in Humans : [t EXCEPT ![p] = f][q] = IF q = p THEN f ELSE t[q]
  BY <1>1
<1>3. [t EXCEPT ![p] = f] = [q \in Humans |-> [t EXCEPT ![p] = f][q]]
  BY <1>1
<1> QED
  BY <1>2, <1>3 DEF TeamIs

LEMMA UpdateFreqsStep ==
    ASSUME PointersInv, NEW p, NEW new, NEW old, UpdateFreqs(p, new, old)
    PROVE  PointersInv'
<1> DEFINE left == IF old = SpecFreq THEN teams ELSE Without(teams, p, old)
<1> USE DEF PointersInv
<1>1. CASE new = old \/ p \in Fakes \/ ~FreqIsKnown(p, old)
  <2>1. UNCHANGED <<teams, team>>
    BY <1>1 DEF UpdateFreqs
  <2> QED
    BY <2>1 DEF IsTeams, TeamIs, HasList, IsList
<1>2. CASE ~(new = old \/ p \in Fakes \/ ~FreqIsKnown(p, old))
  <2>1. /\ old # SpecFreq => old \in DOMAIN teams /\ team[p] = old
        /\ teams' = IF new = SpecFreq THEN left ELSE With(left, p, new)
        /\ team' = [team EXCEPT ![p] = IF new # SpecFreq THEN new ELSE IF old # SpecFreq THEN NoTeam ELSE @]
        /\ new # old
    BY <1>2 DEF UpdateFreqs, FreqIsKnown, Exists
  <2>2. IsTeams(left) /\ \A q \in Humans \ {p} : \A g : HasList(teams, q, g) => HasList(left, q, g)
    BY <2>1, WithoutList
  <2> HIDE DEF left
  <2>3. /\ TeamIs(team') /\ \A q \in Humans \ {p} : team'[q] = team[q]
        /\ p \in Humans => team'[p] = IF new # SpecFreq THEN new ELSE NoTeam
    <3> DEFINE f == IF new # SpecFreq THEN new ELSE IF old # SpecFreq THEN NoTeam ELSE team[p]
    <3>1. team' = [team EXCEPT ![p] = f] /\ f = IF new # SpecFreq THEN new ELSE NoTeam
      BY <2>1
    <3> HIDE DEF f
    <3>2. TeamIs(team') /\ \A q \in Humans : team'[q] = IF q = p THEN f ELSE team[q]
      <4>1. TeamIs(team)
        OBVIOUS
      <4>2. TeamIs([team EXCEPT ![p] = f]) /\ \A q \in Humans : [team EXCEPT ![p] = f][q] = IF q = p THEN f ELSE team[q]
        BY <4>1, TeamChanges
      <4> QED
        BY <3>1, <4>2
    <3> QED
      BY <3>1, <3>2
  <2>4. CASE new = SpecFreq
    BY <2>1, <2>2, <2>3, <2>4
  <2>5. CASE new # SpecFreq
    <3>1. /\ IsTeams(teams') /\ (p \in Humans => HasList(teams', p, new))
          /\ \A q \in Humans : \A g : HasList(left, q, g) => HasList(teams', q, g)
      BY <2>1, <2>2, <2>5, WithList
    <3>2. ASSUME NEW q \in Humans, team'[q] # NoTeam PROVE HasList(teams', q, team'[q])
      <4>1. CASE q = p
        BY <2>3, <2>5, <3>1, <4>1
      <4>2. CASE q # p
        BY <2>2, <2>3, <3>1, <3>2, <4>2
      <4> QED
        BY <4>1, <4>2
    <3>3. IsTeams(teams)' /\ TeamIs(team)' /\ \A q \in Humans : team'[q] # NoTeam => HasList(teams, q, team[q])'
      BY <2>3, <3>1, <3>2 DEF IsTeams, TeamIs, HasList, IsList
    <3> QED
      BY <3>3
  <2> QED
    BY <2>4, <2>5
<1> QED
  BY <1>1, <1>2

LEMMA PruneStep ==
    ASSUME PointersInv, NEW c, teams' = Prune(teams, c), UNCHANGED team
    PROVE  PointersInv'
<1> USE DEF PointersInv
<1> DEFINE kept == {f \in DOMAIN teams : f < c.remembered \/ teams[f].players # Nobody}
           ts == [f \in kept \cup 0 .. c.remembered - 1 |->
                     IF f \notin DOMAIN teams THEN NewTeam(f, c)
                     ELSE [teams[f] EXCEPT !.required = @ /\ f < c.remembered]]
<1>1. teams' = ts
  BY DEF Prune
<1>2. ASSUME NEW l, IsList(l), NEW r
      PROVE  IsList([l EXCEPT !.required = r]) /\ [l EXCEPT !.required = r].players = l.players
  BY <1>2 DEF IsList
<1>3. ASSUME NEW f \in DOMAIN ts PROVE IsList(ts[f])
  <2>1. CASE f \notin DOMAIN teams
    BY <2>1 DEF IsList, NewTeam, Nobody
  <2>2. CASE f \in DOMAIN teams
    BY <1>2, <2>2 DEF IsTeams
  <2> QED
    BY <2>1, <2>2
<1>4. ASSUME NEW q \in Humans, NEW f, HasList(teams, q, f) PROVE HasList(ts, q, f)
  <2>1. f \in DOMAIN teams /\ teams[f].players[q] > 0
    BY <1>4 DEF HasList
  <2>2. f \in kept
    BY <2>1 DEF Nobody
  <2>3. ts[f].players = teams[f].players
    BY <1>2, <2>1, <2>2 DEF IsTeams
  <2> QED
    BY <2>1, <2>2, <2>3 DEF HasList
<1>5. ts = [f \in DOMAIN ts |-> ts[f]]
  OBVIOUS
<1> HIDE DEF ts
<1>6. IsTeams(ts)
  BY <1>3, <1>5 DEF IsTeams
<1> QED
  BY <1>1, <1>4, <1>6 DEF IsTeams, TeamIs, HasList, IsList

LEMMA PointersBegin == Init => PointersInv
<1> SUFFICES ASSUME Init PROVE PointersInv
  OBVIOUS
<1>1. teams = [f \in 0 .. conf.remembered - 1 |-> NewTeam(f, conf)] /\ team = [p \in Humans |-> NoTeam]
  BY DEF Init
<1>2. \A f : IsList(NewTeam(f, conf))
  BY DEF IsList, NewTeam, Nobody
<1>3. IsTeams(teams) /\ TeamIs(team)
  BY <1>1, <1>2 DEF IsTeams, TeamIs
<1> QED
  BY <1>1, <1>3 DEF PointersInv

\* What a step can do to the lists of freqman.
LEMMA TeamsMove ==
    ASSUME [Next]_vars
    PROVE  \/ UNCHANGED teamvars
           \/ \E p \in Humans : TeamsPreEnter(p)
           \/ \E p, new, old : UpdateFreqs(p, new, old)
           \/ \E c \in Configs : TeamsConfChanged(c)
<1> DEFINE Moves == \/ UNCHANGED teamvars
                    \/ \E p \in Humans : TeamsPreEnter(p)
                    \/ \E p, new, old : UpdateFreqs(p, new, old)
                    \/ \E c \in Configs : TeamsConfChanged(c)
<1>1. CASE UNCHANGED vars
  BY <1>1 DEF vars, teamvars
<1>2. CASE Come
  BY <1>2 DEF Come, PreEnter, Synced, Enter
<1>3. CASE Go
  <2>1. ASSUME NEW p \in Humans, LeaveCallbacks(p) PROVE Moves
    BY <2>1 DEF LeaveCallbacks, TeamsLeave
  <2> QED
    BY <1>3, <2>1 DEF Go, Leave, GiveUp, GoAway
<1>4. CASE EnterCallbacks
  BY <1>4 DEF EnterCallbacks, TeamsEnter
<1>5. CASE RunChange \/ EndFakeInMain
  BY <1>5 DEF RunChange, EndFakeInMain
<1>6. CASE ConfChanged
  BY <1>6 DEF ConfChanged
<1>7. ASSUME NEW p \in Humans, NEW killer \in Players, NEW fired \in BOOLEAN, PDie(p, killer, fired)
      PROVE  Moves
  BY <1>7 DEF PDie
<1>8. CASE Play
  <2>1. ASSUME NEW t \in Threads, GameStep(t) PROVE Moves
    <3>1. CASE CallBack(t)
      BY <3>1 DEF CallBack
    <3> QED
      BY <2>1, <3>1 DEF GameStep, ReadOld, SetNew, SetLock, Watch
  <2>2. ASSUME NEW t \in Threads, Command(t) \/ ArenaLockCommand(t) PROVE Moves
    BY <2>2 DEF Command, ArenaLockCommand
  <2>3. ASSUME NEW p \in Humans,
               \/ \E s \in Ships \cup {SHIP_SPEC} : PSetShip(p, s)
               \/ \E f \in conf.freqs : PSetFreq(p, f)
               \/ \E q \in Players \cup {NoPlayer} : PSpecRequest(p, q)
               \/ Ack(p) \/ PMapRequest(p) \/ SpecForLag(p)
        PROVE  Moves
    BY <2>3 DEF PSetShip, PSetFreq, PSpecRequest, Ack, PMapRequest, SpecForLag
  <2>4. ASSUME NEW p \in Fakes, CreateFakePlayer(p) \/ EndFaked(p) PROVE Moves
    BY <2>4 DEF CreateFakePlayer, EndFaked
  <2> QED
    BY <1>8, <2>1, <2>2, <2>3, <2>4 DEF Play
<1>9. CASE PlayFlags
  BY <1>9 DEF PlayFlags, PFlagTimer, PFlagTouch, TouchFlag, SpawnTimer, CheckWin, FlagResetCommand
<1>10. CASE PlayBalls
  BY <1>10 DEF PlayBalls, PPickupBall, PFireBall, PGoal, TakeBall, BasicBallTimer, BallCommand
<1>11. CASE PlayKoth
  BY <1>11 DEF PlayKoth, CheckKoth, ResetKoth, PKothExpired
<1>12. CASE PlayOwners
  BY <1>12 DEF PlayOwners, TakeOwnership, KickTimer, GiveOwner, FreqKick
<1> QED
  BY <1>1, <1>2, <1>3, <1>4, <1>5, <1>6, <1>7, <1>8, <1>9, <1>10, <1>11, <1>12 DEF Next

LEMMA PointersNext ==
    ASSUME PointersInv, [Next]_vars
    PROVE  PointersInv'
<1>1. CASE UNCHANGED teamvars
  BY <1>1 DEF teamvars, PointersInv, IsTeams, TeamIs, HasList, IsList
<1>2. ASSUME NEW p \in Humans, TeamsPreEnter(p) PROVE PointersInv'
  <2>1. TeamIs(team) /\ team' = [team EXCEPT ![p] = NoTeam] /\ teams' = teams
    BY <1>2 DEF TeamsPreEnter, PointersInv
  <2>2. TeamIs(team') /\ \A q \in Humans : team'[q] = IF q = p THEN NoTeam ELSE team[q]
    <3>1. TeamIs(team)
      BY DEF PointersInv
    <3>2. /\ TeamIs([team EXCEPT ![p] = NoTeam])
          /\ \A q \in Humans : [team EXCEPT ![p] = NoTeam][q] = IF q = p THEN NoTeam ELSE team[q]
      BY <3>1, TeamChanges
    <3> QED
      BY <2>1, <3>2
  <2> QED
    BY <2>1, <2>2 DEF PointersInv, IsTeams, TeamIs, HasList, IsList
<1>3. ASSUME NEW p, NEW new, NEW old, UpdateFreqs(p, new, old) PROVE PointersInv'
  BY <1>3, UpdateFreqsStep
<1>4. ASSUME NEW c \in Configs, TeamsConfChanged(c) PROVE PointersInv'
  BY <1>4, PruneStep DEF TeamsConfChanged
<1> QED
  BY <1>1, <1>2, <1>3, <1>4, TeamsMove

\* pdat->freq of freqman is never a Freq struct that has been freed, although two threads
\* may change a player between each other's steps: for any players, settings and threads,
\* also where the assertion of update_freqs ends the server.
THEOREM PointersStayAlive == Spec => []TeamPointersAlive
<1>1. PointersInv /\ [Next]_vars => PointersInv'
  BY PointersNext
<1>2. PointersInv => TeamPointersAlive
  BY DEF PointersInv, TeamPointersAlive, HasList, Exists
<1> QED
  BY <1>1, <1>2, PointersBegin, PTL DEF Spec

----------------------------------------------------------------------------
(* Numbers of frequencies.                                                 *)

LEMMA LeastIn ==
    ASSUME NEW S, S \subseteq Int, IsFiniteSet(S), S # {}
    PROVE  Least(S) \in S /\ \A k \in S : Least(S) <= k
<1> DEFINE Good == {T \in SUBSET S : T = {} \/ \E m \in T : \A k \in T : m <= k}
<1>1. ASSUME NEW T \in SUBSET S, \A U \in SUBSET T : U # T => U \in Good PROVE T \in Good
  <2>1. CASE T = {}
    BY <2>1
  <2>2. CASE T # {}
    <3> DEFINE U == T \ {First(T)}
    <3>1. First(T) \in T /\ U \in SUBSET T /\ U # T
      BY <2>2, FirstIn
    <3>2. U \in Good
      BY <1>1, <3>1
    <3>3. CASE U = {}
      BY <3>1, <3>3
    <3>4. CASE U # {}
      <4>1. PICK m \in U : \A k \in U : m <= k
        BY <3>2, <3>4
      <4>2. First(T) \in Int /\ m \in Int /\ m \in T
        BY <3>1, <4>1
      <4>3. \A k \in T : k = First(T) \/ k \in U
        OBVIOUS
      <4> QED
        BY <3>1, <4>1, <4>2, <4>3
    <3> QED
      BY <3>3, <3>4
  <2> QED
    BY <2>1, <2>2
<1> HIDE DEF Good
<1>2. SUBSET S \subseteq Good
  BY <1>1, SubsetInduction
<1>3. \E m \in S : \A k \in S : m <= k
  BY <1>2 DEF Good
<1> QED
  BY <1>3 DEF Least

LEMMA CountIs ==
    ASSUME NEW f, IsTeams(teams), IsFiniteSet(Humans)
    PROVE  /\ Count(f) \in Nat
           /\ f \in DOMAIN teams => (Count(f) > 0 <=> teams[f].players # Nobody)
<1>1. CASE ~Exists(f)
  BY <1>1 DEF Count, Exists
<1>2. CASE Exists(f)
  <2> DEFINE g == teams[f].players
  <2>1. g \in [Humans -> Nat]
    BY <1>2 DEF IsTeams, IsList, Exists
  <2> HIDE DEF g
  <2>2. FoldFunction(LAMBDA a, b : a + b, 0, g) = Total(0, g, Humans)
    BY <2>1 DEF FoldFunction, FoldFunctionOnSet, Total
  <2>3. Count(f) = Total(0, g, Humans)
    BY <1>2, <2>2 DEF Count, g
  <2>4. Total(0, g, Humans) \in Nat
    BY <2>1, TotalNat
  <2>5. CASE g = Nobody
    <3>1. Total(0, g, Humans) = 0
      BY <2>5, TotalZero DEF Nobody
    <3> QED
      BY <2>3, <2>5, <3>1 DEF g
  <2>6. CASE g # Nobody
    <3>1. PICK p \in Humans : g[p] > 0
      BY <2>1, <2>6 DEF Nobody
    <3>2. Total(0, g, Humans) = g[p] + Total(0, g, Humans \ {p})
      BY <2>1, TotalRemove
    <3>3. Total(0, g, Humans \ {p}) \in Nat
      <4>1. IsFiniteSet(Humans \ {p})
        BY FS_Subset
      <4> QED
        BY <2>1, <4>1, TotalNat
    <3>4. Total(0, g, Humans) > 0
      BY <2>1, <3>1, <3>2, <3>3
    <3> QED
      BY <2>3, <2>4, <2>6, <3>4 DEF g
  <2> QED
    BY <2>5, <2>6
<1> QED
  BY <1>1, <1>2 DEF Exists

LEMMA EntryFreqFits ==
    ASSUME IsTeams(teams), conf \in Configs, NEW p, NEW grace
    PROVE  FindEntryFreq(p, grace) \in Int
<1> USE ArenaAssumption, GameAssumption
<1> DEFINE Allowed(i) == CanChangeToFreq(p, i, grace)
           Fits(i) == Count(i) <= MaxFreqSize(i) - PlayerMetric(p)
           fresh == {i \in 0 .. conf.desired - 1 : Allowed(i) /\ ~Exists(i)}
           fits == {i \in 0 .. conf.desired - 1 : Allowed(i) /\ Fits(i)}
           stops == {i \in conf.desired .. conf.number - 1 : ~Exists(i) \/ (Allowed(i) /\ Fits(i))}
           best == {i \in fits : \A j \in fits : Count(i) <= Count(j)}
<1>1. FindEntryFreq(p, grace) =
          IF fresh # {} THEN Least(fresh) ELSE IF fits # {} THEN Least(best)
          ELSE IF stops # {} /\ Allowed(Least(stops)) THEN Least(stops) ELSE SpecFreq
  BY DEF FindEntryFreq
<1>2. conf.desired \in Int /\ conf.number \in Int
  OBVIOUS
<1> HIDE DEF Allowed, Fits
<1>3. /\ fresh \subseteq Int /\ fits \subseteq Int /\ stops \subseteq Int
      /\ IsFiniteSet(fresh) /\ IsFiniteSet(fits) /\ IsFiniteSet(stops)
  <2>1. IsFiniteSet(0 .. conf.desired - 1) /\ IsFiniteSet(conf.desired .. conf.number - 1)
    BY <1>2, FS_Interval
  <2> QED
    BY <1>2, <2>1, FS_Subset
<1> HIDE DEF fresh, fits, stops
<1>4. ASSUME fits # {} PROVE best # {}
  <2> DEFINE counts == {n \in Nat : \E i \in fits : n = Count(i)}
  <2>1. \A i \in fits : Count(i) \in counts
    BY CountIs
  <2>2. PICK i0 \in fits : TRUE
    BY <1>4
  <2> DEFINE low == {n \in 0 .. Count(i0) : n \in counts}
  <2>3. Count(i0) \in Nat
    BY CountIs
  <2>4. low \subseteq Int /\ low # {} /\ IsFiniteSet(low)
    <3>1. IsFiniteSet(0 .. Count(i0))
      <4> DEFINE n == Count(i0)
      <4>1. 0 \in Int /\ n \in Int
        BY <2>3
      <4> HIDE DEF n
      <4>2. IsFiniteSet(0 .. n)
        BY <4>1, FS_Interval
      <4> QED
        BY <4>2 DEF n
    <3> QED
      BY <2>1, <2>2, <2>3, <3>1, FS_Subset
  <2>5. Least(low) \in low /\ \A k \in low : Least(low) <= k
    <3> HIDE DEF low
    <3> QED
      BY <2>4, LeastIn
  <2>6. PICK i \in fits : Count(i) = Least(low)
    BY <2>5
  <2>7. ASSUME NEW j \in fits PROVE Count(i) <= Count(j)
    <3>1. Count(j) \in Nat /\ Count(j) \in counts
      BY <2>1, CountIs
    <3>2. CASE Count(j) <= Count(i0)
      BY <2>3, <2>5, <2>6, <3>1, <3>2
    <3>3. CASE Count(j) > Count(i0)
      BY <2>3, <2>5, <2>6, <3>1, <3>3
    <3> QED
      BY <2>3, <3>1, <3>2, <3>3
  <2> QED
    BY <2>7
<1>5. best \subseteq Int /\ IsFiniteSet(best)
  BY <1>3, FS_Subset
<1> HIDE DEF best
<1>6. /\ fresh # {} => Least(fresh) \in Int
      /\ fits # {} => Least(best) \in Int
      /\ stops # {} => Least(stops) \in Int
  BY <1>3, <1>4, <1>5, LeastIn
<1> QED
  BY <1>1, <1>6

----------------------------------------------------------------------------
(* What threads have to do, where handlers run to their end.               *)

\* The status with which changes are made.
Acted == {p \in Players : status[p] \in {"playing", "leaving"}}

\* A step that waits behind others, as it was put there.
Later(x) == /\ x.do \in {"ask", "lock"} /\ x.p \in Acted
            /\ x.do = "ask" => x.freq \in Int
            /\ x.do = "lock" => x.p \in Humans

\* One that comes next: what it has read is still so.
Now(x) ==
    \/ Later(x)
    \/ /\ x.do = "set" /\ x.p \in Acted /\ x.freq \in Int /\ x.oldfreq = freq[x.p]
    \/ /\ x.do = "call" /\ x.p \in Acted /\ x.newfreq = freq[x.p] /\ x.oldfreq \in Int
       /\ {"do", "p"} \subseteq DOMAIN x
    \/ /\ x.do \in {"watch", "touch", "pickup"} /\ x.p \in Acted \cap Humans
       /\ x.do = "touch" => x.flag \in Flags
    \/ /\ x.do = "enter" /\ x.p \in Humans /\ status[x.p] = "arriving"

IsSeq(s) == \E Y : s \in Seq(Y)

Works(s) == /\ IsSeq(s)
            /\ s # <<>> => Now(Head(s))
            /\ \A i \in 2 .. Len(s) : Later(s[i])

TypesFit == /\ status \in [Players -> Statuses] /\ freq \in [Players -> Int]
            /\ doing = [t \in Threads |-> doing[t]] /\ conf \in Configs
OneWorks == \A t \in Threads, u \in Threads : doing[t] # <<>> /\ doing[u] # <<>> => t = u
WorkFits == \A t \in Threads : Works(doing[t])
\* Whoever has the status before the callbacks of PA_ENTERARENA: they are next.
ArrivalsFit == /\ \A p \in Players : status[p] = "arriving" =>
                     /\ doing["main"] # <<>> /\ Head(doing["main"]).do = "enter"
                     /\ Head(doing["main"]).p = p
FakesFit == \A p \in Fakes : status[p] \in {"away", "playing"}
KicksFit == kicks \subseteq Humans \cap Acted
QueueFits == /\ IsSeq(queue)
             /\ \A i \in 1 .. Len(queue) :
                   /\ queue[i].do \in {"change", "endfake"} /\ queue[i].p \in Players
                   /\ queue[i].do = "endfake" => queue[i].p \in Fakes

StepsInv == /\ TypesFit /\ OneWorks /\ WorkFits /\ ArrivalsFit /\ FakesFit /\ KicksFit
            /\ QueueFits

Idle == \A t \in Threads : doing[t] = <<>>

\* Some thread is about to set a ship and a frequency, or has set them and has yet to call
\* the callbacks.
Setting == \E t \in Threads : doing[t] # <<>> /\ Head(doing[t]).do = "set"
Calls == \E t \in Threads : doing[t] # <<>> /\ Head(doing[t]).do = "call"

\* Somebody asks for a ball, or some thread is about to give him one.
Picking == \E p \in Humans, b \in Balls : PPickupBall(p, b)
Picks == \E t \in Threads : doing[t] # <<>> /\ Head(doing[t]).do = "pickup"

\* What each step is to do: it keeps the invariant, calls follow what has been set, and balls
\* are given to those who have asked for one.
StepsGo == StepsInv' /\ (doing' = doing \/ ((Setting \/ ~Calls') /\ (Picking \/ ~Picks')))

\* x, or s, may come next.
Comes(x) == (x.do = "call" => Setting) /\ (x.do = "pickup" => Picking)
Follows(s) == s # <<>> => Comes(Head(s))

\* Sequences of steps.
LEMMA Replaces ==
    ASSUME NEW s, IsSeq(s), s # <<>>, NEW x
    PROVE  /\ IsSeq(<<x>> \o Tail(s)) /\ <<x>> \o Tail(s) # <<>> /\ Head(<<x>> \o Tail(s)) = x
           /\ Len(<<x>> \o Tail(s)) = Len(s)
           /\ \A i \in 2 .. Len(s) : (<<x>> \o Tail(s))[i] = s[i]
<1>1. PICK Y : s \in Seq(Y)
  BY DEF IsSeq
<1> DEFINE Z == Y \cup {x}  r == <<x>> \o Tail(s)
<1>2. s \in Seq(Z) /\ Tail(s) \in Seq(Z) /\ <<x>> \in Seq(Z)
  <2>1. s \in Seq(Z)
    BY <1>1
  <2>2. x \in Z
    OBVIOUS
  <2> HIDE DEF Z
  <2> QED
    BY <2>1, <2>2
<1> HIDE DEF Z
<1>3. r \in Seq(Z) /\ Len(r) = 1 + Len(Tail(s)) /\ Len(Tail(s)) = Len(s) - 1 /\ Len(s) \in Nat
  BY <1>2
<1>4. r[1] = x /\ \A i \in 2 .. Len(s) : r[i] = Tail(s)[i - 1] /\ Tail(s)[i - 1] = s[i]
  BY <1>2, <1>3
<1> QED
  BY <1>2, <1>3, <1>4 DEF IsSeq

LEMMA Drops ==
    ASSUME NEW s, IsSeq(s), s # <<>>
    PROVE  /\ <<>> \o Tail(s) = Tail(s) /\ IsSeq(Tail(s)) /\ Len(Tail(s)) = Len(s) - 1 /\ Len(s) \in Nat
           /\ \A i \in 1 .. Len(s) - 1 : Tail(s)[i] = s[i + 1]
           /\ Tail(s) # <<>> => Len(s) > 1 /\ Head(Tail(s)) = s[2]
<1>1. PICK Y : s \in Seq(Y)
  BY DEF IsSeq
<1>2. Tail(s) \in Seq(Y) /\ Len(Tail(s)) = Len(s) - 1 /\ Len(s) \in Nat /\ Len(s) > 0
  BY <1>1
<1>3. <<>> \o Tail(s) = Tail(s)
  BY <1>2
<1>4. \A i \in 1 .. Len(s) - 1 : Tail(s)[i] = s[i + 1]
  BY <1>1, <1>2
<1>5. Tail(s) # <<>> => Len(s) > 1 /\ Head(Tail(s)) = s[2]
  BY <1>2, <1>4
<1> QED
  BY <1>2, <1>3, <1>4, <1>5 DEF IsSeq

LEMMA Starts ==
    ASSUME NEW Y, NEW s \in Seq(Y), \A y \in Y : Later(y)
    PROVE  Works(s)
<1>1. Len(s) \in Nat /\ \A i \in 1 .. Len(s) : s[i] \in Y
  OBVIOUS
<1>2. s # <<>> => Head(s) \in Y
  OBVIOUS
<1> QED
  BY <1>1, <1>2 DEF Works, Now, IsSeq

----------------------------------------------------------------------------
(* What steps do to this.                                                  *)

LEMMA WorksStay ==
    ASSUME NEW s, Works(s), UNCHANGED <<status, freq>>
    PROVE  Works(s)'
<1>1. Acted' = Acted
  BY DEF Acted
<1>2. \A x : (Later(x)' <=> Later(x)) /\ (Now(x)' <=> Now(x))
  BY <1>1 DEF Later, Now
<1> QED
  BY <1>2 DEF Works

\* Nobody works, before and after; players may come and go.
LEMMA IdleStep ==
    ASSUME StepsInv, Idle, doing' = doing, TypesFit', FakesFit', KicksFit', QueueFits',
           \A p \in Players : status'[p] # "arriving"
    PROVE  StepsGo
<1>1. OneWorks' /\ ArrivalsFit'
  BY DEF Idle, OneWorks, ArrivalsFit, Threads
<1>2. WorkFits'
  <2>1. <<>> \in Seq({}) /\ Len(<<>>) = 0
    OBVIOUS
  <2>2. Works(<<>>)'
    BY <2>1 DEF Works, IsSeq
  <2>3. ASSUME NEW u \in Threads PROVE Works(doing[u])'
    <3>1. doing'[u] = <<>>
      BY DEF Idle
    <3> QED
      BY <2>2, <3>1 DEF Works
  <2> QED
    BY <2>3 DEF WorkFits
<1> QED
  BY <1>1, <1>2 DEF StepsInv, StepsGo

\* Others do something else.
LEMMA StillStep ==
    ASSUME StepsInv, UNCHANGED <<status, freq, doing>>, conf' \in Configs, KicksFit', QueueFits'
    PROVE  StepsGo
<1>1. TypesFit' /\ OneWorks' /\ ArrivalsFit' /\ FakesFit'
  BY DEF StepsInv, TypesFit, OneWorks, ArrivalsFit, FakesFit
<1>2. WorkFits'
  BY WorksStay DEF StepsInv, WorkFits
<1> QED
  BY <1>1, <1>2 DEF StepsInv, StepsGo

LEMMA KeptStep ==
    ASSUME StepsInv, UNCHANGED <<status, freq, doing, conf, kicks, queue>>
    PROVE  StepsGo
BY StillStep DEF StepsInv, TypesFit, KicksFit, QueueFits, Acted

\* A handler begins.
LEMMA BeginStep ==
    ASSUME StepsInv, Idle, NEW t \in Threads, NEW s, Begin(t, s), Works(s)', Follows(s),
           TypesFit', FakesFit',
           KicksFit', QueueFits',
           \A p \in Players : status'[p] = "arriving" =>
               t = "main" /\ s # <<>> /\ Head(s).do = "enter" /\ Head(s).p = p
    PROVE  StepsGo
<1>1. doing'[t] = s /\ \A u \in Threads \ {t} : doing'[u] = <<>>
  BY DEF StepsInv, TypesFit, Begin, Idle
<1>2. OneWorks' /\ ArrivalsFit'
  BY <1>1 DEF OneWorks, ArrivalsFit
<1>3. WorkFits'
  <2>1. <<>> \in Seq({}) /\ Len(<<>>) = 0
    OBVIOUS
  <2>2. Works(<<>>)'
    BY <2>1 DEF Works, IsSeq
  <2>3. \A u \in Threads : doing'[u] = s \/ doing'[u] = <<>>
    BY <1>1
  <2>4. ASSUME NEW u \in Threads PROVE Works(doing[u])'
    <3>1. CASE doing'[u] = s
      BY <3>1 DEF Works
    <3>2. CASE doing'[u] = <<>>
      BY <2>2, <3>2 DEF Works
    <3> QED
      BY <2>3, <3>1, <3>2
  <2> QED
    BY <2>4 DEF WorkFits
<1>4. (Setting \/ ~Calls') /\ (Picking \/ ~Picks')
  BY <1>1 DEF Calls, Picks, Follows, Comes
<1> QED
  BY <1>2, <1>3, <1>4 DEF StepsInv, StepsGo

LEMMA BeginLater ==
    ASSUME StepsInv, Idle, NEW t \in Threads, NEW s, Begin(t, s), Works(s), Follows(s),
           UNCHANGED <<status, freq, conf, queue>>, kicks' \subseteq kicks
    PROVE  StepsGo
<1>1. Works(s)'
  BY WorksStay
<1>2. TypesFit'
  BY DEF StepsInv, TypesFit, Begin
<1>3. FakesFit' /\ KicksFit' /\ QueueFits'
  BY DEF StepsInv, FakesFit, KicksFit, QueueFits, Acted
<1>4. \A p \in Players : status'[p] # "arriving"
  BY DEF StepsInv, ArrivalsFit, Idle, Threads
<1> QED
  BY <1>1, <1>2, <1>3, <1>4, BeginStep

\* The thread that works goes on.
LEMMA DoneStep ==
    ASSUME StepsInv, NEW t \in Threads, doing[t] # <<>>, NEW s, doing' = [doing EXCEPT ![t] = s],
           Works(s)', Follows(s), TypesFit', FakesFit', KicksFit', QueueFits',
           \A p \in Players : status'[p] # "arriving"
    PROVE  StepsGo
<1>1. doing'[t] = s /\ \A u \in Threads \ {t} : doing'[u] = <<>>
  BY DEF StepsInv, TypesFit, OneWorks
<1>2. OneWorks' /\ ArrivalsFit'
  BY <1>1 DEF OneWorks, ArrivalsFit
<1>3. WorkFits'
  <2>1. <<>> \in Seq({}) /\ Len(<<>>) = 0
    OBVIOUS
  <2>2. Works(<<>>)'
    BY <2>1 DEF Works, IsSeq
  <2>3. \A u \in Threads : doing'[u] = s \/ doing'[u] = <<>>
    BY <1>1
  <2>4. ASSUME NEW u \in Threads PROVE Works(doing[u])'
    <3>1. CASE doing'[u] = s
      BY <3>1 DEF Works
    <3>2. CASE doing'[u] = <<>>
      BY <2>2, <3>2 DEF Works
    <3> QED
      BY <2>3, <3>1, <3>2
  <2> QED
    BY <2>4 DEF WorkFits
<1>4. (Setting \/ ~Calls') /\ (Picking \/ ~Picks')
  BY <1>1 DEF Calls, Picks, Follows, Comes
<1> QED
  BY <1>2, <1>3, <1>4 DEF StepsInv, StepsGo

\* Nobody has arrived while somebody works at something else.
LEMMA NobodyArrives ==
    ASSUME StepsInv, NEW t \in Threads, doing[t] # <<>>, Head(doing[t]).do # "enter"
    PROVE  \A p \in Players : status[p] # "arriving"
BY DEF StepsInv, ArrivalsFit, OneWorks, Threads

\* A step that only changes what does not matter here is done.
LEMMA DropStep ==
    ASSUME StepsInv, NEW t \in Threads, doing[t] # <<>>, Head(doing[t]).do # "enter",
           Done(t, <<>>), UNCHANGED <<status, freq, conf, kicks>>, QueueFits'
    PROVE  StepsGo
<1>s. PICK s : s = <<>> \o Tail(doing[t])
  OBVIOUS
<1>1. Works(doing[t])
  BY DEF StepsInv, WorkFits
<1>2. Works(s) /\ Follows(s)
  <2>d. PICK d : d = doing[t]
    OBVIOUS
  <2>w. Works(d) /\ d # <<>>
    BY <1>1, <2>d
  <2>1. IsSeq(d) /\ d # <<>> /\ \A i \in 2 .. Len(d) : Later(d[i])
    BY <2>w DEF Works
  <2>2. /\ <<>> \o Tail(d) = Tail(d) /\ IsSeq(Tail(d)) /\ Len(Tail(d)) = Len(d) - 1 /\ Len(d) \in Nat
        /\ \A i \in 1 .. Len(d) - 1 : Tail(d)[i] = d[i + 1]
        /\ Tail(d) # <<>> => Len(d) > 1 /\ Head(Tail(d)) = d[2]
    BY <2>1, Drops
  <2>3. \A i \in 2 .. Len(Tail(d)) : Later(Tail(d)[i])
    <3> SUFFICES ASSUME NEW i \in 2 .. Len(Tail(d)) PROVE Later(Tail(d)[i])
      OBVIOUS
    <3>1. i \in 1 .. Len(d) - 1 /\ i + 1 \in 2 .. Len(d)
      BY <2>2
    <3> QED
      BY <2>1, <2>2, <3>1
  <2>4. Tail(d) # <<>> => Later(Head(Tail(d)))
    BY <2>1, <2>2
  <2>5. Works(Tail(d))
    BY <2>2, <2>3, <2>4 DEF Works, Now
  <2>6. Follows(Tail(d))
    BY <2>4 DEF Later, Follows, Comes
  <2> QED
    BY <2>2, <2>5, <2>6, <1>s, <2>d
<1>3. doing' = [doing EXCEPT ![t] = s]
  BY <1>s DEF Done
<1>4. Works(s)'
  BY <1>2, WorksStay
<1>5. TypesFit' /\ FakesFit' /\ KicksFit'
  BY <1>3 DEF StepsInv, TypesFit, FakesFit, KicksFit, Acted
<1>6. \A p \in Players : status'[p] # "arriving"
  BY NobodyArrives
<1> QED
  BY <1>2, <1>3, <1>4, <1>5, <1>6, DoneStep

\* A step has another in its place.
LEMMA OtherStep ==
    ASSUME StepsInv, NEW t \in Threads, doing[t] # <<>>, Head(doing[t]).do # "enter",
           NEW x, Done(t, <<x>>), Now(x)', Comes(x),
           UNCHANGED <<status, conf, kicks, queue>>,
           freq' \in [Players -> Int]
    PROVE  StepsGo
<1>s. PICK s : s = <<x>> \o Tail(doing[t])
  OBVIOUS
<1>1. Works(doing[t])
  BY DEF StepsInv, WorkFits
<1>2. Acted' = Acted /\ \A y : Later(y)' <=> Later(y)
  BY DEF Acted, Later
<1>3. Works(s)' /\ (s # <<>> => Head(s) = x)
  <2>d. PICK d : d = doing[t]
    OBVIOUS
  <2>w. Works(d) /\ d # <<>>
    BY <1>1, <2>d
  <2>1. IsSeq(d) /\ d # <<>> /\ \A i \in 2 .. Len(d) : Later(d[i])
    BY <2>w DEF Works
  <2> DEFINE r == <<x>> \o Tail(d)
  <2>2. IsSeq(r) /\ r # <<>> /\ Head(r) = x /\ Len(r) = Len(d) /\ \A i \in 2 .. Len(d) : r[i] = d[i]
    BY <2>1, Replaces
  <2> HIDE DEF r
  <2>3. \A i \in 2 .. Len(r) : Later(r[i])
    BY <2>1, <2>2
  <2>4. r = s
    BY <1>s, <2>d DEF r
  <2>5. IsSeq(s) /\ (s # <<>> => Head(s) = x) /\ \A i \in 2 .. Len(s) : Later(s[i])'
    BY <2>2, <2>3, <2>4, <1>2
  <2> QED
    BY <2>5 DEF Works
<1>4. doing' = [doing EXCEPT ![t] = s]
  BY <1>s DEF Done
<1>5. TypesFit' /\ FakesFit' /\ KicksFit' /\ QueueFits'
  BY <1>2, <1>4 DEF StepsInv, TypesFit, FakesFit, KicksFit, QueueFits
<1>6. \A p \in Players : status'[p] # "arriving"
  BY NobodyArrives
<1>7. Follows(s)
  BY <1>3 DEF Follows
<1> QED
  BY <1>3, <1>4, <1>5, <1>6, <1>7, DoneStep

----------------------------------------------------------------------------
(* Each action.                                                            *)

LEMMA MayRunIdle ==
    ASSUME ~Interleaved, NEW t \in Threads, MayRun(t)
    PROVE  Idle
BY DEF MayRun, Idle

LEMMA IdleArrivals ==
    ASSUME StepsInv, Idle
    PROVE  \A p \in Players : status[p] # "arriving"
BY DEF StepsInv, ArrivalsFit, Idle, Threads

LEMMA InitialFits ==
    ASSUME IsTeams(teams), conf \in Configs, NEW p, NEW wanted, NEW in, NEW early, NEW grace
    PROVE  Initial(p, wanted, in, early, grace)[2] \in Int
<1>1. FindEntryFreq(p, grace) \in Int /\ SpecFreq \in Int
  BY EntryFreqFits, GameAssumption
<1> QED
  BY <1>1 DEF Initial

LEMMA ComeSteps ==
    ASSUME ~Interleaved, StepsInv, IsTeams(teams), Come
    PROVE  StepsGo
<1> USE GameAssumption DEF Players, Statuses
<1>1. ASSUME NEW p \in Humans, PreEnter(p) PROVE StepsGo
  <2>1. Idle /\ \A q \in Players : status[q] # "arriving"
    BY <1>1, MayRunIdle, IdleArrivals DEF PreEnter, Threads
  <2>2. /\ status[p] = "away" /\ status' = [status EXCEPT ![p] = "entering"]
        /\ UNCHANGED <<conf, ownervars, queue, doing>>
    BY <1>1 DEF PreEnter
  <2>3. PICK f : f \in Int /\ freq' = [freq EXCEPT ![p] = f]
    <3>1. PICK wanted, lagged, early, grace :
              freq' = [freq EXCEPT ![p] =
                  (IF "spec" \in arenaLock THEN <<SHIP_SPEC, SpecFreq>>
                   ELSE Initial(p, wanted, CanEnterGame(lagged), early, grace))[2]]
      BY <1>1 DEF PreEnter
    <3>2. PICK place : place = Initial(p, wanted, CanEnterGame(lagged), early, grace)
      OBVIOUS
    <3>3. place[2] \in Int
      BY <3>2, InitialFits DEF StepsInv, TypesFit
    <3>4. PICK f : f = IF "spec" \in arenaLock THEN SpecFreq ELSE place[2]
      OBVIOUS
    <3>5. freq' = [freq EXCEPT ![p] = f] /\ f \in Int
      BY <3>1, <3>2, <3>3, <3>4
    <3> QED
      BY <3>5
  <2>4. TypesFit' /\ FakesFit' /\ \A q \in Players : status'[q] # "arriving"
    BY <2>1, <2>2, <2>3 DEF StepsInv, TypesFit, FakesFit
  <2>5. KicksFit' /\ QueueFits'
    BY <2>2 DEF StepsInv, TypesFit, KicksFit, Acted, QueueFits, ownervars
  <2> QED
    BY <2>1, <2>2, <2>4, <2>5, IdleStep
<1>2. ASSUME NEW p \in Humans, Synced(p) PROVE StepsGo
  <2>1. /\ status[p] = "entering" /\ status' = [status EXCEPT ![p] = "synced"]
        /\ UNCHANGED <<conf, ownervars, queue, doing>>
        /\ freq' \in {freq, [freq EXCEPT ![p] = SpecFreq]}
    BY <1>2 DEF Synced, SetData
  <2>2. TypesFit' /\ FakesFit'
    BY <2>1 DEF StepsInv, TypesFit, FakesFit
  <2>3. /\ \A q \in Players \ {p} : status'[q] = status[q] /\ freq'[q] = freq[q]
        /\ p \in Players /\ status'[p] = "synced" /\ Acted' = Acted /\ p \notin Acted
    BY <2>1 DEF StepsInv, TypesFit, Acted
  <2>4. KicksFit' /\ QueueFits' /\ ArrivalsFit' /\ OneWorks'
    BY <2>1, <2>3 DEF StepsInv, KicksFit, QueueFits, ownervars, ArrivalsFit, OneWorks
  <2>5. WorkFits'
    <3>1. \A x : (Later(x)' <=> Later(x)) /\ (Now(x) => Now(x)')
      BY <2>1, <2>3 DEF Later, Now, Acted
    <3> QED
      BY <2>1, <3>1 DEF StepsInv, WorkFits, Works
  <2> QED
    BY <2>1, <2>2, <2>4, <2>5 DEF StepsInv, StepsGo
<1>3. ASSUME NEW p \in Humans, Enter(p) PROVE StepsGo
  <2>1. Idle /\ \A q \in Players : status[q] # "arriving"
    BY <1>3, MayRunIdle, IdleArrivals DEF Enter, Threads
  <2>2. PICK x : x = [do |-> "enter", p |-> p]
    OBVIOUS
  <2>3. /\ status[p] = "synced" /\ status' = [status EXCEPT ![p] = "arriving"]
        /\ UNCHANGED <<conf, freq, ownervars, queue>> /\ Begin("main", <<x>>)
    BY <1>3, <2>2 DEF Enter
  <2>4. TypesFit' /\ FakesFit'
    BY <2>3 DEF StepsInv, TypesFit, FakesFit, Begin
  <2>5. KicksFit' /\ QueueFits'
    BY <2>3 DEF StepsInv, TypesFit, KicksFit, Acted, QueueFits, ownervars
  <2>6. /\ status'[p] = "arriving"
        /\ \A q \in Players \ {p} : status'[q] # "arriving"
    BY <2>1, <2>3 DEF StepsInv, TypesFit
  <2>7. PICK s : s = <<x>>
    OBVIOUS
  <2>a. s \in Seq({x}) /\ Len(s) = 1 /\ Head(s) = x /\ s # <<>>
    BY <2>7
  <2>8. Works(s)'
    <3>1. Now(x)'
      BY <2>2, <2>6 DEF Now
    <3>2. IsSeq(s) /\ \A i \in 2 .. Len(s) : FALSE
      BY <2>a DEF IsSeq
    <3> QED
      BY <2>a, <3>1, <3>2 DEF Works
  <2>9. \A q \in Players : status'[q] = "arriving" =>
            s # <<>> /\ Head(s).do = "enter" /\ Head(s).p = q
    BY <2>2, <2>6, <2>a
  <2>b. Follows(s)
    BY <2>2, <2>a DEF Follows, Comes
  <2> QED
    BY <2>b, <2>1, <2>3, <2>4, <2>5, <2>7, <2>8, <2>9, BeginStep DEF Threads
<1> QED
  BY <1>1, <1>2, <1>3 DEF Come

LEMMA GoSteps ==
    ASSUME ~Interleaved, StepsInv, Go
    PROVE  StepsGo
<1> USE GameAssumption DEF Players, Statuses
<1>1. ASSUME NEW p \in Humans, MayRun("main") \/ MayRun("net"), UNCHANGED <<conf, queue, doing>>,
             NEW s \in {"leaving", "left", "away"}, status' = [status EXCEPT ![p] = s],
             NEW n \in Int, freq' \in {freq, [freq EXCEPT ![p] = n]}, kicks' \subseteq kicks,
             p \notin kicks' \/ s = "leaving"
      PROVE  StepsGo
  <2>1. Idle /\ \A q \in Players : status[q] # "arriving"
    BY <1>1, MayRunIdle, IdleArrivals DEF Threads
  <2>2. TypesFit' /\ FakesFit' /\ \A q \in Players : status'[q] # "arriving"
    BY <1>1, <2>1 DEF StepsInv, TypesFit, FakesFit
  <2>3. KicksFit' /\ QueueFits'
    BY <1>1 DEF StepsInv, TypesFit, KicksFit, Acted, QueueFits
  <2> QED
    BY <1>1, <2>1, <2>2, <2>3, IdleStep
<1>2. -1 \in Int
  OBVIOUS
<1>3. ASSUME NEW p \in Humans, Leave(p) PROVE StepsGo
  <2>1. status' = [status EXCEPT ![p] = "leaving"] /\ freq' \in {freq, [freq EXCEPT ![p] = -1]}
    BY <1>3 DEF Leave
  <2> QED
    BY <1>1, <1>2, <1>3, <2>1 DEF Leave, ownervars
<1>4. ASSUME NEW p \in Humans, LeaveCallbacks(p) PROVE StepsGo
  <2>1. status' = [status EXCEPT ![p] = "left"] /\ freq' \in {freq, [freq EXCEPT ![p] = -1]}
    BY <1>4 DEF LeaveCallbacks
  <2> QED
    BY <1>1, <1>2, <1>4, <2>1 DEF LeaveCallbacks, OwnersEnterLeave
<1>5. ASSUME NEW p \in Humans, GiveUp(p) PROVE StepsGo
  <2>1. status' = [status EXCEPT ![p] = "left"] /\ freq' \in {freq, [freq EXCEPT ![p] = -1]}
    BY <1>5 DEF GiveUp
  <2>2. p \notin kicks
    BY <1>5 DEF GiveUp, StepsInv, KicksFit, Acted
  <2> QED
    BY <1>1, <1>2, <1>5, <2>1, <2>2 DEF GiveUp, ownervars
<1>6. ASSUME NEW p \in Humans, GoAway(p) PROVE StepsGo
  <2>1. status' = [status EXCEPT ![p] = "away"] /\ freq' \in {freq, [freq EXCEPT ![p] = -1]}
    BY <1>6 DEF GoAway
  <2>2. p \notin kicks
    BY <1>6 DEF GoAway, StepsInv, KicksFit, Acted
  <2> QED
    BY <1>1, <1>2, <1>6, <2>1, <2>2 DEF GoAway, ownervars
<1> QED
  BY <1>3, <1>4, <1>5, <1>6 DEF Go

LEMMA EnterSteps ==
    ASSUME StepsInv, EnterCallbacks
    PROVE  StepsGo
<1> USE DEF Players, Statuses
<1>d. PICK d : d = doing["main"]
  OBVIOUS
<1>p. PICK p : p = Head(d).p
  OBVIOUS
<1>s. PICK s : s = <<>> \o Tail(d)
  OBVIOUS
<1>1. /\ d # <<>> /\ Head(d).do = "enter" /\ doing' = [doing EXCEPT !["main"] = s]
      /\ status' = [status EXCEPT ![p] = IF @ = "arriving" THEN "playing" ELSE @]
      /\ UNCHANGED <<conf, freq, queue>> /\ kicks' = kicks \ {p}
  BY <1>d, <1>p, <1>s DEF EnterCallbacks, At, Done, OwnersEnterLeave
<1>2. Works(d)
  BY <1>d DEF StepsInv, WorkFits, Threads
<1>3. p \in Humans /\ status[p] = "arriving"
  BY <1>1, <1>2, <1>p DEF Works, Now, Later
<1>4. /\ status'[p] = "playing" /\ \A q \in Players \ {p} : status'[q] = status[q]
      /\ status' \in [Players -> Statuses] /\ Acted' = Acted \cup {p}
  BY <1>1, <1>3 DEF StepsInv, TypesFit, Acted
<1>5. \A q \in Players : status'[q] # "arriving"
  BY <1>4, <1>d, <1>p DEF StepsInv, ArrivalsFit
<1>6. TypesFit' /\ FakesFit' /\ KicksFit' /\ QueueFits'
  BY <1>1, <1>3, <1>4, GameAssumption DEF StepsInv, TypesFit, FakesFit, KicksFit, QueueFits
<1>7. \A x : Later(x) => Later(x)'
  BY <1>4 DEF Later
<1>8. Works(s)' /\ Follows(s)
  <2>1. IsSeq(d) /\ \A i \in 2 .. Len(d) : Later(d[i])
    BY <1>2 DEF Works
  <2>2. /\ <<>> \o Tail(d) = Tail(d) /\ IsSeq(Tail(d)) /\ Len(Tail(d)) = Len(d) - 1 /\ Len(d) \in Nat
        /\ \A i \in 1 .. Len(d) - 1 : Tail(d)[i] = d[i + 1]
        /\ Tail(d) # <<>> => Len(d) > 1 /\ Head(Tail(d)) = d[2]
    BY <1>1, <2>1, Drops
  <2>3. \A i \in 2 .. Len(s) : Later(s[i])
    <3> SUFFICES ASSUME NEW i \in 2 .. Len(s) PROVE Later(s[i])
      OBVIOUS
    <3>1. i \in 1 .. Len(d) - 1 /\ i + 1 \in 2 .. Len(d)
      BY <1>s, <2>2
    <3> QED
      BY <1>s, <2>1, <2>2, <3>1
  <2>4. s # <<>> => Later(Head(s))
    BY <1>s, <2>1, <2>2
  <2>5. IsSeq(s)
    BY <1>s, <2>2
  <2> QED
    BY <1>7, <2>3, <2>4, <2>5 DEF Works, Now, Later, Follows, Comes
<1> QED
  BY <1>1, <1>5, <1>6, <1>8, <1>d, DoneStep DEF Threads

LEMMA PlayersAct ==
    ASSUME StepsInv, Idle
    PROVE  Playing \subseteq Acted /\ IsFiniteSet(Playing)
<1>1. Playing \subseteq Acted
  BY IdleArrivals DEF Playing, Acted
<1>2. IsFiniteSet(Players)
  BY ArenaAssumption, FS_Union DEF Players
<1> QED
  BY <1>1, <1>2, FS_Subset DEF Playing

\* The steps that commands begin.
Asks(T, how, s, f) == OnAll(T, LAMBDA p : <<Ask(p, how, s, f)>>)
Locks(T, spec, v) == OnAll(T, LAMBDA p : (IF spec THEN <<PutInSpec(p)>> ELSE <<>>) \o <<ToLock(p, v)>>)

LEMMA OnAllAsk ==
    ASSUME NEW T, IsFiniteSet(T), NEW how, NEW s, NEW f
    PROVE  Asks(T, how, s, f) \in Seq({Ask(p, how, s, f) : p \in T})
<1> DEFINE Y == {Ask(p, how, s, f) : p \in T}
           g == [p \in T |-> <<Ask(p, how, s, f)>>]
           it == CHOOSE h : h = [U \in SUBSET T |-> IF U = {} THEN <<>>
                     ELSE h[U \ {CHOOSE p \in U : TRUE}] \o <<Ask(CHOOSE p \in U : TRUE, how, s, f)>>]
<1>1. Asks(T, how, s, f) = it[T]
  BY DEF Asks, OnAll, FoldSet, MapThenFoldSet
<1>2. \A p \in T : g[p] \in Seq(Y)
  <2>1. ASSUME NEW p \in T PROVE <<Ask(p, how, s, f)>> \in Seq(Y)
    <3>1. Ask(p, how, s, f) \in Y
      OBVIOUS
    <3> HIDE DEF Y
    <3> QED
      BY <3>1
  <2> HIDE DEF Y
  <2> QED
    BY <2>1
<1>3. \E h : Joins(h, g, T)
  <2> HIDE DEF g, Y
  <2> QED
    BY <1>2, JoinsExists
<1>4. \A h : Joins(h, g, T) <=>
          h = [U \in SUBSET T |-> IF U = {} THEN <<>>
                   ELSE h[U \ {CHOOSE p \in U : TRUE}] \o <<Ask(CHOOSE p \in U : TRUE, how, s, f)>>]
  <2>1. \A U \in SUBSET T : U # {} => g[First(U)] = <<Ask(CHOOSE p \in U : TRUE, how, s, f)>>
    BY DEF First
  <2> HIDE DEF g
  <2> QED
    BY <2>1, ZenonT(60) DEF Joins, First
<1>5. Joins(it, g, T)
  <2>1. \E h : h = [U \in SUBSET T |-> IF U = {} THEN <<>>
                   ELSE h[U \ {CHOOSE p \in U : TRUE}] \o <<Ask(CHOOSE p \in U : TRUE, how, s, f)>>]
    <3>1. PICK h : Joins(h, g, T)
      BY <1>3
    <3> HIDE DEF g
    <3>2. h = [U \in SUBSET T |-> IF U = {} THEN <<>>
                  ELSE h[U \ {CHOOSE p \in U : TRUE}] \o <<Ask(CHOOSE p \in U : TRUE, how, s, f)>>]
      BY <1>4, <3>1, Zenon
    <3> QED
      BY <3>2, Zenon
  <2>2. it = [U \in SUBSET T |-> IF U = {} THEN <<>>
                  ELSE it[U \ {CHOOSE p \in U : TRUE}] \o <<Ask(CHOOSE p \in U : TRUE, how, s, f)>>]
    BY <2>1
  <2> HIDE DEF it, g
  <2> QED
    BY <1>4, <2>2
<1>6. it[T] \in Seq(Y)
  <2> HIDE DEF it, g, Y
  <2> QED
    BY <1>2, <1>5, JoinsFit
<1> QED
  BY <1>1, <1>6

LEMMA OnAllLock ==
    ASSUME NEW T, IsFiniteSet(T), NEW spec \in BOOLEAN, NEW v
    PROVE  Locks(T, spec, v)
               \in Seq({PutInSpec(p) : p \in T} \cup {ToLock(p, v) : p \in T})
<1> DEFINE Y == {PutInSpec(p) : p \in T} \cup {ToLock(p, v) : p \in T}
           g == [p \in T |-> (IF spec THEN <<PutInSpec(p)>> ELSE <<>>) \o <<ToLock(p, v)>>]
           it == CHOOSE h : h = [U \in SUBSET T |-> IF U = {} THEN <<>>
                     ELSE h[U \ {CHOOSE p \in U : TRUE}]
                            \o ((IF spec THEN <<PutInSpec(CHOOSE p \in U : TRUE)>> ELSE <<>>)
                                 \o <<ToLock(CHOOSE p \in U : TRUE, v)>>)]
<1>1. Locks(T, spec, v) = it[T]
  BY DEF Locks, OnAll, FoldSet, MapThenFoldSet
<1>2. \A p \in T : g[p] \in Seq(Y)
  <2>1. ASSUME NEW p \in T
        PROVE  (IF spec THEN <<PutInSpec(p)>> ELSE <<>>) \o <<ToLock(p, v)>> \in Seq(Y)
    <3>1. PutInSpec(p) \in Y /\ ToLock(p, v) \in Y
      OBVIOUS
    <3> HIDE DEF Y
    <3>2. <<PutInSpec(p)>> \in Seq(Y) /\ <<>> \in Seq(Y) /\ <<ToLock(p, v)>> \in Seq(Y)
      BY <3>1
    <3> QED
      BY <3>2
  <2> HIDE DEF Y
  <2> QED
    BY <2>1
<1>3. \E h : Joins(h, g, T)
  <2> HIDE DEF g, Y
  <2> QED
    BY <1>2, JoinsExists
<1>4. \A h : Joins(h, g, T) <=>
          h = [U \in SUBSET T |-> IF U = {} THEN <<>>
                   ELSE h[U \ {CHOOSE p \in U : TRUE}]
                            \o ((IF spec THEN <<PutInSpec(CHOOSE p \in U : TRUE)>> ELSE <<>>)
                                 \o <<ToLock(CHOOSE p \in U : TRUE, v)>>)]
  <2>1. \A U \in SUBSET T : U # {} =>
            g[First(U)] = (IF spec THEN <<PutInSpec(CHOOSE p \in U : TRUE)>> ELSE <<>>)
                              \o <<ToLock(CHOOSE p \in U : TRUE, v)>>
    BY DEF First
  <2> HIDE DEF g
  <2> QED
    BY <2>1, ZenonT(60) DEF Joins, First
<1>5. Joins(it, g, T)
  <2>1. \E h : h = [U \in SUBSET T |-> IF U = {} THEN <<>>
                   ELSE h[U \ {CHOOSE p \in U : TRUE}]
                            \o ((IF spec THEN <<PutInSpec(CHOOSE p \in U : TRUE)>> ELSE <<>>)
                                 \o <<ToLock(CHOOSE p \in U : TRUE, v)>>)]
    <3>1. PICK h : Joins(h, g, T)
      BY <1>3
    <3> HIDE DEF g
    <3>2. h = [U \in SUBSET T |-> IF U = {} THEN <<>>
                   ELSE h[U \ {CHOOSE p \in U : TRUE}]
                            \o ((IF spec THEN <<PutInSpec(CHOOSE p \in U : TRUE)>> ELSE <<>>)
                                 \o <<ToLock(CHOOSE p \in U : TRUE, v)>>)]
      BY <1>4, <3>1, Zenon
    <3> QED
      BY <3>2, Zenon
  <2>2. it = [U \in SUBSET T |-> IF U = {} THEN <<>>
                   ELSE it[U \ {CHOOSE p \in U : TRUE}]
                            \o ((IF spec THEN <<PutInSpec(CHOOSE p \in U : TRUE)>> ELSE <<>>)
                                 \o <<ToLock(CHOOSE p \in U : TRUE, v)>>)]
    BY <2>1
  <2> HIDE DEF it, g
  <2> QED
    BY <1>4, <2>2
<1>6. it[T] \in Seq(Y)
  <2> HIDE DEF it, g, Y
  <2> QED
    BY <1>2, <1>5, JoinsFit
<1> QED
  BY <1>1, <1>6

LEMMA RequestsFit ==
    ASSUME NEW p, NEW calls, calls = {} \/ \E c : calls = {c}
    PROVE  Requests(p, calls) \in Seq({Ask(p, c.set, c.ship, c.freq) : c \in calls})
<1> DEFINE S == {Ask(p, c.set, c.ship, c.freq) : c \in calls}
<1>1. Requests(p, calls) = SetToSeq(S)
  BY DEF Requests
<1>2. S = {} \/ \E x : S = {x}
  OBVIOUS
<1> HIDE DEF S
<1>3. SetToSeq(S) \in Seq(S)
  <2>1. Cardinality(S) \in Nat /\ (S = {} => Cardinality(S) = 0) /\ (S # {} => Cardinality(S) = 1)
    <3>1. CASE S = {}
      BY <3>1, FS_EmptySet
    <3>2. CASE S # {}
      <4>1. PICK x : S = {x}
        BY <1>2, <3>2
      <4>2. Cardinality({x}) = 1
        BY FS_Singleton
      <4> QED
        BY <3>2, <4>1, <4>2
    <3> QED
      BY <3>1, <3>2
  <2>2. \E f \in [1 .. Cardinality(S) -> S] : IsInjective(f)
    <3>1. CASE S = {}
      <4>1. [i \in 1 .. 0 |-> 0] \in [1 .. Cardinality(S) -> S] /\ IsInjective([i \in 1 .. 0 |-> 0])
        BY <2>1, <3>1 DEF IsInjective
      <4> QED
        BY <4>1
    <3>2. CASE S # {}
      <4>1. PICK x : S = {x}
        BY <1>2, <3>2
      <4>2. [i \in 1 .. 1 |-> x] \in [1 .. Cardinality(S) -> S] /\ IsInjective([i \in 1 .. 1 |-> x])
        BY <2>1, <4>1 DEF IsInjective
      <4> QED
        BY <4>2
    <3> QED
      BY <3>1, <3>2
  <2>3. SetToSeq(S) \in [1 .. Cardinality(S) -> S]
    BY <2>2 DEF SetToSeq
  <2> QED
    BY <2>1, <2>3, SeqDef
<1> QED
  BY <1>1, <1>3 DEF S

LEMMA ShipChangeFits ==
    ASSUME IsTeams(teams), conf \in Configs, NEW p \in Players, freq \in [Players -> Int],
           NEW wanted, NEW in, NEW early, NEW grace
    PROVE  /\ (ShipChange(p, wanted, in, early, grace) = {} \/ \E c : ShipChange(p, wanted, in, early, grace) = {c})
           /\ \A c \in ShipChange(p, wanted, in, early, grace) : c.freq \in Int
<1>1. FindEntryFreq(p, grace) \in Int /\ SpecFreq \in Int /\ freq[p] \in Int
  BY EntryFreqFits, GameAssumption
<1>2. \A s, f : Both(s, f).freq = f
  BY DEF Both
<1>3. PICK f : f \in Int /\ \E s, full : ShipChange(p, wanted, in, early, grace) =
          IF wanted = SHIP_SPEC THEN {Both(SHIP_SPEC, SpecFreq)}
          ELSE IF ~InShip(p) /\ (~in \/ full) THEN {} ELSE {Both(s, f)}
  <2> DEFINE coming == ~InShip(p)
             f == IF coming /\ freq[p] = SpecFreq THEN FindEntryFreq(p, grace) ELSE freq[p]
             s == ShipOf(p, wanted, AllowableShips(p, f, early))
             full == coming /\ freq[p] # SpecFreq /\ ~conf.countSpecs /\ ~FreqNotFull(f)
             g == IF s = SHIP_SPEC /\ conf.noTeamSpecs THEN SpecFreq ELSE f
  <2>1. ShipChange(p, wanted, in, early, grace) =
            IF wanted = SHIP_SPEC THEN {Both(SHIP_SPEC, SpecFreq)}
            ELSE IF ~InShip(p) /\ (~in \/ full) THEN {} ELSE {Both(s, g)}
    BY DEF ShipChange
  <2>2. g \in Int
    BY <1>1
  <2> HIDE DEF s, full, g
  <2> QED
    BY <2>1, <2>2
<1>4. PICK s, full : ShipChange(p, wanted, in, early, grace) =
          IF wanted = SHIP_SPEC THEN {Both(SHIP_SPEC, SpecFreq)}
          ELSE IF ~InShip(p) /\ (~in \/ full) THEN {} ELSE {Both(s, f)}
  BY <1>3
<1>5. PICK S : S = ShipChange(p, wanted, in, early, grace)
  OBVIOUS
<1>6. \/ S = {} \/ S = {Both(SHIP_SPEC, SpecFreq)} \/ S = {Both(s, f)}
  BY <1>4, <1>5
<1>7. (S = {} \/ \E c : S = {c}) /\ \A c \in S : c.freq \in Int
  BY <1>1, <1>2, <1>3, <1>6
<1> QED
  BY <1>5, <1>7

LEMMA FreqChangeFits ==
    ASSUME conf \in Configs, NEW p \in Players, NEW f \in conf.freqs, NEW in, NEW early, NEW grace
    PROVE  /\ (FreqChange(p, f, in, early, grace) = {} \/ \E c : FreqChange(p, f, in, early, grace) = {c})
           /\ \A c \in FreqChange(p, f, in, early, grace) : c.freq \in Int
<1>1. f \in Int /\ SpecFreq \in Int
  BY ArenaAssumption, GameAssumption
<1>2. \A s, g : Both(s, g).freq = g /\ OnlyFreq(g).freq = g
  BY DEF Both, OnlyFreq
<1>3. PICK S : S = FreqChange(p, f, in, early, grace)
  OBVIOUS
<1>4. \/ S = {} \/ S = {OnlyFreq(SpecFreq)} \/ \E s : S = {Both(s, f)}
  <2> DEFINE mask == AllowableShips(p, f, early)
             first == IF mask = {} THEN SHIP_SPEC ELSE Least(mask)
             s == IF InShip(p) THEN IF ship[p] \in mask THEN ship[p] ELSE first
                  ELSE IF conf.noTeamSpecs THEN first ELSE SHIP_SPEC
  <2>1. FreqChange(p, f, in, early, grace) \in {{}, {OnlyFreq(SpecFreq)}, {Both(s, f)}}
    BY DEF FreqChange
  <2> HIDE DEF s
  <2> QED
    BY <1>3, <2>1
<1>5. (S = {} \/ \E c : S = {c}) /\ \A c \in S : c.freq \in Int
  BY <1>1, <1>2, <1>4
<1> QED
  BY <1>3, <1>5

\* What packets and commands begin.
LEMMA BeginAll ==
    ASSUME ~Interleaved, StepsInv, NEW t \in Threads, MayRun(t), NEW s, Begin(t, s),
           NEW Y, s \in Seq(Y), \A y \in Y : Later(y),
           UNCHANGED <<status, freq, conf, queue>>, kicks' \subseteq kicks
    PROVE  StepsGo
<1>1. Works(s)
  BY Starts
<1>2. s # <<>> => Head(s) \in Y
  OBVIOUS
<1>3. Follows(s)
  BY <1>2 DEF Later, Follows, Comes
<1> QED
  BY <1>1, <1>3, MayRunIdle, BeginLater

LEMMA AskFits ==
    ASSUME NEW p \in Acted, NEW how, NEW s, NEW f \in Int
    PROVE  Later(Ask(p, how, s, f))
BY DEF Later, Ask

LEMMA BeginAsk ==
    ASSUME ~Interleaved, StepsInv, NEW t \in Threads, MayRun(t), NEW p \in Acted, NEW s,
           Begin(t, s), NEW how, s \in {<<>>, <<Ask(p, how, SHIP_SPEC, SpecFreq)>>},
           UNCHANGED <<status, freq, conf, queue>>, kicks' \subseteq kicks
    PROVE  StepsGo
<1>1. PICK x : x = Ask(p, how, SHIP_SPEC, SpecFreq)
  OBVIOUS
<1>2. Later(x)
  BY <1>1, AskFits, GameAssumption
<1>3. s \in Seq({x})
  <2>1. s = <<>> \/ s = <<x>>
    BY <1>1
  <2>2. <<>> \in Seq({x}) /\ <<x>> \in Seq({x})
    OBVIOUS
  <2> QED
    BY <2>1, <2>2
<1> QED
  BY <1>2, <1>3, BeginAll

\* A single step of another kind.
LEMMA BeginOne ==
    ASSUME ~Interleaved, StepsInv, NEW t \in Threads, MayRun(t), NEW x, Now(x), Comes(x), Begin(t, <<x>>),
           UNCHANGED <<status, freq, conf, queue, kicks>>
    PROVE  StepsGo
<1>1. PICK s : s = <<x>>
  OBVIOUS
<1>2. s \in Seq({x}) /\ Len(s) = 1 /\ Head(s) = x /\ s # <<>>
  BY <1>1
<1>3. Works(s)
  <2>1. IsSeq(s) /\ \A i \in 2 .. Len(s) : FALSE
    BY <1>2 DEF IsSeq
  <2> QED
    BY <1>2, <2>1 DEF Works
<1>4. Follows(s)
  BY <1>2 DEF Follows
<1> QED
  BY <1>1, <1>2, <1>3, <1>4, MayRunIdle, BeginLater

LEMMA PacketSteps ==
    ASSUME ~Interleaved, StepsInv, IsTeams(teams), kicks' = kicks, NEW p \in Humans,
           \/ \E s \in Ships \cup {SHIP_SPEC} : PSetShip(p, s)
           \/ \E f \in conf.freqs : PSetFreq(p, f)
           \/ \E q \in Players \cup {NoPlayer} : PSpecRequest(p, q)
           \/ Ack(p) \/ PMapRequest(p) \/ SpecForLag(p)
    PROVE  StepsGo
<1>t. "net" \in Threads /\ "main" \in Threads /\ p \in Players
  BY DEF Threads, Players
<1>a. ASSUME NEW t \in Threads, MayRun(t), p \in Playing PROVE p \in Acted
  BY <1>a, MayRunIdle, PlayersAct
<1>b. ASSUME NEW calls, (calls = {} \/ \E c : calls = {c}), \A c \in calls : c.freq \in Int,
             MayRun("net"), p \in Playing, NEW late,
             Begin("net", IF late THEN <<>> ELSE Requests(p, calls)),
             UNCHANGED <<status, freq, conf, queue>>
      PROVE  StepsGo
  <2>1. PICK Y : Y = {Ask(p, c.set, c.ship, c.freq) : c \in calls}
    OBVIOUS
  <2>2. \A y \in Y : Later(y)
    BY <1>a, <1>b, <1>t, <2>1, AskFits
  <2>3. PICK s : s = IF late THEN <<>> ELSE Requests(p, calls)
    OBVIOUS
  <2>4. s \in Seq(Y)
    <3>1. calls = {} \/ \E c : calls = {c}
      BY <1>b
    <3>2. Requests(p, calls) \in Seq({Ask(p, c.set, c.ship, c.freq) : c \in calls})
      BY <3>1, RequestsFit
    <3>3. Requests(p, calls) \in Seq(Y)
      BY <2>1, <3>2
    <3> QED
      BY <2>3, <3>3
  <2> QED
    BY <1>b, <1>t, <2>2, <2>3, <2>4, BeginAll
<1>1. ASSUME NEW s \in Ships \cup {SHIP_SPEC}, PSetShip(p, s) PROVE StepsGo
  <2>1. PICK lagged \in BOOLEAN, early \in Early, grace \in Grace :
            Begin("net", IF p \in locked' /\ s # SHIP_SPEC /\ p \notin Staff THEN <<>>
                         ELSE Requests(p, ShipChange(p, s, CanEnterGame(lagged), early, grace)))
    BY <1>1 DEF PSetShip
  <2>i. PICK in : in = CanEnterGame(lagged)
    OBVIOUS
  <2>2. PICK calls : calls = ShipChange(p, s, in, early, grace)
    OBVIOUS
  <2>3. (calls = {} \/ \E c : calls = {c}) /\ \A c \in calls : c.freq \in Int
    <3>1. conf \in Configs /\ freq \in [Players -> Int]
      BY DEF StepsInv, TypesFit
    <3>2. /\ (ShipChange(p, s, in, early, grace) = {} \/ \E c : ShipChange(p, s, in, early, grace) = {c})
          /\ \A c \in ShipChange(p, s, in, early, grace) : c.freq \in Int
      BY <1>t, <3>1, ShipChangeFits
    <3> QED
      BY <2>2, <3>2
  <2>4. PICK late : late = (p \in locked' /\ s # SHIP_SPEC /\ p \notin Staff)
    OBVIOUS
  <2>5. Begin("net", IF late THEN <<>> ELSE Requests(p, calls))
    BY <2>1, <2>2, <2>4, <2>i
  <2>6. MayRun("net") /\ p \in Playing /\ UNCHANGED <<status, freq, conf, queue>>
    BY <1>1 DEF PSetShip
  <2> QED
    BY <1>b, <2>3, <2>5, <2>6
<1>2. ASSUME NEW f \in conf.freqs, PSetFreq(p, f) PROVE StepsGo
  <2>1. PICK lagged \in BOOLEAN, early \in Early, grace \in Grace :
            Begin("net", IF p \in locked' /\ p \notin Staff THEN <<>>
                         ELSE Requests(p, FreqChange(p, f, CanEnterGame(lagged), early, grace)))
    BY <1>2 DEF PSetFreq
  <2>i. PICK in : in = CanEnterGame(lagged)
    OBVIOUS
  <2>2. PICK calls : calls = FreqChange(p, f, in, early, grace)
    OBVIOUS
  <2>3. (calls = {} \/ \E c : calls = {c}) /\ \A c \in calls : c.freq \in Int
    <3>1. conf \in Configs /\ freq \in [Players -> Int]
      BY DEF StepsInv, TypesFit
    <3>2. /\ (FreqChange(p, f, in, early, grace) = {} \/ \E c : FreqChange(p, f, in, early, grace) = {c})
          /\ \A c \in FreqChange(p, f, in, early, grace) : c.freq \in Int
      BY <1>t, <3>1, FreqChangeFits
    <3> QED
      BY <2>2, <3>2
  <2>4. PICK late : late = (p \in locked' /\ p \notin Staff)
    OBVIOUS
  <2>5. Begin("net", IF late THEN <<>> ELSE Requests(p, calls))
    BY <2>1, <2>2, <2>4, <2>i
  <2>6. MayRun("net") /\ p \in Playing /\ UNCHANGED <<status, freq, conf, queue>>
    BY <1>2 DEF PSetFreq
  <2> QED
    BY <1>b, <2>3, <2>5, <2>6
<1>3. ASSUME NEW q, PSpecRequest(p, q) PROVE StepsGo
  <2>1. PICK x : x = ToWatch(p, q)
    OBVIOUS
  <2>2. MayRun("net") /\ p \in Acted
    BY <1>3, <1>a, <1>t DEF PSpecRequest
  <2>3. Now(x) /\ Comes(x)
    BY <2>1, <2>2 DEF Now, ToWatch, Comes
  <2> QED
    BY <1>3, <1>t, <2>1, <2>2, <2>3, BeginOne DEF PSpecRequest
<1>4. ASSUME Ack(p) PROVE StepsGo
  BY <1>4, KeptStep DEF Ack
<1>5. ASSUME NEW t \in {"main", "net"}, MayRun(t), p \in Playing, NEW how,
             Begin(t, <<Ask(p, how, SHIP_SPEC, SpecFreq)>>), UNCHANGED <<status, freq, conf, queue>>
      PROVE  StepsGo
  <2>1. PICK s : s = <<Ask(p, how, SHIP_SPEC, SpecFreq)>>
    OBVIOUS
  <2> QED
    BY <1>5, <1>a, <1>t, <2>1, BeginAsk
<1>6. ASSUME PMapRequest(p) PROVE StepsGo
  BY <1>5, <1>6 DEF PMapRequest
<1>7. ASSUME SpecForLag(p) PROVE StepsGo
  BY <1>5, <1>7 DEF SpecForLag, PutInSpec
<1> QED
  BY <1>1, <1>2, <1>3, <1>4, <1>6, <1>7

LEMMA CommandSteps ==
    ASSUME ~Interleaved, StepsInv, kicks' = kicks, NEW t \in Threads, Command(t) \/ ArenaLockCommand(t)
    PROVE  StepsGo
<1> USE DEF Players
<1>a. ASSUME NEW T \in SUBSET Playing, MayRun(t) PROVE T \subseteq Acted /\ IsFiniteSet(T)
  BY <1>a, MayRunIdle, PlayersAct, FS_Subset
<1>b. ASSUME MayRun(t), NEW T \in SUBSET Playing, NEW how, NEW s, NEW f \in Int,
             Begin(t, Asks(T, how, s, f)), UNCHANGED <<status, freq, conf, queue>>
      PROVE  StepsGo
  <2>1. PICK w : w = Asks(T, how, s, f)
    OBVIOUS
  <2>2. PICK Y : Y = {Ask(p, how, s, f) : p \in T}
    OBVIOUS
  <2>3. w \in Seq(Y) /\ Begin(t, w)
    <3>1. IsFiniteSet(T)
      BY <1>a, <1>b
    <3>2. Asks(T, how, s, f) \in Seq({Ask(p, how, s, f) : p \in T})
      BY <3>1, OnAllAsk
    <3> QED
      BY <1>b, <2>1, <2>2, <3>2
  <2>4. \A y \in Y : Later(y)
    BY <1>a, <1>b, <2>2, AskFits
  <2> QED
    BY <1>b, <2>3, <2>4, BeginAll
<1>c. ASSUME MayRun(t), NEW T \in SUBSET (Playing \ Fakes), NEW v, NEW spec \in BOOLEAN,
             Begin(t, Locks(T, spec, v)),
             UNCHANGED <<status, freq, conf, queue>>
      PROVE  StepsGo
  <2>1. PICK w : w = Locks(T, spec, v)
    OBVIOUS
  <2>2. PICK Y : Y = {PutInSpec(p) : p \in T} \cup {ToLock(p, v) : p \in T}
    OBVIOUS
  <2>3. w \in Seq(Y) /\ Begin(t, w)
    BY <1>a, <1>c, <2>1, <2>2, OnAllLock
  <2>4. \A p \in T : p \in Acted /\ p \in Humans
    BY <1>a, <1>c DEF Playing
  <2>5. \A p \in T : Later(ToLock(p, v)) /\ Later(PutInSpec(p))
    BY <2>4, GameAssumption DEF Later, ToLock, PutInSpec, Ask
  <2>6. \A y \in Y : Later(y)
    BY <2>2, <2>5
  <2> QED
    BY <1>c, <2>3, <2>6, BeginAll
<1>1. CASE Command(t)
  <2>1. PICK T \in Targets :
          \/ \E s \in Ships : Begin(t, Asks(T, "ship", s, SpecFreq))
          \/ \E f \in conf.freqs : Begin(t, Asks(T, "freq", SHIP_SPEC, f))
          \/ Begin(t, Asks(T, "both", SHIP_SPEC, SpecFreq))
          \/ \E v \in {"no", "yes", "timed"}, spec \in BOOLEAN :
                Begin(t, Locks(T \ Fakes, spec, v))
    BY <1>1 DEF Command, Asks, Locks, OnAll, FoldSet, MapThenFoldSet
  <2>2. T \in SUBSET Playing /\ T \ Fakes \in SUBSET (Playing \ Fakes)
    BY DEF Targets
  <2>3. MayRun(t) /\ UNCHANGED <<status, freq, conf, queue>>
    BY <1>1 DEF Command
  <2>4. SpecFreq \in Int /\ conf.freqs \subseteq Int
    BY GameAssumption, ArenaAssumption DEF StepsInv, TypesFit
  <2>5. ASSUME NEW s \in Ships, Begin(t, Asks(T, "ship", s, SpecFreq))
        PROVE  StepsGo
    BY <1>b, <2>2, <2>3, <2>4, <2>5
  <2>6. ASSUME NEW f \in conf.freqs, Begin(t, Asks(T, "freq", SHIP_SPEC, f))
        PROVE  StepsGo
    BY <1>b, <2>2, <2>3, <2>4, <2>6
  <2>7. CASE Begin(t, Asks(T, "both", SHIP_SPEC, SpecFreq))
    BY <1>b, <2>2, <2>3, <2>4, <2>7
  <2>8. ASSUME NEW v, NEW spec \in BOOLEAN,
               Begin(t, Locks(T \ Fakes, spec, v))
        PROVE  StepsGo
    BY <1>c, <2>2, <2>3, <2>8
  <2> QED
    BY <2>1, <2>5, <2>6, <2>7, <2>8
<1>2. CASE ArenaLockCommand(t)
  <2>3. PICK v \in {"no", "yes"}, puts \in BOOLEAN : Begin(t, Locks(Playing \ Fakes, puts, v))
    <3>1. \E v \in {"no", "yes"}, spec \in BOOLEAN : Begin(t, Locks(Playing \ Fakes, v = "yes" /\ spec, v))
      BY <1>2 DEF ArenaLockCommand, Locks, OnAll, FoldSet, MapThenFoldSet
    <3> QED
      BY <3>1
  <2>4. MayRun(t) /\ UNCHANGED <<status, freq, conf, queue>>
    BY <1>2 DEF ArenaLockCommand
  <2> QED
    BY <1>c, <2>3, <2>4
<1> QED
  BY <1>1, <1>2

LEMMA QueueGrows ==
    ASSUME QueueFits, NEW x, x.do \in {"change", "endfake"}, x.p \in Players, x.do = "endfake" => x.p \in Fakes,
           queue' = Append(queue, x)
    PROVE  QueueFits'
<1>1. PICK Y : queue \in Seq(Y)
  BY DEF QueueFits, IsSeq
<1>2. PICK Z : Z = Y \cup {x}
  OBVIOUS
<1>3. queue \in Seq(Z) /\ x \in Z
  BY <1>1, <1>2
<1>4. /\ queue' \in Seq(Z) /\ Len(queue') = Len(queue) + 1 /\ Len(queue) \in Nat
      /\ \A i \in 1 .. Len(queue) : queue'[i] = queue[i]
      /\ queue'[Len(queue) + 1] = x
  BY <1>3
<1>5. \A i \in 1 .. Len(queue') : i \in 1 .. Len(queue) \/ i = Len(queue) + 1
  BY <1>4
<1> QED
  BY <1>4, <1>5 DEF QueueFits, IsSeq

LEMMA QueueShrinks ==
    ASSUME QueueFits, queue # <<>>, queue' = Tail(queue)
    PROVE  QueueFits' /\ Head(queue) = queue[1] /\ 1 \in 1 .. Len(queue)
<1>1. PICK Y : queue \in Seq(Y)
  BY DEF QueueFits, IsSeq
<1>2. /\ queue' \in Seq(Y) /\ Len(queue') = Len(queue) - 1 /\ Len(queue) \in Nat /\ Len(queue) > 0
      /\ Head(queue) = queue[1]
  BY <1>1
<1>3. \A i \in 1 .. Len(queue') : i + 1 \in 1 .. Len(queue) /\ queue'[i] = queue[i + 1]
  BY <1>1, <1>2
<1> QED
  BY <1>2, <1>3 DEF QueueFits, IsSeq

LEMMA HeadFits ==
    ASSUME StepsInv, NEW t \in Threads, doing[t] # <<>>
    PROVE  Now(Head(doing[t]))
BY DEF StepsInv, WorkFits, Works

LEMMA GameSteps ==
    ASSUME StepsInv, kicks' = kicks, NEW t \in Threads, GameStep(t)
    PROVE  StepsGo
<1>d. PICK act : act = Head(doing[t])
  OBVIOUS
<1>h. doing[t] # <<>> => Now(act)
  BY <1>d, HeadFits
<1>t. freq \in [Players -> Int] /\ Acted \subseteq Players /\ SpecFreq \in Int /\ QueueFits /\ status \in [Players -> Statuses]
  BY GameAssumption DEF StepsInv, TypesFit, Acted
<1>1. CASE ReadOld(t)
  <2>1. /\ doing[t] # <<>> /\ act.do = "ask" /\ UNCHANGED <<conf, status, freq, queue>>
        /\ \/ Done(t, <<>>)
           \/ Done(t, <<[do |-> "set", p |-> act.p, set |-> act.set, ship |-> act.ship,
                         freq |-> IF act.set = "ship" THEN freq[act.p] ELSE act.freq,
                         oldship |-> ship[act.p], oldfreq |-> freq[act.p]]>>)
    BY <1>1, <1>d DEF ReadOld, At
  <2>2. act.p \in Acted /\ act.freq \in Int
    BY <1>h, <2>1 DEF Now, Later
  <2>3. CASE Done(t, <<>>)
    BY <1>d, <1>t, <2>1, <2>3, DropStep DEF QueueFits
  <2>4. CASE ~Done(t, <<>>)
    <3>1. PICK n : n = IF act.set = "ship" THEN freq[act.p] ELSE act.freq
      OBVIOUS
    <3>2. PICK x : x = [do |-> "set", p |-> act.p, set |-> act.set, ship |-> act.ship,
                        freq |-> n, oldship |-> ship[act.p], oldfreq |-> freq[act.p]]
      OBVIOUS
    <3>3. Done(t, <<x>>)
      BY <2>1, <2>4, <3>1, <3>2
    <3>4. n \in Int
      BY <1>t, <2>2, <3>1
    <3>5. x.do = "set" /\ x.p \in Acted' /\ x.freq \in Int /\ x.oldfreq = freq'[x.p]
      BY <2>1, <2>2, <3>2, <3>4 DEF Acted
    <3> QED
      BY <1>d, <1>t, <2>1, <3>3, <3>5, OtherStep DEF Now, Comes
  <2> QED
    BY <2>3, <2>4
<1>2. CASE SetNew(t)
  <2>1. /\ doing[t] # <<>> /\ act.do = "set" /\ UNCHANGED <<conf, status, queue>>
        /\ \/ Done(t, <<>>) /\ freq' = freq
           \/ /\ freq' = [freq EXCEPT ![act.p] = act.freq]
              /\ \E s, o : Done(t, <<[do |-> "call", p |-> act.p, newship |-> s, newfreq |-> act.freq,
                                      oldship |-> o, oldfreq |-> act.oldfreq]>>)
    BY <1>2, <1>d DEF SetNew, At
  <2>2. act.p \in Acted /\ act.freq \in Int /\ act.oldfreq = freq[act.p]
    BY <1>h, <2>1 DEF Now, Later
  <2>3. CASE Done(t, <<>>) /\ freq' = freq
    BY <1>d, <1>t, <2>1, <2>3, DropStep DEF QueueFits
  <2>4. CASE ~(Done(t, <<>>) /\ freq' = freq)
    <3>1. PICK s, o : Done(t, <<[do |-> "call", p |-> act.p, newship |-> s, newfreq |-> act.freq,
                                 oldship |-> o, oldfreq |-> act.oldfreq]>>)
      BY <2>1, <2>4
    <3>2. PICK x : x = [do |-> "call", p |-> act.p, newship |-> s, newfreq |-> act.freq,
                        oldship |-> o, oldfreq |-> act.oldfreq]
      OBVIOUS
    <3>3. Done(t, <<x>>)
      BY <3>1, <3>2
    <3>4. freq' = [freq EXCEPT ![act.p] = act.freq] /\ freq' \in [Players -> Int]
      BY <1>t, <2>1, <2>2, <2>4
    <3>5. /\ x.do = "call" /\ x.p \in Acted' /\ x.newfreq = freq'[x.p] /\ x.oldfreq \in Int
          /\ {"do", "p"} \subseteq DOMAIN x
      BY <1>t, <2>1, <2>2, <3>2, <3>4 DEF Acted
    <3>6. Comes(x)
      BY <1>d, <2>1, <3>5 DEF Comes, Setting
    <3> QED
      BY <1>d, <2>1, <3>3, <3>4, <3>5, <3>6, OtherStep DEF Now
  <2> QED
    BY <2>3, <2>4
<1>3. CASE CallBack(t)
  <2>1. /\ doing[t] # <<>> /\ act.do = "call" /\ UNCHANGED <<conf, status, freq>> /\ Done(t, <<>>)
        /\ queue' = Append(queue, [act EXCEPT !.do = "change"]) \/ queue' = queue
    BY <1>3, <1>d DEF CallBack, At
  <2>2. act.p \in Acted /\ {"do", "p"} \subseteq DOMAIN act
    BY <1>h, <2>1 DEF Now, Later
  <2>3. PICK x : x = [act EXCEPT !.do = "change"]
    OBVIOUS
  <2>4. x.do = "change" /\ x.p \in Players
    BY <1>t, <2>2, <2>3
  <2>5. CASE queue' = queue
    BY <1>d, <1>t, <2>1, <2>5, DropStep DEF QueueFits
  <2>6. CASE queue' = Append(queue, x)
    BY <1>d, <1>t, <2>1, <2>4, <2>6, DropStep, QueueGrows
  <2> QED
    BY <2>1, <2>3, <2>5, <2>6
<1>4. CASE SetLock(t) \/ Watch(t)
  <2>1. /\ doing[t] # <<>> /\ act.do # "enter" /\ UNCHANGED <<conf, status, freq, queue>> /\ Done(t, <<>>)
    BY <1>4, <1>d DEF SetLock, Watch, At
  <2> QED
    BY <1>d, <1>t, <2>1, DropStep DEF QueueFits
<1> QED
  BY <1>1, <1>2, <1>3, <1>4 DEF GameStep

LEMMA FakeSteps ==
    ASSUME ~Interleaved, StepsInv, kicks' = kicks, NEW p \in Fakes, CreateFakePlayer(p) \/ EndFaked(p)
    PROVE  StepsGo
<1> USE DEF Players, Statuses
<1>1. CASE CreateFakePlayer(p)
  <2>1. PICK f \in conf.freqs : freq' = [freq EXCEPT ![p] = f]
    BY <1>1 DEF CreateFakePlayer
  <2>2. f \in Int
    BY <2>1, ArenaAssumption DEF StepsInv, TypesFit
  <2>3. Idle /\ \A q \in Players : status[q] # "arriving"
    BY <1>1, MayRunIdle, IdleArrivals DEF CreateFakePlayer, Threads
  <2>4. status' = [status EXCEPT ![p] = "playing"] /\ UNCHANGED <<conf, queue, doing>>
    BY <1>1 DEF CreateFakePlayer
  <2>5. TypesFit' /\ FakesFit' /\ \A q \in Players : status'[q] # "arriving"
    BY <2>1, <2>2, <2>3, <2>4 DEF StepsInv, TypesFit, FakesFit
  <2>6. KicksFit' /\ QueueFits'
    BY <2>4 DEF StepsInv, TypesFit, KicksFit, Acted, QueueFits
  <2> QED
    BY <2>3, <2>4, <2>5, <2>6, IdleStep
<1>2. CASE EndFaked(p)
  <2>1. PICK x : x = [do |-> "endfake", p |-> p]
    OBVIOUS
  <2>2. queue' = Append(queue, x) /\ UNCHANGED <<conf, status, freq, doing>>
    BY <1>2, <2>1 DEF EndFaked
  <2>3. QueueFits'
    <3>1. x.do = "endfake" /\ x.p = p /\ QueueFits
      BY <2>1 DEF StepsInv
    <3> QED
      BY <2>2, <3>1, QueueGrows
  <2>4. KicksFit' /\ conf' \in Configs
    BY <2>2 DEF StepsInv, TypesFit, KicksFit, Acted
  <2> QED
    BY <2>2, <2>3, <2>4, StillStep
<1> QED
  BY <1>1, <1>2

LEMMA QueueSteps ==
    ASSUME ~Interleaved, StepsInv, RunChange \/ EndFakeInMain
    PROVE  StepsGo
<1> USE DEF Players, Statuses
<1>1. CASE RunChange
  <2>1. queue # <<>> /\ queue' = Tail(queue) /\ kicks' \subseteq kicks /\ UNCHANGED <<conf, status, freq, doing>>
    BY <1>1 DEF RunChange, OwnersChange, ownervars
  <2>2. QueueFits'
    BY <2>1, QueueShrinks DEF StepsInv
  <2>3. KicksFit' /\ conf' \in Configs
    BY <2>1 DEF StepsInv, TypesFit, KicksFit, Acted
  <2> QED
    BY <2>1, <2>2, <2>3, StillStep
<1>2. CASE EndFakeInMain
  <2>p. PICK p : p = Head(queue).p
    OBVIOUS
  <2>1. /\ queue # <<>> /\ queue' = Tail(queue) /\ Head(queue).do = "endfake"
        /\ status' = [status EXCEPT ![p] = "away"] /\ freq' = [freq EXCEPT ![p] = -1]
        /\ UNCHANGED <<conf, kicks, doing>>
    BY <1>2, <2>p DEF EndFakeInMain
  <2>2. QueueFits' /\ p \in Fakes
    BY <2>p, <2>1, QueueShrinks DEF StepsInv, QueueFits
  <2>3. Idle /\ \A q \in Players : status[q] # "arriving"
    BY <1>2, MayRunIdle, IdleArrivals DEF EndFakeInMain, Threads
  <2>4. TypesFit' /\ FakesFit' /\ \A q \in Players : status'[q] # "arriving"
    BY <2>1, <2>2, <2>3 DEF StepsInv, TypesFit, FakesFit
  <2>5. KicksFit'
    BY <2>1, <2>2, GameAssumption DEF StepsInv, TypesFit, KicksFit, Acted
  <2> QED
    BY <2>1, <2>2, <2>3, <2>4, <2>5, IdleStep
<1> QED
  BY <1>1, <1>2

LEMMA OtherSteps ==
    ASSUME ~Interleaved, StepsInv,
           \/ \E p \in Humans, killer \in Players, fired \in BOOLEAN : PDie(p, killer, fired)
           \/ ConfChanged \/ PlayFlags \/ PlayBalls \/ PlayKoth \/ PlayOwners
    PROVE  StepsGo
<1> USE DEF Players
<1>t. "net" \in Threads /\ "main" \in Threads
  BY DEF Threads
<1>1. ASSUME NEW p \in Humans, NEW killer \in Players, NEW fired \in BOOLEAN, PDie(p, killer, fired) PROVE StepsGo
  <2>1. PICK s : s = IF ~fired /\ deaths[p] = conf.deathLimit THEN <<Ask(p, "both", SHIP_SPEC, SpecFreq)>> ELSE <<>>
    OBVIOUS
  <2>2. Begin("net", s) /\ s \in {<<>>, <<Ask(p, "both", SHIP_SPEC, SpecFreq)>>}
    BY <1>1, <2>1 DEF PDie, GameDie
  <2>3. MayRun("net") /\ p \in Playing /\ UNCHANGED <<status, freq, conf, queue, kicks>>
    BY <1>1 DEF PDie, ownervars
  <2>4. p \in Acted
    BY <1>t, <2>3, MayRunIdle, PlayersAct
  <2> QED
    BY <1>t, <2>2, <2>3, <2>4, BeginAsk
<1>2. CASE ConfChanged
  <2>1. conf' \in Configs /\ UNCHANGED <<status, freq, kicks, queue, doing>>
    BY <1>2 DEF ConfChanged, ownervars
  <2>2. KicksFit' /\ QueueFits'
    BY <2>1 DEF StepsInv, KicksFit, QueueFits, Acted
  <2> QED
    BY <2>1, <2>2, StillStep
<1>b. ASSUME NEW p \in Humans \cap Playing, MayRun("net"), NEW x, x.do \in {"touch", "pickup"}, x.p = p,
             x.do = "touch" => x.flag \in Flags, x.do = "pickup" => Picking, Begin("net", <<x>>),
             UNCHANGED <<status, freq, conf, queue, kicks>>
      PROVE  StepsGo
  <2>1. Playing \subseteq Acted
    BY <1>b, <1>t, MayRunIdle, PlayersAct
  <2>2. Now(x) /\ Comes(x)
    BY <1>b, <2>1 DEF Now, Comes
  <2> QED
    BY <1>b, <1>t, <2>2, BeginOne
<1>d. ASSUME NEW t \in Threads, At(t, "touch") \/ At(t, "pickup"), Done(t, <<>>),
             UNCHANGED <<status, freq, conf, queue, kicks>>
      PROVE  StepsGo
  <2>1. doing[t] # <<>> /\ Head(doing[t]).do # "enter"
    BY <1>d DEF At
  <2>2. QueueFits'
    BY <1>d DEF StepsInv, QueueFits
  <2> QED
    BY <1>d, <2>1, <2>2, DropStep
<1>3. CASE PlayFlags
  <2>1. ASSUME NEW p \in Humans, NEW i \in Flags, PFlagTouch(p, i) PROVE StepsGo
    <3>1. PICK x : x = [do |-> "touch", p |-> p, flag |-> i]
      OBVIOUS
    <3>2. x.do = "touch" /\ x.p = p /\ x.flag \in Flags
      BY <3>1
    <3>3. p \in Humans \cap Playing /\ MayRun("net") /\ Begin("net", <<x>>) /\ UNCHANGED <<status, freq, conf, queue, kicks>>
      BY <1>3, <2>1, <3>1 DEF PFlagTouch, PlayFlags, ownervars
    <3> QED
      BY <1>b, <3>2, <3>3
  <2>2. ASSUME NEW t \in Threads, TouchFlag(t) PROVE StepsGo
    BY <1>3, <1>d, <2>2 DEF TouchFlag, PlayFlags, ownervars
  <2>3. CASE SpawnTimer \/ CheckWin \/ FlagResetCommand \/ \E p \in Humans : PFlagTimer(p)
    <3>1. UNCHANGED <<status, freq, doing, conf, kicks, queue>>
      BY <1>3, <2>3 DEF PlayFlags, ownervars, SpawnTimer, CheckWin, FlagResetCommand, PFlagTimer
    <3> QED
      BY <3>1, KeptStep
  <2> QED
    BY <1>3, <2>1, <2>2, <2>3 DEF PlayFlags
<1>4. CASE PlayBalls
  <2>1. ASSUME NEW p \in Humans, NEW b \in Balls, PPickupBall(p, b) PROVE StepsGo
    <3>1. PICK x : x = [do |-> "pickup", p |-> p, ball |-> b]
      OBVIOUS
    <3>2. x.do = "pickup" /\ x.p = p
      BY <3>1
    <3>3. p \in Humans \cap Playing /\ MayRun("net") /\ Begin("net", <<x>>) /\ UNCHANGED <<status, freq, conf, queue, kicks>>
      BY <1>4, <2>1, <3>1 DEF PPickupBall, PlayBalls, ownervars
    <3> QED
      BY <1>b, <2>1, <3>2, <3>3 DEF Picking
  <2>2. ASSUME NEW t \in Threads, TakeBall(t) PROVE StepsGo
    BY <1>4, <1>d, <2>2 DEF TakeBall, PlayBalls, ownervars
  <2>3. CASE BasicBallTimer \/ BallCommand \/ \E p \in Humans, b \in Balls : PFireBall(p, b) \/ PGoal(p, b)
    <3>1. UNCHANGED <<status, freq, doing, conf, kicks, queue>>
      BY <1>4, <2>3 DEF PlayBalls, ownervars, BasicBallTimer, BallCommand, PFireBall, PGoal
    <3> QED
      BY <3>1, KeptStep
  <2> QED
    BY <1>4, <2>1, <2>2, <2>3 DEF PlayBalls
<1>5. CASE PlayKoth
  <2>1. UNCHANGED <<status, freq, doing, conf, kicks, queue>>
    BY <1>5 DEF PlayKoth, CheckKoth, ResetKoth, PKothExpired, ownervars
  <2> QED
    BY <2>1, KeptStep
<1>6. CASE PlayOwners
  <2>1. ASSUME NEW p \in Humans, NEW q \in Players, TakeOwnership(p) \/ GiveOwner(p, q) PROVE StepsGo
    <3>1. UNCHANGED <<status, freq, doing, conf, kicks, queue>>
      BY <2>1 DEF TakeOwnership, GiveOwner
    <3> QED
      BY <3>1, KeptStep
  <2>2. ASSUME NEW p \in Humans, NEW q \in Players, FreqKick(p, q) PROVE StepsGo
    <3>1. MayRun("net") /\ q \in Playing \cap Humans /\ kicks' = kicks \cup {q} /\ UNCHANGED <<status, freq, doing, conf, queue>>
      BY <2>2 DEF FreqKick
    <3>2. q \in Acted
      BY <1>t, <3>1, MayRunIdle, PlayersAct
    <3>3. KicksFit' /\ QueueFits' /\ conf' \in Configs
      BY <3>1, <3>2 DEF StepsInv, TypesFit, KicksFit, QueueFits, Acted
    <3> QED
      BY <3>1, <3>3, StillStep
  <2>3. ASSUME NEW p \in Humans, KickTimer(p) PROVE StepsGo
    <3>1. PICK s : s = <<Ask(p, "both", SHIP_SPEC, SpecFreq)>>
      OBVIOUS
    <3>2. /\ MayRun("main") /\ p \in kicks /\ kicks' \subseteq kicks /\ Begin("main", s)
          /\ UNCHANGED <<status, freq, conf, queue>>
      BY <2>3, <3>1 DEF KickTimer
    <3>3. p \in Acted
      BY <3>2 DEF StepsInv, KicksFit
    <3> QED
      BY <1>t, <3>1, <3>2, <3>3, BeginAsk
  <2>4. \/ \E p \in Humans : TakeOwnership(p) \/ KickTimer(p)
        \/ \E p \in Humans, q \in Players : GiveOwner(p, q) \/ FreqKick(p, q)
    BY <1>6 DEF PlayOwners
  <2> QED
    BY <2>1, <2>2, <2>3, <2>4
<1> QED
  BY <1>1, <1>2, <1>3, <1>4, <1>5, <1>6

LEMMA StepsNext ==
    ASSUME ~Interleaved, StepsInv, IsTeams(teams), [Next]_vars
    PROVE  StepsGo
<1>1. CASE UNCHANGED vars
  <2>1. UNCHANGED <<status, freq, doing, conf, kicks, queue>>
    BY <1>1 DEF vars
  <2> QED
    BY <2>1, KeptStep
<1>2. CASE Come
  BY <1>2, ComeSteps
<1>3. CASE Go
  BY <1>3, GoSteps
<1>4. CASE EnterCallbacks
  BY <1>4, EnterSteps
<1>5. CASE RunChange \/ EndFakeInMain
  BY <1>5, QueueSteps
<1>6. CASE Play
  <2>1. kicks' = kicks
    BY <1>6 DEF Play, ownervars
  <2>2. ASSUME NEW t \in Threads, GameStep(t) PROVE StepsGo
    BY <2>1, <2>2, GameSteps
  <2>3. ASSUME NEW t \in Threads, Command(t) \/ ArenaLockCommand(t) PROVE StepsGo
    BY <2>1, <2>3, CommandSteps
  <2>4. ASSUME NEW p \in Fakes, CreateFakePlayer(p) \/ EndFaked(p) PROVE StepsGo
    BY <2>1, <2>4, FakeSteps
  <2>5. ASSUME NEW p \in Humans,
               \/ \E s \in Ships \cup {SHIP_SPEC} : PSetShip(p, s)
               \/ \E f \in conf.freqs : PSetFreq(p, f)
               \/ \E q \in Players \cup {NoPlayer} : PSpecRequest(p, q)
               \/ Ack(p) \/ PMapRequest(p) \/ SpecForLag(p)
        PROVE  StepsGo
    BY <2>1, <2>5, PacketSteps
  <2> QED
    BY <1>6, <2>2, <2>3, <2>4, <2>5 DEF Play
<1>7. CASE \/ \E p \in Humans, killer \in Players, fired \in BOOLEAN : PDie(p, killer, fired)
           \/ ConfChanged \/ PlayFlags \/ PlayBalls \/ PlayKoth \/ PlayOwners
  BY <1>7, OtherSteps
<1> QED
  BY <1>1, <1>2, <1>3, <1>4, <1>5, <1>6, <1>7 DEF Next

LEMMA StepsBegin == Init => StepsInv
<1> SUFFICES ASSUME Init PROVE StepsInv
  OBVIOUS
<1>1. /\ conf \in Configs /\ status = [p \in Players |-> "away"] /\ freq = [p \in Players |-> -1]
      /\ queue = <<>> /\ doing = [t \in Threads |-> <<>>] /\ kicks = {}
  BY DEF Init
<1>2. <<>> \in Seq({}) /\ Len(<<>>) = 0
  OBVIOUS
<1>3. Works(<<>>) /\ QueueFits
  BY <1>1, <1>2 DEF Works, IsSeq, QueueFits
<1>4. TypesFit /\ OneWorks /\ WorkFits /\ ArrivalsFit /\ FakesFit /\ KicksFit
  BY <1>1, <1>3 DEF TypesFit, OneWorks, WorkFits, ArrivalsFit, FakesFit, KicksFit, Statuses, Players
<1> QED
  BY <1>3, <1>4 DEF StepsInv

----------------------------------------------------------------------------
(* The lists of freqman.                                                   *)

\* p is once in the list of f, and in no other; in none if f is NoTeam.
Listed(ts, p, f) == /\ \A g \in DOMAIN ts : ts[g].players[p] = IF f # NoTeam /\ g = f THEN 1 ELSE 0
                    /\ f # NoTeam => f \in DOMAIN ts

\* No list is kept that is empty and need not be.
Kept(ts) == \A f \in DOMAIN ts : ts[f].players # Nobody \/ ts[f].remembered

TeamFor(f) == IF f = SpecFreq THEN NoTeam ELSE f

Stands(p, f) == team[p] = TeamFor(f) /\ Listed(teams, p, TeamFor(f))

\* t has set the frequency of p and has yet to tell freqman.
Behind(t, p) == doing[t] # <<>> /\ Head(doing[t]).do = "call" /\ Head(doing[t]).p = p

StandsFit(p) ==
    /\ p \notin Acted => Stands(p, SpecFreq)
    /\ p \in Acted /\ (\A t \in Threads : ~Behind(t, p)) => Stands(p, freq[p])
    /\ \A t \in Threads : Behind(t, p) => Stands(p, Head(doing[t]).oldfreq)

ListsInv == StepsInv /\ PointersInv /\ (\A p \in Humans : StandsFit(p)) /\ Kept(teams) /\ ~crashed

LEMMA WithListed ==
    ASSUME NEW ts, IsTeams(ts), Kept(ts), NEW p \in Humans, NEW f, f # NoTeam, Listed(ts, p, NoTeam)
    PROVE  /\ Listed(With(ts, p, f), p, f) /\ Kept(With(ts, p, f))
           /\ \A q \in Humans \ {p} : \A g : Listed(ts, q, g) => Listed(With(ts, p, f), q, g)
<1> DEFINE t == IF f \in DOMAIN ts THEN ts[f] ELSE NewTeam(f, conf)
           new == [t EXCEPT !.players[p] = @ + 1]
<1>1. IsList(t)
  BY DEF IsTeams, IsList, NewTeam, Nobody
<1>2. IsList(new) /\ new.players = [t.players EXCEPT ![p] = @ + 1]
  <2> HIDE DEF t
  <2>1. [t.players EXCEPT ![p] = @ + 1] \in [Humans -> Nat]
    <3> DEFINE h == t.players
    <3>1. h \in [Humans -> Nat]
      BY <1>1 DEF IsList
    <3> HIDE DEF h
    <3>2. [h EXCEPT ![p] = h[p] + 1] \in [Humans -> Nat]
      BY <3>1, CountChanges
    <3> QED
      BY <3>2 DEF h
  <2> QED
    BY <1>1, <2>1, ListChanges
<1>3. With(ts, p, f) = [g \in DOMAIN ts \cup {f} |-> IF g = f THEN new ELSE ts[g]]
  BY DEF With
<1>4. /\ f \in DOMAIN ts => t = ts[f]
      /\ f \notin DOMAIN ts => \A q \in Humans : t.players[q] = 0
  BY DEF NewTeam, Nobody
<1> HIDE DEF t, new
<1>5. \A q \in Humans : new.players[q] = IF q = p THEN t.players[q] + 1 ELSE t.players[q]
  BY <1>1, <1>2 DEF IsList
<1>6. t.players[p] = 0
  BY <1>4 DEF Listed
<1>7. Listed(With(ts, p, f), p, f)
  <2>1. new.players[p] = 1
    BY <1>5, <1>6
  <2> QED
    BY <1>3, <2>1 DEF Listed
<1>8. Kept(With(ts, p, f))
  <2>1. new.players # Nobody
    BY <1>5, <1>6 DEF Nobody
  <2> QED
    BY <1>3, <2>1 DEF Kept
<1>9. ASSUME NEW q \in Humans \ {p}, NEW g, Listed(ts, q, g) PROVE Listed(With(ts, p, f), q, g)
  <2>1. new.players[q] = t.players[q]
    BY <1>5
  <2>2. f \notin DOMAIN ts => g # f \/ g = NoTeam
    BY <1>9 DEF Listed
  <2> QED
    BY <1>3, <1>4, <1>9, <2>1, <2>2 DEF Listed
<1> QED
  BY <1>7, <1>8, <1>9

LEMMA WithoutListed ==
    ASSUME NEW ts, IsTeams(ts), Kept(ts), NEW p \in Humans, NEW f, f # NoTeam, Listed(ts, p, f)
    PROVE  /\ Listed(Without(ts, p, f), p, NoTeam) /\ Kept(Without(ts, p, f))
           /\ \A q \in Humans \ {p} : \A g : Listed(ts, q, g) => Listed(Without(ts, p, f), q, g)
<1> DEFINE rest == [ts[f].players EXCEPT ![p] = IF @ > 0 THEN @ - 1 ELSE 0]
           l == [ts[f] EXCEPT !.players = rest]
<1>0. f \in DOMAIN ts /\ ts[f].players[p] = 1
  BY DEF Listed
<1>1. /\ rest \in [Humans -> Nat] /\ rest[p] = 0
      /\ \A q \in Humans \ {p} : rest[q] = ts[f].players[q]
  <2> DEFINE pl == ts[f].players
  <2>1. pl \in [Humans -> Nat] /\ pl[p] = 1
    BY <1>0 DEF IsTeams, IsList
  <2> HIDE DEF pl
  <2>2. [pl EXCEPT ![p] = IF @ > 0 THEN @ - 1 ELSE 0] \in [Humans -> Nat]
    <3>1. PICK n : n = IF pl[p] > 0 THEN pl[p] - 1 ELSE 0
      OBVIOUS
    <3>2. n \in Nat
      BY <2>1, <3>1
    <3>3. [pl EXCEPT ![p] = n] \in [Humans -> Nat]
      BY <2>1, <3>2, CountChanges
    <3> QED
      BY <3>1, <3>3
  <2>3. \A q \in Humans \ {p} : [pl EXCEPT ![p] = IF @ > 0 THEN @ - 1 ELSE 0][q] = pl[q]
    BY <2>1
  <2>4. [pl EXCEPT ![p] = IF @ > 0 THEN @ - 1 ELSE 0][p] = 0
    BY <2>1
  <2> QED
    BY <2>2, <2>3, <2>4 DEF pl
<1>2. IsList(l) /\ l.players = rest /\ l.remembered = ts[f].remembered
  BY <1>0, <1>1, ListChanges DEF IsTeams
<1>3. Without(ts, p, f) = IF rest = Nobody /\ ~ts[f].remembered THEN Restrict(ts, DOMAIN ts \ {f})
                                                                 ELSE [ts EXCEPT ![f] = l]
  BY DEF Without
<1> HIDE DEF rest, l
<1>4. CASE rest = Nobody /\ ~ts[f].remembered
  <2>1. Without(ts, p, f) = [g \in DOMAIN ts \ {f} |-> ts[g]]
    BY <1>3, <1>4 DEF Restrict
  <2>2. \A q \in Humans \ {p} : ts[f].players[q] = 0
    BY <1>1, <1>4 DEF Nobody
  <2>3. ASSUME NEW q \in Humans \ {p}, NEW g, Listed(ts, q, g) PROVE Listed(Without(ts, p, f), q, g)
    <3>1. g # NoTeam => g # f
      BY <1>0, <2>2, <2>3 DEF Listed
    <3> QED
      BY <2>1, <2>3, <3>1 DEF Listed
  <2> QED
    BY <2>1, <2>3 DEF Listed, Kept
<1>5. CASE ~(rest = Nobody /\ ~ts[f].remembered)
  <2>1. Without(ts, p, f) = [ts EXCEPT ![f] = l]
    BY <1>3, <1>5
  <2>2. Kept([ts EXCEPT ![f] = l])
    BY <1>2, <1>5 DEF Kept
  <2> QED
    BY <1>0, <1>1, <1>2, <2>1, <2>2 DEF Listed
<1> QED
  BY <1>4, <1>5

LEMMA UpdateLists ==
    ASSUME PointersInv, Kept(teams), ~crashed, NEW p \in Humans, NEW new \in Int, NEW old \in Int,
           Stands(p, old), UpdateFreqs(p, new, old)
    PROVE  /\ team'[p] = TeamFor(new) /\ Listed(teams', p, TeamFor(new)) /\ Kept(teams') /\ ~crashed'
           /\ \A q \in Humans \ {p} : \A f : Stands(q, f) =>
                  team'[q] = TeamFor(f) /\ Listed(teams', q, TeamFor(f))
<1> USE GameAssumption
<1>1. CASE new = old
  <2>1. UNCHANGED <<teams, team, crashed>>
    BY <1>1 DEF UpdateFreqs
  <2> QED
    BY <1>1, <2>1 DEF Stands
<1>2. CASE new # old
  <2>1. p \notin Fakes /\ FreqIsKnown(p, old)
    BY DEF FreqIsKnown, Exists, Stands, TeamFor, Listed
  <2> DEFINE left == IF old = SpecFreq THEN teams ELSE Without(teams, p, old)
  <2>2. /\ teams' = IF new = SpecFreq THEN left ELSE With(left, p, new)
        /\ team' = [team EXCEPT ![p] = IF new # SpecFreq THEN new ELSE IF old # SpecFreq THEN NoTeam ELSE @]
        /\ crashed' = crashed
    BY <1>2, <2>1 DEF UpdateFreqs
  <2>3. /\ IsTeams(left) /\ Listed(left, p, NoTeam) /\ Kept(left)
        /\ \A q \in Humans \ {p} : \A g : Listed(teams, q, g) => Listed(left, q, g)
    <3>1. CASE old = SpecFreq
      BY <3>1 DEF Stands, TeamFor, PointersInv
    <3>2. CASE old # SpecFreq
      <4>1. old # NoTeam /\ Listed(teams, p, old) /\ IsTeams(teams) /\ old \in DOMAIN teams
        BY <3>2 DEF Stands, TeamFor, PointersInv, Listed
      <4> QED
        BY <3>2, <4>1, WithoutListed, WithoutList
    <3> QED
      BY <3>1, <3>2
  <2> HIDE DEF left
  <2>4. team'[p] = TeamFor(new) /\ \A q \in Humans \ {p} : team'[q] = team[q]
    <3>1. DOMAIN team = Humans
      BY DEF PointersInv, TeamIs
    <3> QED
      BY <1>2, <2>2, <3>1 DEF TeamFor
  <2>5. CASE new = SpecFreq
    BY <2>2, <2>3, <2>4, <2>5 DEF Stands, TeamFor
  <2>6. CASE new # SpecFreq
    <3>1. new # NoTeam
      OBVIOUS
    <3>2. /\ Listed(teams', p, new) /\ Kept(teams')
          /\ \A q \in Humans \ {p} : \A g : Listed(left, q, g) => Listed(teams', q, g)
      BY <2>2, <2>3, <2>6, <3>1, WithListed
    <3> QED
      BY <2>2, <2>3, <2>4, <2>6, <3>2 DEF Stands, TeamFor
  <2> QED
    BY <2>5, <2>6
<1> QED
  BY <1>1, <1>2

LEMMA PruneLists ==
    ASSUME IsTeams(teams), Kept(teams), NEW c, c.remembered \in Int
    PROVE  /\ Kept(Prune(teams, c))
           /\ \A p \in Humans : \A f : Listed(teams, p, f) => Listed(Prune(teams, c), p, f)
<1> DEFINE kept == {f \in DOMAIN teams : f < c.remembered \/ teams[f].players # Nobody}
           ts == [f \in kept \cup 0 .. c.remembered - 1 |->
                     IF f \notin DOMAIN teams THEN NewTeam(f, c)
                     ELSE [teams[f] EXCEPT !.required = @ /\ f < c.remembered]]
<1>1. Prune(teams, c) = ts
  BY DEF Prune
<1>2. ASSUME NEW l, IsList(l), NEW r
      PROVE  [l EXCEPT !.required = r].players = l.players /\ [l EXCEPT !.required = r].remembered = l.remembered
  BY <1>2 DEF IsList
<1>3. /\ DOMAIN ts = kept \cup 0 .. c.remembered - 1
      /\ \A f \in DOMAIN ts : f \in DOMAIN teams =>
             ts[f].players = teams[f].players /\ ts[f].remembered = teams[f].remembered
  BY <1>2 DEF IsTeams
<1>4. ASSUME NEW f \in DOMAIN ts, f \notin DOMAIN teams PROVE ts[f].players = Nobody /\ ts[f].remembered
  <2>1. f < c.remembered /\ ts[f] = NewTeam(f, c)
    BY <1>4
  <2> QED
    BY <2>1 DEF NewTeam
<1> HIDE DEF ts
<1>5. Kept(ts)
  BY <1>3, <1>4 DEF Kept
<1>6. ASSUME NEW p \in Humans, NEW f, Listed(teams, p, f) PROVE Listed(ts, p, f)
  <2>1. f # NoTeam => f \in kept
    BY <1>6 DEF Listed, Nobody
  <2>2. ASSUME NEW g \in DOMAIN ts PROVE ts[g].players[p] = IF f # NoTeam /\ g = f THEN 1 ELSE 0
    <3>1. CASE g \in DOMAIN teams
      BY <1>3, <1>6, <3>1 DEF Listed
    <3>2. CASE g \notin DOMAIN teams
      BY <1>4, <2>1, <3>2 DEF Nobody
    <3> QED
      BY <3>1, <3>2
  <2> QED
    BY <1>3, <2>1, <2>2 DEF Listed
<1> QED
  BY <1>1, <1>5, <1>6

\* What leaves all that alone.
Quiet == /\ UNCHANGED <<teams, team, crashed>>
         /\ \A p \in Humans : (p \in Acted' <=> p \in Acted) /\ (p \in Acted => freq'[p] = freq[p])
         /\ doing' = doing \/ (~Calls /\ ~Calls')

LEMMA QuietStep ==
    ASSUME Quiet, NEW p \in Humans, StandsFit(p)
    PROVE  StandsFit(p)'
<1>1. (p \in Acted' <=> p \in Acted) /\ (p \in Acted => freq'[p] = freq[p]) /\ UNCHANGED <<teams, team>>
  BY DEF Quiet
<1>2. \A f : Stands(p, f)' <=> Stands(p, f)
  BY <1>1 DEF Stands, Listed
<1>3. CASE doing' = doing
  BY <1>1, <1>2, <1>3 DEF StandsFit, Behind
<1>4. CASE ~Calls /\ ~Calls'
  <2>1. \A t \in Threads : ~Behind(t, p) /\ ~Behind(t, p)'
    BY <1>4 DEF Behind, Calls
  <2> QED
    BY <1>1, <1>2, <2>1 DEF StandsFit
<1> QED
  BY <1>3, <1>4 DEF Quiet

\* When no thread works, or one works at something else, no call can come of the step.
LEMMA NoCallComes ==
    ASSUME ~Interleaved, StepsInv, StepsGo, NEW t \in Threads,
           MayRun(t) \/ (doing[t] # <<>> /\ Head(doing[t]).do \notin {"set", "call"})
    PROVE  doing' = doing \/ (~Calls /\ ~Calls')
<1>1. CASE MayRun(t)
  BY <1>1, MayRunIdle DEF Idle, Calls, Setting, StepsGo
<1>2. CASE doing[t] # <<>> /\ Head(doing[t]).do \notin {"set", "call"}
  BY <1>2 DEF StepsInv, OneWorks, Calls, Setting, StepsGo
<1> QED
  BY <1>1, <1>2

LEMMA NoCallAfter ==
    ASSUME StepsInv, NEW t \in Threads, doing[t] # <<>>, Done(t, <<>>)
    PROVE  ~Calls'
<1>d. PICK d : d = doing[t]
  OBVIOUS
<1>1. Works(d) /\ d # <<>>
  BY <1>d DEF StepsInv, WorkFits
<1>2. IsSeq(d) /\ d # <<>> /\ \A i \in 2 .. Len(d) : Later(d[i])
  BY <1>1 DEF Works
<1>3. /\ <<>> \o Tail(d) = Tail(d) /\ Len(d) \in Nat
      /\ Tail(d) # <<>> => Len(d) > 1 /\ Head(Tail(d)) = d[2]
  BY <1>2, Drops
<1>4. Tail(d) # <<>> => Head(Tail(d)).do # "call"
  BY <1>2, <1>3 DEF Later
<1>5. doing'[t] = Tail(d) /\ \A u \in Threads \ {t} : doing'[u] = <<>>
  BY <1>3, <1>d DEF Done, StepsInv, TypesFit, OneWorks
<1> QED
  BY <1>4, <1>5 DEF Calls

\* Which steps those are.
LEMMA ListsMove ==
    ASSUME ~Interleaved, StepsInv, StepsGo, [Next]_vars
    PROVE  \/ Quiet \/ ConfChanged \/ EnterCallbacks
           \/ \E p \in Humans : PreEnter(p) \/ LeaveCallbacks(p)
           \/ \E t \in Threads : SetNew(t) \/ CallBack(t)
<1> USE DEF Players
<1>t. "main" \in Threads /\ "net" \in Threads /\ Humans \subseteq Players
  BY DEF Threads
<1>f. status \in [Players -> Statuses] /\ freq \in [Players -> Int] /\ Humans \cap Fakes = {}
  BY GameAssumption DEF StepsInv, TypesFit
<1>k. ASSUME UNCHANGED <<teams, team, crashed, status, freq>>, NEW t \in Threads,
             MayRun(t) \/ (doing[t] # <<>> /\ Head(doing[t]).do \notin {"set", "call"})
      PROVE  Quiet
  <2>1. doing' = doing \/ (~Calls /\ ~Calls')
    BY <1>k, NoCallComes
  <2>2. Acted' = Acted
    BY <1>k DEF Acted
  <2> QED
    BY <1>k, <2>1, <2>2 DEF Quiet
<1>p. ASSUME UNCHANGED <<teams, team, crashed>>, NEW p \in Players, NEW s, status' = [status EXCEPT ![p] = s],
             s \in {"playing", "leaving"} <=> status[p] \in {"playing", "leaving"},
             NEW f, freq' = f, f = freq \/ (p \notin Acted /\ \A q \in Players \ {p} : f[q] = freq[q]),
             doing' = doing \/ \E t \in Threads : MayRun(t)
      PROVE  Quiet
  <2>1. doing' = doing \/ (~Calls /\ ~Calls')
    BY <1>p, NoCallComes
  <2>2. Acted' = Acted
    BY <1>f, <1>p DEF Acted
  <2>3. \A q \in Humans : q \in Acted => freq'[q] = freq[q]
    BY <1>f, <1>p
  <2> QED
    BY <1>p, <2>1, <2>2, <2>3 DEF Quiet
<1>q. ASSUME UNCHANGED <<teams, team, crashed>>, NEW p \in Fakes, NEW s, status' = [status EXCEPT ![p] = s],
             NEW f, freq' = [freq EXCEPT ![p] = f], NEW t \in Threads, MayRun(t)
      PROVE  Quiet
  <2>1. doing' = doing \/ (~Calls /\ ~Calls')
    BY <1>q, NoCallComes
  <2>2. \A q \in Humans : freq'[q] = freq[q] /\ status'[q] = status[q]
    BY <1>f, <1>q
  <2>3. \A q \in Humans : q \in Acted' <=> q \in Acted
    BY <1>f, <2>2 DEF Acted
  <2> QED
    BY <1>q, <2>1, <2>2, <2>3 DEF Quiet
<1>1. CASE UNCHANGED vars
  <2>1. UNCHANGED <<teams, team, crashed, status, freq, doing>>
    BY <1>1 DEF vars
  <2> QED
    BY <2>1 DEF Quiet, Acted
<1>2. ASSUME NEW p \in Humans, Synced(p) PROVE Quiet
  <2>1. status' = [status EXCEPT ![p] = "synced"] /\ freq' \in {freq, [freq EXCEPT ![p] = SpecFreq]}
    BY <1>2 DEF Synced, SetData
  <2>2. UNCHANGED <<teams, team, crashed, doing>> /\ status[p] = "entering"
    BY <1>2 DEF Synced, teamvars
  <2>3. /\ p \notin Acted /\ p \in Players /\ \A q \in Players \ {p} : freq'[q] = freq[q]
        /\ ~(status[p] \in {"playing", "leaving"})
    BY <1>f, <1>t, <2>1, <2>2 DEF Acted
  <2> QED
    BY <1>p, <2>1, <2>2, <2>3
<1>3. ASSUME NEW p \in Humans, Enter(p) PROVE Quiet
  <2>1. /\ status' = [status EXCEPT ![p] = "arriving"]
        /\ UNCHANGED <<teams, team, crashed, freq>> /\ status[p] = "synced" /\ MayRun("main")
    BY <1>3 DEF Enter, teamvars
  <2> QED
    BY <1>p, <1>t, <2>1 DEF Acted
<1>4. ASSUME NEW p \in Humans, Leave(p) PROVE Quiet
  <2>1. /\ status' = [status EXCEPT ![p] = "leaving"]
        /\ UNCHANGED <<teams, team, crashed, freq, doing>> /\ status[p] = "playing"
    BY <1>4 DEF Leave, teamvars
  <2> QED
    BY <1>p, <1>t, <2>1 DEF Acted
<1>5. ASSUME NEW p \in Humans, GiveUp(p) PROVE Quiet
  <2>1. /\ status' = [status EXCEPT ![p] = "left"]
        /\ UNCHANGED <<teams, team, crashed, freq, doing>> /\ status[p] \in {"entering", "synced"}
    BY <1>5 DEF GiveUp, teamvars
  <2> QED
    BY <1>p, <1>t, <2>1 DEF Acted
<1>6. ASSUME NEW p \in Humans, GoAway(p) PROVE Quiet
  <2>1. /\ status' = [status EXCEPT ![p] = "away"] /\ freq' \in {freq, [freq EXCEPT ![p] = -1]}
        /\ UNCHANGED <<teams, team, crashed, doing>> /\ status[p] = "left"
    BY <1>6 DEF GoAway, teamvars
  <2>2. /\ p \notin Acted /\ p \in Players /\ \A q \in Players \ {p} : freq'[q] = freq[q]
        /\ ~(status[p] \in {"playing", "leaving"})
    BY <1>f, <1>t, <2>1 DEF Acted
  <2> QED
    BY <1>p, <2>1, <2>2
<1>7. CASE RunChange
  <2>1. UNCHANGED <<teams, team, crashed, status, freq>> /\ MayRun("main")
    BY <1>7 DEF RunChange, teamvars
  <2> QED
    BY <1>k, <1>t, <2>1
<1>8. CASE EndFakeInMain
  <2>1. /\ UNCHANGED <<teams, team, crashed>> /\ MayRun("main") /\ queue # <<>> /\ Head(queue).do = "endfake"
        /\ status' = [status EXCEPT ![Head(queue).p] = "away"] /\ freq' = [freq EXCEPT ![Head(queue).p] = -1]
        /\ queue' = Tail(queue)
    BY <1>8 DEF EndFakeInMain, teamvars
  <2>2. Head(queue).p \in Fakes
    BY <2>1, QueueShrinks DEF StepsInv, QueueFits
  <2>3. PICK p \in Fakes : p = Head(queue).p
    BY <2>2
  <2> QED
    BY <1>q, <1>t, <2>1, <2>3
<1>9. ASSUME NEW p \in Humans, NEW killer \in Players, NEW fired \in BOOLEAN, PDie(p, killer, fired) PROVE Quiet
  <2>1. UNCHANGED <<teams, team, crashed, status, freq>> /\ MayRun("net")
    BY <1>9 DEF PDie, teamvars
  <2> QED
    BY <1>k, <1>t, <2>1
<1>10. CASE Play
  <2>1. ASSUME NEW t \in Threads, ReadOld(t) \/ SetLock(t) \/ Watch(t) PROVE Quiet
    <3>1. /\ UNCHANGED <<teams, team, crashed, status, freq>>
          /\ doing[t] # <<>> /\ Head(doing[t]).do \notin {"set", "call"}
      BY <2>1 DEF ReadOld, SetLock, Watch, At, teamvars
    <3> QED
      BY <1>k, <3>1
  <2>2. ASSUME NEW t \in Threads, Command(t) \/ ArenaLockCommand(t) PROVE Quiet
    <3>1. UNCHANGED <<teams, team, crashed, status, freq>> /\ MayRun(t)
      BY <2>2 DEF Command, ArenaLockCommand, teamvars
    <3> QED
      BY <1>k, <3>1
  <2>3. ASSUME NEW p \in Humans,
               \/ \E s \in Ships \cup {SHIP_SPEC} : PSetShip(p, s)
               \/ \E f \in conf.freqs : PSetFreq(p, f)
               \/ \E q \in Players \cup {NoPlayer} : PSpecRequest(p, q)
               \/ Ack(p) \/ PMapRequest(p) \/ SpecForLag(p)
        PROVE  Quiet
    <3>1. UNCHANGED <<teams, team, crashed, status, freq>> /\ (MayRun("net") \/ MayRun("main"))
      BY <2>3 DEF PSetShip, PSetFreq, PSpecRequest, Ack, PMapRequest, SpecForLag, teamvars
    <3> QED
      BY <1>k, <1>t, <3>1
  <2>4. ASSUME NEW p \in Fakes, CreateFakePlayer(p) PROVE Quiet
    <3>1. PICK f : freq' = [freq EXCEPT ![p] = f]
      BY <2>4 DEF CreateFakePlayer
    <3>2. UNCHANGED <<teams, team, crashed>> /\ status' = [status EXCEPT ![p] = "playing"] /\ MayRun("net")
      BY <2>4 DEF CreateFakePlayer, teamvars
    <3> QED
      BY <1>q, <1>t, <3>1, <3>2
  <2>5. ASSUME NEW p \in Fakes, EndFaked(p) PROVE Quiet
    <3>1. UNCHANGED <<teams, team, crashed, status, freq>> /\ MayRun("net")
      BY <2>5 DEF EndFaked, teamvars
    <3> QED
      BY <1>k, <1>t, <3>1
  <2> QED
    BY <1>10, <2>1, <2>2, <2>3, <2>4, <2>5 DEF Play, GameStep
<1>11. CASE PlayFlags
  <2>1. ASSUME NEW t \in Threads, TouchFlag(t) PROVE Quiet
    <3>1. /\ UNCHANGED <<teams, team, crashed, status, freq>>
          /\ doing[t] # <<>> /\ Head(doing[t]).do \notin {"set", "call"}
      BY <2>1 DEF TouchFlag, At, teamvars
    <3> QED
      BY <1>k, <3>1
  <2>2. CASE ~\E t \in Threads : TouchFlag(t)
    <3>1. UNCHANGED <<teams, team, crashed, status, freq>> /\ (MayRun("net") \/ MayRun("main"))
      BY <1>11, <2>2 DEF PlayFlags, PFlagTimer, PFlagTouch, SpawnTimer, CheckWin, FlagResetCommand, teamvars
    <3> QED
      BY <1>k, <1>t, <3>1
  <2> QED
    BY <2>1, <2>2
<1>12. CASE PlayBalls
  <2>1. ASSUME NEW t \in Threads, TakeBall(t) PROVE Quiet
    <3>1. /\ UNCHANGED <<teams, team, crashed, status, freq>>
          /\ doing[t] # <<>> /\ Head(doing[t]).do \notin {"set", "call"}
      BY <2>1 DEF TakeBall, At, teamvars
    <3> QED
      BY <1>k, <3>1
  <2>2. CASE ~\E t \in Threads : TakeBall(t)
    <3>1. UNCHANGED <<teams, team, crashed, status, freq>> /\ (MayRun("net") \/ MayRun("main"))
      BY <1>12, <2>2 DEF PlayBalls, PPickupBall, PFireBall, PGoal, BasicBallTimer, BallCommand, teamvars
    <3> QED
      BY <1>k, <1>t, <3>1
  <2> QED
    BY <2>1, <2>2
<1>13. CASE PlayKoth
  <2>1. UNCHANGED <<teams, team, crashed, status, freq>> /\ (MayRun("net") \/ MayRun("main"))
    BY <1>13 DEF PlayKoth, CheckKoth, ResetKoth, PKothExpired, teamvars
  <2> QED
    BY <1>k, <1>t, <2>1
<1>14. CASE PlayOwners
  <2>1. UNCHANGED <<teams, team, crashed, status, freq>> /\ (MayRun("net") \/ MayRun("main"))
    BY <1>14 DEF PlayOwners, TakeOwnership, KickTimer, GiveOwner, FreqKick, teamvars
  <2> QED
    BY <1>k, <1>t, <2>1
<1>15. CASE Come \/ Go
  BY <1>15, <1>2, <1>3, <1>4, <1>5, <1>6 DEF Come, Go
<1>16. CASE \E p \in Humans, killer \in Players, fired \in BOOLEAN : PDie(p, killer, fired)
  BY <1>9, <1>16
<1> QED
  BY <1>1, <1>7, <1>8, <1>10, <1>11, <1>12, <1>13, <1>14, <1>15, <1>16 DEF Next

LEMMA SetLists ==
    ASSUME ListsInv, NEW t \in Threads, SetNew(t), NEW q \in Humans
    PROVE  StandsFit(q)'
<1>a. PICK act : act = Head(doing[t])
  OBVIOUS
<1>1. /\ doing[t] # <<>> /\ act.do = "set" /\ UNCHANGED <<status, teams, team>>
      /\ \/ Done(t, <<>>) /\ freq' = freq
         \/ /\ freq' = [freq EXCEPT ![act.p] = act.freq]
            /\ \E s, o : Done(t, <<[do |-> "call", p |-> act.p, newship |-> s, newfreq |-> act.freq,
                                    oldship |-> o, oldfreq |-> act.oldfreq]>>)
  BY <1>a DEF SetNew, At, teamvars
<1>2. Acted' = Acted /\ \A f : Stands(q, f)' <=> Stands(q, f)
  BY <1>1 DEF Acted, Stands, Listed
<1>3. act.p \in Acted /\ act.freq \in Int /\ act.oldfreq = freq[act.p]
  BY <1>1, <1>a, HeadFits DEF ListsInv, Now, Later
<1>4. (q \notin Acted => Stands(q, SpecFreq)) /\ (q \in Acted => Stands(q, freq[q]))
  <2>1. \A u \in Threads : ~Behind(u, q)
    BY <1>1, <1>a DEF ListsInv, StepsInv, OneWorks, Behind
  <2> QED
    BY <2>1 DEF ListsInv, StandsFit
<1>5. CASE Done(t, <<>>) /\ freq' = freq
  <2>1. ~Calls'
    BY <1>1, <1>5, NoCallAfter DEF ListsInv
  <2>2. \A u \in Threads : ~Behind(u, q)'
    BY <2>1 DEF Calls, Behind
  <2> QED
    BY <1>2, <1>4, <1>5, <2>2 DEF StandsFit
<1>6. CASE ~(Done(t, <<>>) /\ freq' = freq)
  <2>1. PICK s, o : Done(t, <<[do |-> "call", p |-> act.p, newship |-> s, newfreq |-> act.freq,
                               oldship |-> o, oldfreq |-> act.oldfreq]>>)
    BY <1>1, <1>6
  <2>2. PICK x : x = [do |-> "call", p |-> act.p, newship |-> s, newfreq |-> act.freq,
                      oldship |-> o, oldfreq |-> act.oldfreq]
    OBVIOUS
  <2>3. Done(t, <<x>>) /\ x.do = "call" /\ x.p = act.p /\ x.oldfreq = act.oldfreq
    BY <2>1, <2>2
  <2>4. freq' = [freq EXCEPT ![act.p] = act.freq]
    BY <1>1, <1>6
  <2>5. doing'[t] # <<>> /\ Head(doing'[t]) = x /\ \A u \in Threads \ {t} : doing'[u] = <<>>
    <3>1. IsSeq(doing[t])
      BY DEF ListsInv, StepsInv, WorkFits, Works
    <3>2. <<x>> \o Tail(doing[t]) # <<>> /\ Head(<<x>> \o Tail(doing[t])) = x
      BY <1>1, <3>1, Replaces
    <3> QED
      BY <1>1, <2>3, <3>2 DEF Done, ListsInv, StepsInv, TypesFit, OneWorks
  <2>6. \A u \in Threads : Behind(u, q)' <=> u = t /\ q = act.p
    BY <2>3, <2>5 DEF Behind
  <2>7. CASE q = act.p
    BY <1>2, <1>3, <1>4, <2>3, <2>5, <2>6, <2>7 DEF StandsFit
  <2>8. CASE q # act.p
    <3>1. freq'[q] = freq[q]
      BY <2>4, <2>8 DEF ListsInv, StepsInv, TypesFit, Players
    <3> QED
      BY <1>2, <1>4, <2>6, <2>8, <3>1 DEF StandsFit
  <2> QED
    BY <2>7, <2>8
<1> QED
  BY <1>5, <1>6

\* What is so after freqman has been told of p, and no call is left.
LEMMA ToldLists ==
    ASSUME ListsInv, NEW p \in Humans, NEW new \in Int, NEW old \in Int, Stands(p, old), UpdateFreqs(p, new, old),
           ~Calls', \A q \in Humans \ {p} : (q \in Acted' <=> q \in Acted) /\ freq'[q] = freq[q],
           \A q \in Humans \ {p}, t \in Threads : ~Behind(t, q),
           IF p \in Acted' THEN freq'[p] = new ELSE new = SpecFreq
    PROVE  (\A q \in Humans : StandsFit(q)') /\ Kept(teams)' /\ ~crashed'
<1>1. /\ team'[p] = TeamFor(new) /\ Listed(teams', p, TeamFor(new)) /\ Kept(teams') /\ ~crashed'
      /\ \A q \in Humans \ {p} : \A f : Stands(q, f) => team'[q] = TeamFor(f) /\ Listed(teams', q, TeamFor(f))
  BY UpdateLists DEF ListsInv
<1>2. \A q \in Humans, t \in Threads : ~Behind(t, q)'
  BY DEF Calls, Behind
<1>3. ASSUME NEW q \in Humans PROVE StandsFit(q)'
  <2>1. CASE q = p
    BY <1>1, <1>2, <2>1 DEF StandsFit, Stands, Listed
  <2>2. CASE q # p
    <3>1. (q \notin Acted => Stands(q, SpecFreq)) /\ (q \in Acted => Stands(q, freq[q]))
      BY <2>2 DEF ListsInv, StandsFit
    <3>2. (q \notin Acted => Stands(q, SpecFreq)') /\ (q \in Acted => Stands(q, freq[q])')
      <4>1. freq'[q] = freq[q]
        BY <2>2
      <4> QED
        BY <1>1, <2>2, <3>1, <4>1 DEF Stands, Listed
    <3> QED
      BY <1>2, <2>2, <3>2 DEF StandsFit
  <2> QED
    BY <2>1, <2>2
<1> QED
  BY <1>1, <1>3 DEF Kept

LEMMA CallLists ==
    ASSUME ListsInv, NEW t \in Threads, CallBack(t)
    PROVE  (\A q \in Humans : StandsFit(q)') /\ Kept(teams)' /\ ~crashed'
<1>a. PICK c : c = Head(doing[t])
  OBVIOUS
<1>1. /\ doing[t] # <<>> /\ c.do = "call" /\ UNCHANGED <<status, freq>> /\ Done(t, <<>>)
      /\ c.p \in InArena => UpdateFreqs(c.p, c.newfreq, c.oldfreq)
  BY <1>a DEF CallBack, At
<1>2. c.p \in Acted /\ c.newfreq = freq[c.p] /\ c.oldfreq \in Int
  BY <1>1, <1>a, HeadFits DEF ListsInv, Now, Later
<1>3. c.p \in Players /\ c.newfreq \in Int /\ c.p \in InArena
  BY <1>2 DEF ListsInv, StepsInv, TypesFit, Acted, InArena
<1>4. ~Calls' /\ Acted' = Acted
  BY <1>1, NoCallAfter DEF ListsInv, Acted
<1>5. \A q \in Players, u \in Threads : Behind(u, q) <=> u = t /\ q = c.p
  BY <1>1, <1>a DEF ListsInv, StepsInv, OneWorks, Behind
<1>6. CASE c.p \in Humans
  <2>1. PICK p \in Humans : p = c.p
    BY <1>6
  <2>2. PICK new \in Int, old \in Int : new = c.newfreq /\ old = c.oldfreq
    BY <1>2, <1>3
  <2>3. Behind(t, p)
    BY <1>3, <1>5, <2>1
  <2>4. Stands(p, Head(doing[t]).oldfreq)
    BY <2>3 DEF ListsInv, StandsFit
  <2>5. Stands(p, old)
    BY <1>a, <2>2, <2>4
  <2>6. UpdateFreqs(p, new, old)
    BY <1>1, <1>3, <2>1, <2>2
  <2>7. \A q \in Humans \ {p} : (q \in Acted' <=> q \in Acted) /\ freq'[q] = freq[q]
    BY <1>1, <1>4
  <2>8. \A q \in Humans \ {p}, u \in Threads : ~Behind(u, q)
    BY <1>5, <2>1 DEF Players
  <2>9. p \in Acted' /\ freq'[p] = new
    BY <1>1, <1>2, <1>4, <2>1, <2>2
  <2> QED
    BY <1>4, <2>5, <2>6, <2>7, <2>8, <2>9, ToldLists
<1>7. CASE c.p \notin Humans
  <2>1. UNCHANGED <<teams, team, crashed>>
    BY <1>1, <1>3, <1>7 DEF UpdateFreqs, Players
  <2>2. ASSUME NEW q \in Humans PROVE StandsFit(q)'
    <3>1. \A u \in Threads : ~Behind(u, q) /\ ~Behind(u, q)'
      BY <1>4, <1>5, <1>7 DEF Players, Calls, Behind
    <3>2. \A f : Stands(q, f)' <=> Stands(q, f)
      BY <2>1 DEF Stands, Listed
    <3> QED
      BY <1>1, <1>4, <3>1, <3>2 DEF ListsInv, StandsFit
  <2> QED
    BY <2>1, <2>2 DEF ListsInv, Kept
<1> QED
  BY <1>6, <1>7

LEMMA EnterLists ==
    ASSUME ListsInv, EnterCallbacks
    PROVE  (\A q \in Humans : StandsFit(q)') /\ Kept(teams)' /\ ~crashed'
<1>t. "main" \in Threads
  BY DEF Threads
<1>a. PICK p : p = Head(doing["main"]).p
  OBVIOUS
<1>1. /\ doing["main"] # <<>> /\ Head(doing["main"]).do = "enter" /\ UNCHANGED freq /\ Done("main", <<>>)
      /\ status' = [status EXCEPT ![p] = IF @ = "arriving" THEN "playing" ELSE @]
      /\ UpdateFreqs(p, freq[p], SpecFreq)
  BY <1>a DEF EnterCallbacks, At, TeamsEnter
<1>2. p \in Humans /\ status[p] = "arriving"
  BY <1>1, <1>a, <1>t, HeadFits DEF ListsInv, Now, Later
<1>3. ~Calls'
  BY <1>1, <1>t, NoCallAfter DEF ListsInv
<1>4. \A q \in Humans, u \in Threads : ~Behind(u, q)
  BY <1>1, <1>t DEF ListsInv, StepsInv, OneWorks, Behind
<1>5. p \notin Acted /\ Stands(p, SpecFreq)
  BY <1>2 DEF ListsInv, StandsFit, Acted
<1>6. /\ p \in Acted' /\ \A q \in Humans \ {p} : q \in Acted' <=> q \in Acted
      /\ freq[p] \in Int /\ SpecFreq \in Int
  BY <1>1, <1>2, GameAssumption DEF ListsInv, StepsInv, TypesFit, Acted, Players
<1>7. PICK new \in Int, old \in Int : new = freq[p] /\ old = SpecFreq
  BY <1>6
<1>8. /\ Stands(p, old) /\ UpdateFreqs(p, new, old) /\ freq'[p] = new
      /\ \A q \in Humans \ {p} : (q \in Acted' <=> q \in Acted) /\ freq'[q] = freq[q]
  BY <1>1, <1>5, <1>6, <1>7
<1> QED
  BY <1>2, <1>3, <1>4, <1>6, <1>8, ToldLists

LEMMA LeaveLists ==
    ASSUME ~Interleaved, ListsInv, NEW p \in Humans, LeaveCallbacks(p)
    PROVE  (\A q \in Humans : StandsFit(q)') /\ Kept(teams)' /\ ~crashed'
<1>1. /\ MayRun("main") /\ status[p] = "leaving" /\ status' = [status EXCEPT ![p] = "left"]
      /\ UNCHANGED <<freq, doing>>
      /\ UpdateFreqs(p, SpecFreq, IF team[p] = NoTeam THEN SpecFreq ELSE team[p])
  BY DEF LeaveCallbacks, TeamsLeave
<1>2. Idle
  BY <1>1, MayRunIdle DEF Threads
<1>3. ~Calls' /\ \A q \in Humans, u \in Threads : ~Behind(u, q)
  BY <1>1, <1>2 DEF Idle, Calls, Behind
<1>4. p \in Acted /\ Stands(p, freq[p])
  BY <1>1, <1>3 DEF ListsInv, StandsFit, Acted, Players
<1>5. /\ p \notin Acted' /\ \A q \in Humans \ {p} : q \in Acted' <=> q \in Acted
      /\ freq[p] \in Int /\ SpecFreq \in Int
  BY <1>1, GameAssumption DEF ListsInv, StepsInv, TypesFit, Acted, Players
<1>6. freq[p] = IF team[p] = NoTeam THEN SpecFreq ELSE team[p]
  BY <1>4, <1>5, GameAssumption DEF Stands, TeamFor
<1>7. PICK new \in Int, old \in Int : new = SpecFreq /\ old = freq[p]
  BY <1>5
<1>8. /\ Stands(p, old) /\ UpdateFreqs(p, new, old)
      /\ \A q \in Humans \ {p} : (q \in Acted' <=> q \in Acted) /\ freq'[q] = freq[q]
  BY <1>1, <1>4, <1>5, <1>6, <1>7
<1> QED
  BY <1>3, <1>5, <1>7, <1>8, ToldLists

LEMMA ListsNext ==
    ASSUME ~Interleaved, ListsInv, [Next]_vars
    PROVE  ListsInv'
<1>1. StepsGo /\ PointersInv'
  BY StepsNext, PointersNext DEF ListsInv, PointersInv
<1>2. StepsInv'
  BY <1>1 DEF StepsGo
<1> SUFFICES (\A q \in Humans : StandsFit(q)') /\ Kept(teams)' /\ ~crashed'
  BY <1>1, <1>2 DEF ListsInv
<1>3. CASE Quiet
  <2>1. UNCHANGED <<teams, team, crashed>>
    BY <1>3 DEF Quiet
  <2> QED
    BY <1>3, <2>1, QuietStep DEF ListsInv, Kept
<1>4. CASE ConfChanged
  <2>1. PICK c \in Configs : conf' = c /\ teams' = Prune(teams, c)
    BY <1>4 DEF ConfChanged, TeamsConfChanged
  <2>2. UNCHANGED <<team, status, freq, doing, crashed>>
    BY <1>4 DEF ConfChanged, TeamsConfChanged
  <2>3. c.remembered \in Int /\ IsTeams(teams) /\ Kept(teams)
    BY ArenaAssumption DEF ListsInv, PointersInv
  <2>4. Kept(teams') /\ \A p \in Humans : \A f : Listed(teams, p, f) => Listed(teams', p, f)
    BY <2>1, <2>3, PruneLists
  <2>5. ASSUME NEW q \in Humans PROVE StandsFit(q)'
    <3>1. StandsFit(q)
      BY DEF ListsInv
    <3>2. \A f : Stands(q, f) => Stands(q, f)'
      BY <2>2, <2>4 DEF Stands, Listed
    <3> QED
      BY <2>2, <3>1, <3>2 DEF StandsFit, Behind, Acted
  <2> QED
    BY <2>2, <2>4, <2>5 DEF ListsInv, Kept
<1>5. CASE EnterCallbacks
  BY <1>5, EnterLists
<1>6. ASSUME NEW p \in Humans, LeaveCallbacks(p) PROVE (\A q \in Humans : StandsFit(q)') /\ Kept(teams)' /\ ~crashed'
  BY <1>6, LeaveLists
<1>7. ASSUME NEW p \in Humans, PreEnter(p) PROVE (\A q \in Humans : StandsFit(q)') /\ Kept(teams)' /\ ~crashed'
  <2>1. /\ MayRun("main") /\ status[p] = "away" /\ status' = [status EXCEPT ![p] = "entering"]
        /\ UNCHANGED <<teams, doing, crashed>> /\ team' = [team EXCEPT ![p] = NoTeam]
        /\ \E f : freq' = [freq EXCEPT ![p] = f]
    BY <1>7 DEF PreEnter, TeamsPreEnter
  <2>2. StandsFit(p) /\ p \notin Acted
    BY <2>1 DEF ListsInv, Acted
  <2>3. Stands(p, SpecFreq)
    BY <2>2 DEF StandsFit
  <2>4. team' = team
    <3>1. team[p] = NoTeam /\ team = [q \in Humans |-> team[q]]
      BY <2>3 DEF Stands, TeamFor, ListsInv, PointersInv, TeamIs
    <3>2. [team EXCEPT ![p] = NoTeam] = team
      BY <3>1
    <3> QED
      BY <2>1, <3>2
  <2>5. ASSUME NEW q \in Humans PROVE (q \in Acted' <=> q \in Acted) /\ (q \in Acted => freq'[q] = freq[q])
    BY <2>1, <2>2 DEF ListsInv, StepsInv, TypesFit, Acted, Players
  <2>6. Quiet
    BY <2>1, <2>4, <2>5 DEF Quiet
  <2> QED
    BY <2>1, <2>6, QuietStep DEF ListsInv, Kept
<1>8. ASSUME NEW t \in Threads, SetNew(t) PROVE (\A q \in Humans : StandsFit(q)') /\ Kept(teams)' /\ ~crashed'
  <2>1. UNCHANGED <<teams, crashed>>
    BY <1>8 DEF SetNew, teamvars
  <2> QED
    BY <1>8, <2>1, SetLists DEF ListsInv, Kept
<1>9. ASSUME NEW t \in Threads, CallBack(t) PROVE (\A q \in Humans : StandsFit(q)') /\ Kept(teams)' /\ ~crashed'
  BY <1>9, CallLists
<1>10. \/ Quiet \/ ConfChanged \/ EnterCallbacks
       \/ \E p \in Humans : PreEnter(p) \/ LeaveCallbacks(p)
       \/ \E t \in Threads : SetNew(t) \/ CallBack(t)
  BY <1>1, ListsMove DEF ListsInv
<1> QED
  BY <1>3, <1>4, <1>5, <1>6, <1>7, <1>8, <1>9, <1>10

LEMMA ListsBegin == Init => ListsInv
<1> SUFFICES ASSUME Init PROVE ListsInv
  OBVIOUS
<1>1. StepsInv /\ PointersInv /\ ~crashed
  BY StepsBegin, PointersBegin DEF Init
<1>2. /\ teams = [f \in 0 .. conf.remembered - 1 |-> NewTeam(f, conf)] /\ team = [p \in Humans |-> NoTeam]
      /\ status = [p \in Players |-> "away"] /\ doing = [t \in Threads |-> <<>>]
  BY DEF Init
<1>3. conf.remembered \in Int
  BY <1>1, ArenaAssumption DEF StepsInv, TypesFit
<1>4. \A f : NewTeam(f, conf).players = Nobody /\ (NewTeam(f, conf).remembered <=> f < conf.remembered)
  BY DEF NewTeam
<1>5. Kept(teams)
  BY <1>2, <1>3, <1>4 DEF Kept
<1>6. ASSUME NEW p \in Humans PROVE StandsFit(p)
  <2>1. Listed(teams, p, NoTeam)
    BY <1>2, <1>4 DEF Listed, Nobody
  <2>2. p \notin Acted /\ \A t \in Threads : ~Behind(t, p)
    BY <1>2 DEF Acted, Behind
  <2> QED
    BY <1>2, <2>1, <2>2 DEF StandsFit, Stands, TeamFor
<1> QED
  BY <1>1, <1>5, <1>6 DEF ListsInv

\* The inductive invariant: what threads have still to do of a change, and what the lists of
\* freqman say meanwhile.
THEOREM ListsInvariant ==
    ASSUME ~Interleaved
    PROVE  Spec => []ListsInv
<1>1. ListsInv /\ [Next]_vars => ListsInv'
  BY ListsNext
<1> QED
  BY <1>1, ListsBegin, PTL DEF Spec

\* Where handlers run to their end, the lists of freqman and its pointers agree with p_freq
\* whenever no handler runs, for any players, settings and frequencies.
THEOREM ListsStayRight ==
    ASSUME ~Interleaved
    PROVE  Spec => []FreqListsAgree
<1>1. ASSUME ListsInv PROVE FreqListsAgree
  <2> SUFFICES ASSUME Settled PROVE
          /\ \A p \in Humans, f \in DOMAIN teams :
                teams[f].players[p] = IF /\ status[p] \in {"playing", "leaving"}
                                         /\ freq[p] = f /\ f # SpecFreq THEN 1 ELSE 0
          /\ \A p \in Humans : status[p] = "playing" /\ freq[p] # SpecFreq => team[p] = freq[p]
          /\ \A f \in DOMAIN teams : Count(f) > 0 \/ teams[f].remembered
    BY DEF FreqListsAgree
  <2>1. \A p \in Humans, t \in Threads : ~Behind(t, p)
    BY DEF Settled, Behind
  <2>2. ASSUME NEW p \in Humans
        PROVE  /\ p \in Acted <=> status[p] \in {"playing", "leaving"}
               /\ p \in Acted => Stands(p, freq[p])
               /\ p \notin Acted => Stands(p, SpecFreq)
               /\ freq[p] \in Int
    BY <1>1, <2>1 DEF ListsInv, StandsFit, StepsInv, TypesFit, Acted, Players
  <2>3. ASSUME NEW p \in Humans, NEW f \in DOMAIN teams
        PROVE  teams[f].players[p] = IF /\ status[p] \in {"playing", "leaving"}
                                        /\ freq[p] = f /\ f # SpecFreq THEN 1 ELSE 0
    <3>1. CASE p \in Acted
      BY <2>2, <3>1, GameAssumption DEF Stands, Listed, TeamFor
    <3>2. CASE p \notin Acted
      BY <2>2, <3>2 DEF Stands, Listed, TeamFor
    <3> QED
      BY <3>1, <3>2
  <2>4. ASSUME NEW p \in Humans, status[p] = "playing", freq[p] # SpecFreq PROVE team[p] = freq[p]
    BY <2>2, <2>4 DEF Stands, TeamFor
  <2>5. ASSUME NEW f \in DOMAIN teams PROVE Count(f) > 0 \/ teams[f].remembered
    BY <1>1, CountIs, ArenaAssumption DEF ListsInv, Kept, PointersInv
  <2> QED
    BY <2>3, <2>4, <2>5
<1> QED
  BY <1>1, ListsInvariant, PTL

\* Where handlers run to their end, the assertion of update_freqs never fails, nor is p->arena
\* NULL when freqman looks at it.
THEOREM FreqmanNeverFails ==
    ASSUME ~Interleaved
    PROVE  Spec => []NoCrash
<1>1. ListsInv => NoCrash
  BY DEF ListsInv, NoCrash
<1> QED
  BY <1>1, ListsInvariant, PTL


----------------------------------------------------------------------------
(* What leaves flags, balls, crowns and watchers alone.                    *)

Still == /\ UNCHANGED <<conf, flag, carried, watching, epd>> /\ Acted' = Acted
         /\ \A p \in Acted : freq'[p] = freq[p]
         /\ DOMAIN ship' = DOMAIN ship /\ \A p \in Acted \cap DOMAIN ship : ship'[p] = ship[p]
         /\ UNCHANGED <<ball, ballCount>> \/ PlayBalls
         /\ UNCHANGED <<crown, hadCrown>> \/ PlayKoth
         /\ queue' = queue \/ \E x : queue' = Append(queue, x)
         /\ doing' = doing \/ ~Calls

LEMMA NoneCalls ==
    ASSUME ~Interleaved, StepsInv, NEW t \in Threads,
           MayRun(t) \/ (doing[t] # <<>> /\ Head(doing[t]).do # "call")
    PROVE  ~Calls
<1>1. CASE MayRun(t)
  BY <1>1, MayRunIdle DEF Idle, Calls
<1>2. CASE doing[t] # <<>> /\ Head(doing[t]).do # "call"
  BY <1>2 DEF StepsInv, OneWorks, Calls
<1> QED
  BY <1>1, <1>2

\* The steps that may not.
Stirs ==
    \/ EnterCallbacks \/ RunChange \/ EndFakeInMain \/ ConfChanged
    \/ \E p \in Humans : LeaveCallbacks(p)
    \/ \E p \in Humans, killer \in Players, fired \in BOOLEAN : PDie(p, killer, fired)
    \/ /\ \/ \E t \in Threads : SetNew(t) \/ CallBack(t) \/ Watch(t) \/ TouchFlag(t)
          \/ \E p \in Fakes : CreateFakePlayer(p)
          \/ SpawnTimer \/ CheckWin \/ FlagResetCommand \/ \E p \in Humans : PFlagTimer(p)
       /\ UNCHANGED <<ballvars, kothvars>>

LEMMA GamesMove ==
    ASSUME ~Interleaved, StepsInv, [Next]_vars
    PROVE  Still \/ Stirs
<1> USE DEF Players
<1>t. "main" \in Threads /\ "net" \in Threads /\ Humans \subseteq Players
  BY DEF Threads
<1>f. status \in [Players -> Statuses] /\ freq \in [Players -> Int]
  BY DEF StepsInv, TypesFit
<1>k. ASSUME UNCHANGED <<conf, flag, carried, watching, epd, status, ship, freq>>,
             UNCHANGED <<ball, ballCount>> \/ PlayBalls, UNCHANGED <<crown, hadCrown>> \/ PlayKoth,
             queue' = queue \/ \E x : queue' = Append(queue, x),
             doing' = doing \/ \E t \in Threads : MayRun(t) \/ (doing[t] # <<>> /\ Head(doing[t]).do # "call")
      PROVE  Still
  <2>1. doing' = doing \/ ~Calls
    BY <1>k, NoneCalls
  <2> QED
    BY <1>k, <2>1 DEF Still, Acted
<1>p. ASSUME UNCHANGED <<conf, flag, carried, watching, epd, queue, ball, ballCount, crown, hadCrown>>, NEW p \in Players, NEW s,
             status' = [status EXCEPT ![p] = s],
             s \in {"playing", "leaving"} <=> status[p] \in {"playing", "leaving"},
             freq' = freq \/ (p \notin Acted /\ \A q \in Players \ {p} : freq'[q] = freq[q]),
             \/ ship' = ship
             \/ p \notin Acted /\ \E k : ship' = [ship EXCEPT ![p] = k],
             doing' = doing \/ \E t \in Threads : MayRun(t)
      PROVE  Still
  <2>1. doing' = doing \/ ~Calls
    BY <1>p, NoneCalls
  <2>2. Acted' = Acted
    BY <1>f, <1>p DEF Acted
  <2>3. \A q \in Acted : freq'[q] = freq[q]
    BY <1>f, <1>p DEF Acted
  <2>4. DOMAIN ship' = DOMAIN ship /\ \A q \in Acted \cap DOMAIN ship : ship'[q] = ship[q]
    BY <1>p
  <2> QED
    BY <1>p, <2>1, <2>2, <2>3, <2>4 DEF Still
<1>1. CASE UNCHANGED vars
  <2>1. UNCHANGED <<conf, flag, carried, watching, epd, status, ship, freq, queue, doing, ball, ballCount, crown, hadCrown>>
    BY <1>1 DEF vars
  <2> QED
    BY <1>k, <2>1
<1>2. ASSUME NEW p \in Humans, Synced(p) PROVE Still
  <2>1. /\ status' = [status EXCEPT ![p] = "synced"] /\ freq' \in {freq, [freq EXCEPT ![p] = SpecFreq]}
        /\ ship' = ship \/ \E k : ship' = [ship EXCEPT ![p] = k]
    BY <1>2 DEF Synced, SetData
  <2>2. UNCHANGED <<conf, flag, carried, watching, epd, queue, doing, ball, ballCount, crown, hadCrown>> /\ status[p] = "entering"
    BY <1>2 DEF Synced, flagvars, ballvars, kothvars
  <2>3. /\ p \notin Acted /\ p \in Players /\ \A q \in Players \ {p} : freq'[q] = freq[q]
        /\ ~(status[p] \in {"playing", "leaving"})
    BY <1>f, <1>t, <2>1, <2>2 DEF Acted
  <2> QED
    BY <1>p, <2>1, <2>2, <2>3
<1>3. ASSUME NEW p \in Humans, PreEnter(p) PROVE Still
  <2>1. PICK f, k : freq' = [freq EXCEPT ![p] = f] /\ ship' = [ship EXCEPT ![p] = k]
    BY <1>3 DEF PreEnter
  <2>2. /\ UNCHANGED <<conf, flag, carried, watching, epd, queue, doing, ball, ballCount, crown, hadCrown>> /\ status[p] = "away"
        /\ status' = [status EXCEPT ![p] = "entering"]
    BY <1>3 DEF PreEnter, flagvars, GamePreEnter, ballvars, kothvars
  <2>3. /\ p \notin Acted /\ p \in Players /\ \A q \in Players \ {p} : freq'[q] = freq[q]
        /\ ~(status[p] \in {"playing", "leaving"})
    BY <1>f, <1>t, <2>1, <2>2 DEF Acted
  <2> QED
    BY <1>p, <2>1, <2>2, <2>3
<1>4. ASSUME NEW p \in Humans, Enter(p) PROVE Still
  <2>1. /\ status' = [status EXCEPT ![p] = "arriving"] /\ status[p] = "synced" /\ MayRun("main")
        /\ UNCHANGED <<conf, ship, freq, flag, carried, watching, epd, queue, ball, ballCount, crown, hadCrown>>
    BY <1>4 DEF Enter, flagvars, gamevars, ballvars, kothvars
  <2> QED
    BY <1>p, <1>t, <2>1
<1>5. ASSUME NEW p \in Humans, Leave(p) PROVE Still
  <2>1. /\ status' = [status EXCEPT ![p] = "leaving"] /\ status[p] = "playing"
        /\ UNCHANGED <<conf, ship, freq, flag, carried, watching, epd, queue, doing, ball, ballCount, crown, hadCrown>>
    BY <1>5 DEF Leave, flagvars, gamevars, ballvars, kothvars
  <2> QED
    BY <1>p, <1>t, <2>1
<1>6. ASSUME NEW p \in Humans, GiveUp(p) PROVE Still
  <2>1. /\ status' = [status EXCEPT ![p] = "left"] /\ status[p] \in {"entering", "synced"}
        /\ UNCHANGED <<conf, ship, freq, flag, carried, watching, epd, queue, doing, ball, ballCount, crown, hadCrown>>
    BY <1>6 DEF GiveUp, flagvars, gamevars, ballvars, kothvars
  <2> QED
    BY <1>p, <1>t, <2>1
<1>7. ASSUME NEW p \in Humans, GoAway(p) PROVE Still
  <2>1. /\ status' = [status EXCEPT ![p] = "away"] /\ freq' = [freq EXCEPT ![p] = -1] /\ ship' = [ship EXCEPT ![p] = -1]
        /\ UNCHANGED <<conf, flag, carried, watching, epd, queue, doing, ball, ballCount, crown, hadCrown>> /\ status[p] = "left"
    BY <1>7 DEF GoAway, flagvars, ballvars, kothvars
  <2>2. /\ p \notin Acted /\ p \in Players /\ \A q \in Players \ {p} : freq'[q] = freq[q]
        /\ ~(status[p] \in {"playing", "leaving"})
    BY <1>f, <1>t, <2>1 DEF Acted
  <2> QED
    BY <1>p, <2>1, <2>2
<1>8. CASE Play
  <2>b. UNCHANGED <<ball, ballCount>> /\ UNCHANGED <<crown, hadCrown>>
    BY <1>8 DEF Play, ballvars, kothvars
  <2>1. ASSUME NEW t \in Threads, ReadOld(t) \/ SetLock(t) PROVE Still
    <3>1. /\ UNCHANGED <<conf, flag, carried, watching, epd, status, ship, freq, queue>>
          /\ doing[t] # <<>> /\ Head(doing[t]).do # "call"
      BY <2>1 DEF ReadOld, SetLock, At, flagvars, gamevars
    <3> QED
      BY <1>k, <2>b, <3>1
  <2>2. ASSUME NEW t \in Threads, Command(t) \/ ArenaLockCommand(t) PROVE Still
    <3>1. UNCHANGED <<conf, flag, carried, watching, epd, status, ship, freq, queue>> /\ MayRun(t)
      BY <2>2 DEF Command, ArenaLockCommand, flagvars, gamevars
    <3> QED
      BY <1>k, <2>b, <3>1
  <2>3. ASSUME NEW p \in Humans,
               \/ \E s \in Ships \cup {SHIP_SPEC} : PSetShip(p, s)
               \/ \E f \in conf.freqs : PSetFreq(p, f)
               \/ \E q \in Players \cup {NoPlayer} : PSpecRequest(p, q)
               \/ Ack(p) \/ PMapRequest(p) \/ SpecForLag(p)
        PROVE  Still
    <3>1. /\ UNCHANGED <<conf, flag, carried, watching, epd, status, ship, freq, queue>>
          /\ MayRun("net") \/ MayRun("main")
      BY <2>3 DEF PSetShip, PSetFreq, PSpecRequest, Ack, PMapRequest, SpecForLag, flagvars, gamevars
    <3> QED
      BY <1>k, <2>b, <1>t, <3>1
  <2>4. ASSUME NEW p \in Fakes, EndFaked(p) PROVE Still
    <3>1. /\ UNCHANGED <<conf, flag, carried, watching, epd, status, ship, freq, doing>>
          /\ \E x : queue' = Append(queue, x)
      BY <2>4 DEF EndFaked, flagvars, gamevars
    <3> QED
      BY <1>k, <2>b, <3>1
  <2> QED
    BY <1>8, <2>1, <2>2, <2>3, <2>4 DEF Play, GameStep, Stirs, ballvars, kothvars
<1>9. CASE PlayFlags
  <2>b. UNCHANGED <<ball, ballCount>> /\ UNCHANGED <<crown, hadCrown>>
    BY <1>9 DEF PlayFlags, ballvars, kothvars
  <2>1. ASSUME NEW p \in Humans, NEW i \in Flags, PFlagTouch(p, i) PROVE Still
    <3>1. UNCHANGED <<conf, flag, carried, watching, epd, status, ship, freq, queue>> /\ MayRun("net")
      BY <2>1 DEF PFlagTouch, flagvars, gamevars
    <3> QED
      BY <1>k, <2>b, <1>t, <3>1
  <2> QED
    BY <1>9, <2>1 DEF PlayFlags, Stirs, ballvars, kothvars
<1>10. CASE PlayBalls
  <2>b. PlayBalls /\ UNCHANGED <<crown, hadCrown>>
    BY <1>10 DEF PlayBalls, kothvars
  <2>1. ASSUME NEW t \in Threads, TakeBall(t) PROVE Still
    <3>1. /\ UNCHANGED <<conf, flag, carried, watching, epd, status, ship, freq, queue>>
          /\ doing[t] # <<>> /\ Head(doing[t]).do # "call"
      BY <2>1 DEF TakeBall, At, flagvars, gamevars
    <3> QED
      BY <1>k, <2>b, <3>1
  <2>2. CASE ~\E t \in Threads : TakeBall(t)
    <3>1. /\ UNCHANGED <<conf, flag, carried, watching, epd, status, ship, freq, queue>>
          /\ MayRun("net") \/ MayRun("main")
      BY <1>10, <2>2 DEF PlayBalls, PPickupBall, PFireBall, PGoal, BasicBallTimer, BallCommand, flagvars, gamevars
    <3> QED
      BY <1>k, <2>b, <1>t, <3>1
  <2> QED
    BY <2>1, <2>2
<1>11. CASE PlayKoth
  <2>b. UNCHANGED <<ball, ballCount>> /\ PlayKoth
    BY <1>11 DEF PlayKoth, ballvars
  <2>1. /\ UNCHANGED <<conf, flag, carried, watching, epd, status, ship, freq, queue>>
        /\ MayRun("net") \/ MayRun("main")
    BY <1>11 DEF PlayKoth, CheckKoth, ResetKoth, PKothExpired, flagvars, gamevars
  <2> QED
    BY <1>k, <2>b, <1>t, <2>1
<1>12. CASE PlayOwners
  <2>b. UNCHANGED <<ball, ballCount>> /\ UNCHANGED <<crown, hadCrown>>
    BY <1>12 DEF PlayOwners, ballvars, kothvars
  <2>1. /\ UNCHANGED <<conf, flag, carried, watching, epd, status, ship, freq, queue>>
        /\ MayRun("net") \/ MayRun("main")
    BY <1>12 DEF PlayOwners, TakeOwnership, KickTimer, GiveOwner, FreqKick, flagvars, gamevars
  <2> QED
    BY <1>k, <2>b, <1>t, <2>1
<1>13. CASE Come
  BY <1>13, <1>2, <1>3, <1>4 DEF Come
<1>14. CASE Go
  BY <1>14, <1>5, <1>6, <1>7 DEF Go, Stirs
<1>15. CASE \/ EnterCallbacks \/ RunChange \/ EndFakeInMain \/ ConfChanged
            \/ \E p \in Humans, killer \in Players, fired \in BOOLEAN : PDie(p, killer, fired)
  BY <1>15 DEF Stirs
<1> QED
  BY <1>1, <1>8, <1>9, <1>10, <1>11, <1>12, <1>13, <1>14, <1>15 DEF Next

----------------------------------------------------------------------------
(* Who is watched: counting the spectators who get energy or extra data.   *)

Watchers(p) == {q \in Humans : watching[q] = p /\ SeesExtra(q)}

\* Whether one sees more of whom he watches does not change with the settings.
SettledEpd == \A c \in Configs, d \in Configs : c.name = d.name => c.specEpd = d.specEpd

WatchTypes == watching = [p \in Humans |-> watching[p]] /\ epd \in [Players -> Nat]
WatchedAct == \A q \in Humans : watching[q] # NoPlayer => watching[q] \in Acted
Counted(p) == epd[p] = Cardinality(Watchers(p))

WatchInv == WatchTypes /\ WatchedAct /\ \A p \in Acted \cap Humans : Counted(p)

LEMMA WatchersEnd == \A p : IsFiniteSet(Watchers(p)) /\ Cardinality(Watchers(p)) \in Nat
<1> SUFFICES ASSUME NEW p PROVE IsFiniteSet(Watchers(p)) /\ Cardinality(Watchers(p)) \in Nat
  OBVIOUS
<1>1. Watchers(p) \subseteq Humans
  BY DEF Watchers
<1> QED
  BY <1>1, ArenaAssumption, FS_Subset, FS_CardinalityType

\* Those of S watch nobody any more.
LEMMA Clears ==
    ASSUME WatchInv, conf' = conf, NEW S, S \subseteq Humans, ClearSpeccing(S)
    PROVE  /\ WatchTypes'
           /\ \A p \in Acted \cap Humans : Counted(p)'
           /\ \A q \in Humans : watching'[q] = IF q \in S THEN NoPlayer ELSE watching[q]
           /\ \A q \in Players : S \cap Watchers(q) = {} => epd'[q] = epd[q]
<1> DEFINE Fewer(q) == {p \in S : watching[p] = q /\ SeesExtra(p)}
<1>1. /\ epd' = [q \in Players |-> LET n == epd[q] - Cardinality(Fewer(q))
                                   IN  IF n < 0 THEN 0 ELSE n]
      /\ watching' = [p \in Humans |-> IF p \in S THEN NoPlayer ELSE watching[p]]
  BY DEF ClearSpeccing
<1>2. \A q : Fewer(q) = S \cap Watchers(q) /\ Fewer(q) \subseteq Watchers(q)
  BY DEF Watchers
<1>3. \A q : /\ IsFiniteSet(Fewer(q)) /\ Cardinality(Fewer(q)) \in Nat
             /\ Cardinality(Fewer(q)) <= Cardinality(Watchers(q))
             /\ Cardinality(Watchers(q) \ Fewer(q)) = Cardinality(Watchers(q)) - Cardinality(Fewer(q))
  <2> TAKE q
  <2>1. IsFiniteSet(Watchers(q)) /\ Fewer(q) \subseteq Watchers(q)
    BY <1>2, WatchersEnd
  <2> HIDE DEF Fewer
  <2>2. IsFiniteSet(Fewer(q)) /\ Cardinality(Fewer(q)) <= Cardinality(Watchers(q))
    BY <2>1, FS_Subset
  <2>3. Cardinality(Fewer(q)) \in Nat
    BY <2>2, FS_CardinalityType
  <2>4. Watchers(q) \cap Fewer(q) = Fewer(q)
    BY <2>1
  <2>5. Cardinality(Watchers(q) \ Fewer(q)) = Cardinality(Watchers(q)) - Cardinality(Watchers(q) \cap Fewer(q))
    BY <2>1, FS_Difference
  <2> QED
    BY <2>2, <2>3, <2>4, <2>5
<1>4. \A q \in Humans : watching'[q] = IF q \in S THEN NoPlayer ELSE watching[q]
  BY <1>1
<1>5. \A q \in Players : Watchers(q)' = Watchers(q) \ Fewer(q)
  <2> SUFFICES ASSUME NEW q \in Players PROVE Watchers(q)' = Watchers(q) \ Fewer(q)
    OBVIOUS
  <2>1. q # NoPlayer
    BY GameAssumption DEF Players
  <2> QED
    BY <1>4, <2>1 DEF Watchers, SeesExtra
<1> HIDE DEF Fewer
<1>6. WatchTypes'
  <2>1. ASSUME NEW q \in Players PROVE epd'[q] \in Nat
    BY <1>1, <1>3, <2>1 DEF WatchInv, WatchTypes
  <2> QED
    BY <1>1, <2>1 DEF WatchTypes
<1>7. ASSUME NEW p \in Acted \cap Humans PROVE Counted(p)'
  <2>1. epd[p] = Cardinality(Watchers(p)) /\ p \in Players
    BY <1>7 DEF WatchInv, Counted, Players
  <2>2. Cardinality(Watchers(p)) \in Nat
    BY WatchersEnd
  <2>3. epd'[p] = Cardinality(Watchers(p)) - Cardinality(Fewer(p))
    BY <1>1, <1>3, <2>1, <2>2
  <2> QED
    BY <1>3, <1>5, <2>1, <2>3 DEF Counted
<1>8. ASSUME NEW q \in Players, S \cap Watchers(q) = {} PROVE epd'[q] = epd[q]
  <2>1. Cardinality(Fewer(q)) = 0 /\ epd[q] \in Nat
    BY <1>2, <1>8, FS_EmptySet DEF WatchInv, WatchTypes
  <2> QED
    BY <1>1, <2>1
<1> QED
  BY <1>4, <1>6, <1>7, <1>8

\* Nobody watched anybody else than before.
LEMMA WatchStays ==
    ASSUME WatchInv, UNCHANGED <<watching, epd>>, Acted \subseteq Acted',
           \A q \in Humans : SeesExtra(q)' = SeesExtra(q),
           (Acted' \ Acted) \cap Humans = {}
    PROVE  WatchInv'
<1>1. WatchTypes' /\ WatchedAct'
  BY DEF WatchInv, WatchTypes, WatchedAct
<1>2. \A p : Watchers(p)' = Watchers(p)
  BY DEF Watchers
<1> QED
  BY <1>1, <1>2 DEF WatchInv, Counted

LEMMA WatchSame ==
    ASSUME WatchInv, UNCHANGED <<watching, epd, conf>>, Acted' = Acted
    PROVE  WatchInv'
BY WatchStays DEF SeesExtra

\* One of them looks at somebody else, or at nobody.
LEMMA WatchMoves ==
    ASSUME StepsInv, WatchInv, NEW t \in Threads, Watch(t)
    PROVE  WatchInv'
<1> DEFINE act == Head(doing[t])
           p == act.p
           old == watching[p]
           new == IF act.who \in Playing /\ InShip(act.who) THEN act.who ELSE NoPlayer
<1>1. /\ watching' = [watching EXCEPT ![p] = new]
      /\ epd' = [q \in Players |->
            epd[q] - (IF q = old /\ SeesExtra(p) /\ epd[q] > 0 THEN 1 ELSE 0)
                   + (IF q = new /\ SeesExtra(p) THEN 1 ELSE 0)]
      /\ UNCHANGED <<conf, status>>
      /\ doing[t] # <<>> /\ act.do = "watch"
  BY DEF Watch, At
<1>2. p \in Humans
  BY <1>1 DEF StepsInv, WorkFits, Works, Now, Later
<1>3. new = NoPlayer \/ new \in Acted
  BY <1>1, NobodyArrives DEF Playing, Acted
<1>4. Acted' = Acted /\ \A q : SeesExtra(q)' = SeesExtra(q)
  BY <1>1 DEF Acted, SeesExtra
<1>5. /\ watching \in [Humans -> {watching[q] : q \in Humans}]
      /\ \A q \in Humans : watching'[q] = IF q = p THEN new ELSE watching[q]
      /\ watching' = [q \in Humans |-> watching'[q]]
  BY <1>1, <1>2 DEF WatchInv, WatchTypes
<1> HIDE DEF act, p, old, new
<1>6. WatchTypes'
  <2>1. ASSUME NEW q \in Players PROVE epd'[q] \in Nat
    BY <1>1, <2>1 DEF WatchInv, WatchTypes
  <2> QED
    BY <1>1, <1>5, <2>1 DEF WatchTypes
<1>7. WatchedAct'
  BY <1>3, <1>4, <1>5 DEF WatchInv, WatchedAct
<1>8. ASSUME NEW q \in Acted \cap Humans PROVE Counted(q)'
  <2>1. epd[q] = Cardinality(Watchers(q)) /\ q \in Players /\ epd[q] \in Nat /\ IsFiniteSet(Watchers(q))
    BY <1>8, WatchersEnd DEF WatchInv, Counted, Players
  <2>2. q # NoPlayer
    BY <2>1, GameAssumption DEF Players
  <2>3. p \in Watchers(q) <=> q = old /\ SeesExtra(p)
    BY <1>2 DEF Watchers, old
  <2>4. epd'[q] = epd[q] - (IF q = old /\ SeesExtra(p) /\ epd[q] > 0 THEN 1 ELSE 0)
                          + (IF q = new /\ SeesExtra(p) THEN 1 ELSE 0)
    BY <1>1, <2>1
  <2>5. \A r \in Humans \ {p} : r \in Watchers(q)' <=> r \in Watchers(q)
    BY <1>4, <1>5 DEF Watchers
  <2>6. p \in Watchers(q)' <=> q = new /\ SeesExtra(p)
    BY <1>2, <1>4, <1>5 DEF Watchers
  <2>7. Watchers(q) \subseteq Humans /\ Watchers(q)' \subseteq Humans
    BY DEF Watchers
  <2>8. Watchers(q)' = IF q = new /\ SeesExtra(p) THEN Watchers(q) \cup {p} ELSE Watchers(q) \ {p}
    BY <2>5, <2>6, <2>7
  <2>9. /\ Cardinality(Watchers(q) \cup {p}) = IF p \in Watchers(q) THEN epd[q] ELSE epd[q] + 1
        /\ Cardinality(Watchers(q) \ {p}) = IF p \in Watchers(q) THEN epd[q] - 1 ELSE epd[q]
    BY <2>1, FS_AddElement, FS_RemoveElement
  <2>10. p \in Watchers(q) => epd[q] > 0
    <3>1. Cardinality(Watchers(q) \ {p}) \in Nat
      BY <2>1, FS_Subset, FS_CardinalityType
    <3> QED
      BY <2>1, <2>9, <3>1
  <2>11. epd'[q] = Cardinality(Watchers(q)')
    <3>1. CASE p \in Watchers(q)
      BY <2>1, <2>3, <2>4, <2>8, <2>9, <2>10, <3>1
    <3>2. CASE p \notin Watchers(q)
      BY <2>1, <2>3, <2>4, <2>8, <2>9, <3>2
    <3> QED
      BY <3>1, <3>2
  <2> QED
    BY <2>11 DEF Counted
<1> QED
  BY <1>4, <1>6, <1>7, <1>8 DEF WatchInv

\* Somebody comes or goes.
LEMMA WatchersCome ==
    ASSUME StepsInv, WatchInv, EnterCallbacks
    PROVE  WatchInv'
<1> DEFINE p == Head(doing["main"]).p
<1>1. /\ status' = [status EXCEPT ![p] = IF @ = "arriving" THEN "playing" ELSE @]
      /\ epd' = [epd EXCEPT ![p] = 0] /\ UNCHANGED <<conf, watching>>
      /\ doing["main"] # <<>> /\ Head(doing["main"]).do = "enter"
  BY DEF EnterCallbacks, GameEnter, At
<1>2. p \in Humans /\ status[p] = "arriving"
  BY <1>1 DEF StepsInv, WorkFits, Works, Now, Later, Threads
<1> HIDE DEF p
<1>3. p \in Players /\ p \notin Acted /\ Acted' = Acted \cup {p}
  BY <1>1, <1>2 DEF StepsInv, TypesFit, Acted, Players
<1>4. WatchTypes' /\ WatchedAct'
  BY <1>1, <1>3 DEF WatchInv, WatchTypes, WatchedAct
<1>5. \A q : Watchers(q)' = Watchers(q)
  BY <1>1 DEF Watchers, SeesExtra
<1>6. Watchers(p) = {}
  <2>1. p # NoPlayer
    BY <1>3, GameAssumption DEF Players
  <2> QED
    BY <1>3, <2>1 DEF WatchInv, WatchedAct, Watchers
<1>7. ASSUME NEW q \in Acted' \cap Humans PROVE Counted(q)'
  <2>1. CASE q = p
    <3>1. epd'[q] = 0 /\ Watchers(q)' = {}
      BY <1>1, <1>3, <1>5, <1>6, <2>1 DEF WatchInv, WatchTypes
    <3> QED
      BY <3>1, FS_EmptySet DEF Counted
  <2>2. CASE q # p
    <3>1. q \in Acted \cap Humans /\ epd'[q] = epd[q]
      BY <1>1, <1>3, <1>7, <2>2 DEF WatchInv, WatchTypes, Players
    <3> QED
      BY <1>5, <3>1 DEF WatchInv, Counted
  <2> QED
    BY <2>1, <2>2
<1> QED
  BY <1>4, <1>7 DEF WatchInv

LEMMA WatchersGo ==
    ASSUME StepsInv, WatchInv, conf' = conf, NEW p \in Players, NEW s \in {"left", "away"}, NEW S, S \subseteq Humans,
           ClearSpeccing(S), status' = [status EXCEPT ![p] = s],
           \A q \in Humans : watching[q] = p => q \in S
    PROVE  WatchInv'
<1>1. Acted' = Acted \ {p}
  BY DEF StepsInv, TypesFit, Acted
<1>2. /\ WatchTypes' /\ \A q \in Acted \cap Humans : Counted(q)'
      /\ \A q \in Humans : watching'[q] = IF q \in S THEN NoPlayer ELSE watching[q]
  BY Clears
<1>3. WatchedAct'
  BY <1>1, <1>2 DEF WatchInv, WatchedAct
<1> QED
  BY <1>1, <1>2, <1>3 DEF WatchInv

LEMMA WatchNext ==
    ASSUME ~Interleaved, SettledEpd, StepsInv, WatchInv, [Next]_vars
    PROVE  WatchInv'
<1>1. CASE Still
  BY <1>1, WatchSame DEF Still
<1>2. CASE EnterCallbacks
  BY <1>2, WatchersCome
<1>3. CASE EndFakeInMain
  <2> DEFINE p == Head(queue).p
  <2>1. /\ status' = [status EXCEPT ![p] = "away"] /\ conf' = conf
        /\ ClearSpeccing({q \in Humans : watching[q] = p}) /\ queue # <<>> /\ queue' = Tail(queue)
    BY <1>3 DEF EndFakeInMain, GameFreeFake
  <2>2. p \in Players
    BY <2>1, QueueShrinks DEF StepsInv, QueueFits
  <2> HIDE DEF p
  <2> QED
    BY <2>1, <2>2, WatchersGo
<1>4. ASSUME NEW p \in Humans, LeaveCallbacks(p) PROVE WatchInv'
  <2>1. /\ status' = [status EXCEPT ![p] = "left"] /\ conf' = conf
        /\ ClearSpeccing({q \in Humans : watching[q] = p} \cup {p})
    BY <1>4 DEF LeaveCallbacks, GameLeave
  <2>2. p \in Players /\ {q \in Humans : watching[q] = p} \cup {p} \subseteq Humans
    BY DEF Players
  <2> QED
    BY <2>1, <2>2, WatchersGo
<1>5. ASSUME NEW t \in Threads, SetNew(t) PROVE WatchInv'
  <2> DEFINE p == Head(doing[t]).p
  <2>1. /\ doing[t] # <<>> /\ Head(doing[t]).do = "set" /\ UNCHANGED <<status, conf>>
        /\ UNCHANGED <<watching, epd>> \/ (p \notin Fakes /\ ClearSpeccing({p}))
    BY <1>5 DEF SetNew, At
  <2>2. p \in Players /\ Acted' = Acted
    BY <2>1 DEF StepsInv, WorkFits, Works, Now, Later, Acted
  <2> HIDE DEF p
  <2>3. CASE UNCHANGED <<watching, epd>>
    BY <2>1, <2>2, <2>3, WatchSame
  <2>4. CASE p \notin Fakes /\ ClearSpeccing({p})
    <3>1. p \in Humans
      BY <2>2, <2>4 DEF Players
    <3>2. /\ WatchTypes' /\ \A q \in Acted \cap Humans : Counted(q)'
          /\ \A q \in Humans : watching'[q] = IF q \in {p} THEN NoPlayer ELSE watching[q]
      BY <2>1, <2>4, <3>1, Clears
    <3> QED
      BY <2>2, <3>2 DEF WatchInv, WatchedAct
  <2> QED
    BY <2>1, <2>3, <2>4
<1>6. ASSUME NEW t \in Threads, Watch(t) PROVE WatchInv'
  BY <1>6, WatchMoves
<1>7. ASSUME NEW p \in Fakes, CreateFakePlayer(p) PROVE WatchInv'
  <2>1. status' = [status EXCEPT ![p] = "playing"] /\ UNCHANGED <<watching, epd, conf>>
    BY <1>7 DEF CreateFakePlayer, gamevars
  <2>2. Acted \subseteq Acted' /\ (Acted' \ Acted) \cap Humans = {}
    BY <2>1, GameAssumption DEF StepsInv, TypesFit, Acted, Players
  <2> QED
    BY <2>1, <2>2, WatchStays DEF SeesExtra
<1>8. CASE ConfChanged
  <2>1. /\ UNCHANGED <<watching, epd, status>> /\ conf' \in Configs /\ conf'.name = conf.name
        /\ conf \in Configs
    BY <1>8 DEF ConfChanged, gamevars, StepsInv, TypesFit
  <2>2. conf'.specEpd = conf.specEpd /\ Acted' = Acted
    BY <2>1 DEF SettledEpd, Acted
  <2> QED
    BY <2>1, <2>2, WatchStays DEF SeesExtra
<1>9. CASE \/ RunChange \/ \E p \in Humans : PFlagTimer(p)
           \/ \E p \in Humans, killer \in Players, fired \in BOOLEAN : PDie(p, killer, fired)
           \/ \E t \in Threads : CallBack(t) \/ TouchFlag(t)
           \/ SpawnTimer \/ CheckWin \/ FlagResetCommand
  <2>1. UNCHANGED <<watching, epd, status, conf>>
    BY <1>9 DEF RunChange, PFlagTimer, PDie, GameDie, CallBack, TouchFlag, SpawnTimer, CheckWin,
                FlagResetCommand, gamevars
  <2> QED
    BY <2>1, WatchSame DEF Acted
<1> QED
  BY <1>1, <1>2, <1>3, <1>4, <1>5, <1>6, <1>7, <1>8, <1>9, GamesMove DEF Stirs

LEMMA WatchBegin == Init => WatchInv
<1> SUFFICES ASSUME Init PROVE WatchInv
  OBVIOUS
<1>1. /\ watching = [p \in Humans |-> NoPlayer] /\ epd = [p \in Players |-> 0]
      /\ status = [p \in Players |-> "away"]
  BY DEF Init
<1> QED
  BY <1>1 DEF WatchInv, WatchTypes, WatchedAct, Acted

\* epd_queries of game.c, by which the server asks clients for more in their position packets, counts those
\* who watch a player and get energy or extra data: one handler at a time, and
\* Misc:SpecSeeExtra not being changed while the arena runs.
THEOREM WatchersStayCounted ==
    ASSUME ~Interleaved, SettledEpd
    PROVE  Spec => []WatchersCounted
<1>1. ListsInv /\ WatchInv /\ [Next]_vars => WatchInv'
  BY WatchNext DEF ListsInv
<1>2. WatchInv => WatchersCounted
  <2> SUFFICES ASSUME WatchInv, NEW p \in InArena \ Fakes, status[p] = "playing"
               PROVE  epd[p] = Cardinality({q \in Humans : watching[q] = p /\ SeesExtra(q)})
    BY DEF WatchersCounted
  <2>1. p \in Acted \cap Humans
    BY DEF Acted, InArena, Players
  <2> QED
    BY <2>1 DEF WatchInv, Counted, Watchers
<1> QED
  BY <1>1, <1>2, WatchBegin, ListsInvariant, PTL DEF Spec

----------------------------------------------------------------------------
(* Flags and who carries them.                                             *)

\* What kind of flag game there is does not change with the settings.
SettledCarry == \A c \in Configs, d \in Configs :
                    c.name = d.name => c.modules = d.modules /\ (c.carry = 0 <=> d.carry = 0)

IsCarried(i) == flag[i].state = "carried"

\* Those of whom flagcore is yet to hear that they have another frequency.
Late == {p \in Players : \/ \E j \in 1 .. Len(queue) : queue[j].p = p
                         \/ \E t \in Threads : Behind(t, p)}

FlagTypes == flag = [i \in Flags |-> flag[i]] /\ carried \in [Players -> Int]
CarriersAct == \A i \in Flags : IsCarried(i) =>
                   /\ flag[i].carrier \in Acted
                   /\ freq[flag[i].carrier] = flag[i].freq \/ flag[i].carrier \in Late
CarriedCounted == \A p \in Players : carried[p] = Cardinality(FlagsOf(p))
TurfStays == IsTurf => \A i \in Flags : ~IsCarried(i)

FlagInv == FlagTypes /\ CarriersAct /\ CarriedCounted /\ TurfStays

LEMMA FlagsEnd == \A p : IsFiniteSet(FlagsOf(p)) /\ Cardinality(FlagsOf(p)) \in Nat
<1> SUFFICES ASSUME NEW p PROVE IsFiniteSet(FlagsOf(p)) /\ Cardinality(FlagsOf(p)) \in Nat
  OBVIOUS
<1>1. FlagsOf(p) \subseteq Flags
  BY DEF FlagsOf
<1> QED
  BY <1>1, ArenaAssumption, FS_Subset, FS_CardinalityType

\* p has none any more, and the others have theirs.
LEMMA CleanupFlags ==
    ASSUME FlagInv, NEW p \in Players, NEW reason, Cleanup(p, reason)
    PROVE  /\ FlagTypes' /\ CarriedCounted'
           /\ \A i \in Flags : IsCarried(i)' => flag'[i] = flag[i] /\ IsCarried(i) /\ flag[i].carrier # p
<1>1. /\ flag' = [i \in Flags |-> IF i \in FlagsOf(p) THEN CleanedUp(reason, flag[i].freq) ELSE flag[i]]
      /\ carried' = [carried EXCEPT ![p] = @ - Cardinality(FlagsOf(p))]
  BY DEF Cleanup
<1>2. \A f : CleanedUp(reason, f).state # "carried"
  BY DEF CleanedUp, OnMap, None
<1>3. \A i \in Flags : IsCarried(i)' => flag'[i] = flag[i] /\ IsCarried(i) /\ flag[i].carrier # p
  BY <1>1, <1>2 DEF IsCarried, FlagsOf
<1>4. \A q \in Players : FlagsOf(q)' = IF q = p THEN {} ELSE FlagsOf(q)
  BY <1>1, <1>2 DEF FlagsOf
<1>5. \A q \in Players : carried[q] = Cardinality(FlagsOf(q)) /\ Cardinality(FlagsOf(q)) \in Nat
  BY FlagsEnd DEF FlagInv, CarriedCounted
<1>6. \A q \in Players : carried'[q] = IF q = p THEN 0 ELSE carried[q]
  BY <1>1, <1>5 DEF FlagInv, FlagTypes
<1>7. CarriedCounted'
  <2>1. ASSUME NEW q \in Players PROVE carried'[q] = Cardinality(FlagsOf(q)')
    BY <1>4, <1>5, <1>6, FS_EmptySet
  <2> QED
    BY <2>1 DEF CarriedCounted
<1>8. FlagTypes'
  BY <1>1, <1>5 DEF FlagInv, FlagTypes
<1> QED
  BY <1>3, <1>7, <1>8

\* The killer takes some of those of the killed, who keeps none.
LEMMA KillFlags ==
    ASSUME FlagInv, NEW p \in Players, NEW killer \in Players \ {p}, FlagsKill(killer, p)
    PROVE  /\ FlagTypes' /\ CarriedCounted' /\ (~IsWarzone => flag' = flag)
           /\ \A i \in Flags : IsCarried(i)' =>
                 \/ flag'[i] = flag[i] /\ IsCarried(i)
                 \/ flag'[i].carrier = killer /\ flag'[i].freq = freq[killer]
<1>1. CASE ~IsWarzone \/ carried[p] = 0
  <2>1. UNCHANGED <<flag, carried>>
    BY <1>1 DEF FlagsKill, flagvars
  <2> QED
    BY <2>1 DEF FlagInv, FlagTypes, CarriedCounted, IsCarried, FlagsOf
<1>2. CASE IsWarzone /\ carried[p] # 0
  <2> DEFINE lost == FlagsOf(p)
             reason == IF killer \in Fakes THEN "drop"
                       ELSE IF freq[killer] = freq[p] THEN "tk" ELSE "normal"
             drops == reason = "drop" \/ (reason = "tk" /\ ~conf.friendlyTransfer)
             room == CanCarry - carried[killer]
             moved == IF room <= 0 THEN {}
                      ELSE IF drops THEN lost
                      ELSE {i \in lost : Cardinality({j \in lost : j < i}) < room}
  <2>1. /\ flag' = [i \in Flags |->
               IF i \notin lost THEN flag[i]
               ELSE IF i \notin moved THEN OnMap(Owned("drop", freq[p]))
               ELSE IF drops THEN OnMap(Owned(reason, freq[p]))
               ELSE CarriedBy(killer)]
        /\ carried' = [carried EXCEPT
               ![p] = @ - Cardinality(lost),
               ![killer] = IF moved = {} THEN @
                           ELSE IF drops THEN Cardinality(FlagsOf(killer))
                           ELSE @ + Cardinality(moved)]
    BY <1>2 DEF FlagsKill
  <2>2. moved \subseteq lost
    OBVIOUS
  <2>d. drops \in BOOLEAN
    OBVIOUS
  <2>i. PICK gets : gets = IF drops THEN {} ELSE moved
    OBVIOUS
  <2>3. /\ gets \subseteq lost
        /\ \A i \in Flags : /\ i \notin lost => flag'[i] = flag[i]
                            /\ i \in lost \ gets => flag'[i].state # "carried"
                            /\ i \in gets => flag'[i] = CarriedBy(killer)
    BY <2>1, <2>2, <2>d, <2>i DEF OnMap
  <2>5. \A q \in Players : carried[q] = Cardinality(FlagsOf(q)) /\ Cardinality(FlagsOf(q)) \in Nat
    BY FlagsEnd DEF FlagInv, CarriedCounted
  <2>4. /\ carried'[p] = carried[p] - Cardinality(lost)
        /\ carried'[killer] = carried[killer] + Cardinality(gets)
        /\ \A q \in Players \ {p, killer} : carried'[q] = carried[q]
        /\ \A q \in Players : carried'[q] \in Int
        /\ carried' = [q \in Players |-> carried'[q]]
    <3>1. Cardinality(lost) \in Nat /\ Cardinality(gets) \in Nat /\ Cardinality({}) = 0
      <4>1. IsFiniteSet(gets)
        BY <2>3, FlagsEnd, FS_Subset
      <4> QED
        BY <4>1, FlagsEnd, FS_CardinalityType, FS_EmptySet
    <3>2. carried \in [Players -> Int]
      BY DEF FlagInv, FlagTypes
    <3> HIDE DEF lost, drops, moved
    <3>3. carried'[killer] = IF moved = {} THEN carried[killer]
                           ELSE IF drops THEN Cardinality(FlagsOf(killer))
                           ELSE carried[killer] + Cardinality(moved)
      BY <2>1, <3>2
    <3>4. carried'[p] = carried[p] - Cardinality(lost)
      BY <2>1, <3>2
    <3>5. carried'[killer] = carried[killer] + Cardinality(gets)
      BY <2>5, <2>i, <3>1, <3>2, <3>3
    <3>6. \A q \in Players \ {p, killer} : carried'[q] = carried[q]
      BY <2>1, <3>2
    <3>7. carried' = [q \in Players |-> carried'[q]]
      BY <2>1, <3>2
    <3>8. \A q \in Players : carried'[q] \in Int
      BY <3>1, <3>2, <3>4, <3>5, <3>6
    <3> QED
      BY <3>4, <3>5, <3>6, <3>7, <3>8
  <2> HIDE DEF moved, drops, reason, room
  <2>6. FlagTypes'
    BY <2>1, <2>4 DEF FlagTypes
  <2>7. \A i \in Flags : /\ i \in FlagsOf(p)' <=> FALSE
                         /\ i \in FlagsOf(killer)' <=> i \in FlagsOf(killer) \cup gets
                         /\ \A q \in Players \ {p, killer} : i \in FlagsOf(q)' <=> i \in FlagsOf(q)
    BY <2>3 DEF FlagsOf, CarriedBy
  <2>8. /\ FlagsOf(p)' = {} /\ FlagsOf(killer)' = FlagsOf(killer) \cup gets
        /\ \A q \in Players \ {p, killer} : FlagsOf(q)' = FlagsOf(q)
    <3>1. \A q : FlagsOf(q)' \subseteq Flags /\ FlagsOf(q) \subseteq Flags
      BY DEF FlagsOf
    <3> QED
      BY <2>3, <2>7, <3>1
  <2>9. Cardinality(FlagsOf(killer) \cup gets) = Cardinality(FlagsOf(killer)) + Cardinality(gets)
    <3>1. FlagsOf(killer) \cap gets = {}
      BY <2>3 DEF FlagsOf
    <3>2. IsFiniteSet(FlagsOf(killer)) /\ IsFiniteSet(gets)
      BY <2>3, FlagsEnd, FS_Subset
    <3>3. Cardinality(FlagsOf(killer) \cup gets)
            = Cardinality(FlagsOf(killer)) + Cardinality(gets) - Cardinality(FlagsOf(killer) \cap gets)
      BY <3>2, FS_Union
    <3>4. Cardinality(gets) \in Nat
      BY <3>2, FS_CardinalityType
    <3>5. Cardinality(FlagsOf(killer) \cap gets) = 0
      BY <3>1, FS_EmptySet
    <3> QED
      BY <2>5, <3>3, <3>4, <3>5
  <2>10. CarriedCounted'
    <3>1. carried'[p] = Cardinality(FlagsOf(p)')
      <4>1. carried'[p] = 0 /\ Cardinality({}) = 0
        BY <2>4, <2>5, FS_EmptySet
      <4> QED
        BY <2>8, <4>1
    <3>2. carried'[killer] = Cardinality(FlagsOf(killer)')
      BY <2>4, <2>5, <2>8, <2>9
    <3>3. \A q \in Players \ {p, killer} : carried'[q] = Cardinality(FlagsOf(q)')
      BY <2>4, <2>5, <2>8
    <3> QED
      BY <3>1, <3>2, <3>3 DEF CarriedCounted
  <2>11. \A i \in Flags : IsCarried(i)' =>
                 \/ flag'[i] = flag[i] /\ IsCarried(i)
                 \/ flag'[i].carrier = killer /\ flag'[i].freq = freq[killer]
    BY <2>3 DEF IsCarried, CarriedBy
  <2> QED
    BY <1>2, <2>6, <2>10, <2>11
<1> QED
  BY <1>1, <1>2

\* Those who carried something go on, or have got it now.
LEMMA CarriersFit ==
    ASSUME FlagInv, FlagTypes', CarriedCounted', conf' = conf, NEW p,
           \A i \in Flags : IsCarried(i)' =>
              \/ flag'[i] = flag[i] /\ IsCarried(i) /\ flag[i].carrier # p
              \/ ~IsTurf /\ flag'[i].carrier \in Acted' /\ flag'[i].freq = freq'[flag'[i].carrier],
           \A q \in Acted : q # p =>
              q \in Acted' /\ (freq'[q] = freq[q] \/ q \in Late') /\ (q \in Late => q \in Late')
    PROVE  FlagInv'
<1>1. CarriersAct'
  <2>1. ASSUME NEW i \in Flags, IsCarried(i)'
        PROVE  /\ flag'[i].carrier \in Acted'
               /\ freq'[flag'[i].carrier] = flag'[i].freq \/ flag'[i].carrier \in Late'
    <3>1. CASE flag'[i] = flag[i] /\ IsCarried(i) /\ flag[i].carrier # p
      <4>p. PICK q : q = flag[i].carrier
        OBVIOUS
      <4>1. q \in Acted /\ (freq[q] = flag[i].freq \/ q \in Late) /\ flag'[i].carrier = q
        BY <3>1, <4>p DEF FlagInv, CarriersAct
      <4>2. q \in Acted' /\ (freq'[q] = flag[i].freq \/ q \in Late')
        BY <3>1, <4>p, <4>1
      <4> QED
        BY <3>1, <4>1, <4>2
    <3>2. CASE flag'[i].carrier \in Acted' /\ flag'[i].freq = freq'[flag'[i].carrier]
      BY <3>2
    <3> QED
      BY <2>1, <3>1, <3>2
  <2>2. (\A i \in Flags : IsCarried(i) =>
            /\ flag[i].carrier \in Acted
            /\ freq[flag[i].carrier] = flag[i].freq \/ flag[i].carrier \in Late)'
    BY <2>1
  <2> QED
    BY <2>2 DEF CarriersAct
<1>2. TurfStays'
  BY DEF FlagInv, TurfStays, IsTurf, Attached
<1> QED
  BY <1>1, <1>2 DEF FlagInv

\* Flags are left alone.
LEMMA FlagsStay ==
    ASSUME FlagInv, UNCHANGED <<flag, carried>>, IsTurf' = IsTurf,
           \A q \in Acted : q \in Acted' /\ (freq'[q] = freq[q] \/ q \in Late') /\ (q \in Late => q \in Late')
    PROVE  FlagInv'
<1>1. FlagTypes' /\ CarriedCounted' /\ TurfStays'
  BY DEF FlagInv, FlagTypes, CarriedCounted, FlagsOf, TurfStays, IsCarried
<1>2. CarriersAct'
  <2>1. ASSUME NEW i \in Flags, IsCarried(i)
        PROVE  /\ flag[i].carrier \in Acted'
               /\ freq'[flag[i].carrier] = flag[i].freq \/ flag[i].carrier \in Late'
    <3>p. PICK q : q = flag[i].carrier
      OBVIOUS
    <3>1. q \in Acted /\ (freq[q] = flag[i].freq \/ q \in Late)
      BY <2>1, <3>p DEF FlagInv, CarriersAct
    <3>2. q \in Acted' /\ (freq'[q] = flag[i].freq \/ q \in Late')
      BY <3>1
    <3> QED
      BY <3>p, <3>2
  <2>2. (\A i \in Flags : IsCarried(i) =>
            /\ flag[i].carrier \in Acted
            /\ freq[flag[i].carrier] = flag[i].freq \/ flag[i].carrier \in Late)'
    BY <2>1 DEF IsCarried
  <2> QED
    BY <2>2 DEF CarriersAct
<1> QED
  BY <1>1, <1>2 DEF FlagInv

\* What is queued stays queued, and no call is forgotten.
LEMMA LateStays ==
    ASSUME StepsInv, queue' = queue \/ (\E x : queue' = Append(queue, x)), doing' = doing \/ ~Calls
    PROVE  \A q : q \in Late => q \in Late'
<1>1. ASSUME NEW q, NEW j \in 1 .. Len(queue), queue[j].p = q PROVE \E k \in 1 .. Len(queue') : queue'[k].p = q
  <2>1. PICK Y : queue \in Seq(Y)
    BY DEF StepsInv, QueueFits, IsSeq
  <2>2. ASSUME NEW x, queue' = Append(queue, x)
        PROVE  j \in 1 .. Len(queue') /\ queue'[j] = queue[j]
    <3>1. PICK Z : Z = Y \cup {x}
      OBVIOUS
    <3>2. queue \in Seq(Z) /\ x \in Z
      BY <2>1, <3>1
    <3> QED
      BY <2>2, <3>2
  <2> QED
    BY <1>1, <2>2
<1>2. \A q : \A t \in Threads : Behind(t, q) => Calls /\ (doing' = doing => Behind(t, q)')
  BY DEF Behind, Calls
<1>3. ASSUME NEW q \in Late PROVE q \in Late'
  <2>1. CASE \E j \in 1 .. Len(queue) : queue[j].p = q
    BY <1>1, <1>3, <2>1 DEF Late, Players
  <2>2. CASE \E t \in Threads : Behind(t, q)
    <3>1. \E t \in Threads : Behind(t, q)'
      BY <1>2, <2>2
    <3> QED
      BY <1>3, <3>1 DEF Late, Players, Threads
  <2> QED
    BY <1>3, <2>1, <2>2 DEF Late
<1> QED
  BY <1>3

\* The first of the queue is dealt with.
LEMMA LateShrinks ==
    ASSUME StepsInv, queue # <<>>, queue' = Tail(queue), doing' = doing
    PROVE  \A q : q # Head(queue).p /\ q \in Late => q \in Late'
<1>1. ASSUME NEW q, q # Head(queue).p, NEW j \in 1 .. Len(queue), queue[j].p = q
      PROVE  \E k \in 1 .. Len(queue') : queue'[k].p = q
  <2>1. PICK Y : queue \in Seq(Y)
    BY DEF StepsInv, QueueFits, IsSeq
  <2>2. Len(queue') = Len(queue) - 1 /\ Head(queue) = queue[1] /\ Len(queue) \in Nat
    BY <2>1
  <2>3. j - 1 \in 1 .. Len(queue') /\ queue'[j - 1] = queue[j]
    BY <1>1, <2>1, <2>2
  <2> QED
    BY <1>1, <2>3
<1>2. \A q : \A t \in Threads : Behind(t, q) => Behind(t, q)'
  BY DEF Behind
<1>3. ASSUME NEW q \in Late, q # Head(queue).p PROVE q \in Late'
  <2>1. CASE \E j \in 1 .. Len(queue) : queue[j].p = q
    BY <1>1, <1>3, <2>1 DEF Late, Players
  <2>2. CASE \E t \in Threads : Behind(t, q)
    <3>1. \E t \in Threads : Behind(t, q)'
      BY <1>2, <2>2
    <3> QED
      BY <1>3, <3>1 DEF Late, Players, Threads
  <2> QED
    BY <1>3, <2>1, <2>2 DEF Late
<1> QED
  BY <1>3

\* A ship and a frequency are set: then flagcore and balls are yet to hear of it.
LEMMA SetLate ==
    ASSUME ~Interleaved, StepsInv, NEW t \in Threads, SetNew(t)
    PROVE  /\ \A q \in Late : q \in Late'
           /\ \/ UNCHANGED <<ship, freq>>
              \/ \E p \in Acted : /\ p \in Late'
                                  /\ \E f, k : freq' = [freq EXCEPT ![p] = f] /\ ship' = [ship EXCEPT ![p] = k]
<1>p. PICK p : p = Head(doing[t]).p
  OBVIOUS
<1>1. /\ queue' = queue /\ doing[t] # <<>> /\ Head(doing[t]).do = "set"
      /\ \/ UNCHANGED <<ship, freq>>
         \/ /\ \E f, k : freq' = [freq EXCEPT ![p] = f] /\ ship' = [ship EXCEPT ![p] = k]
            /\ \E x : x.do = "call" /\ x.p = p /\ Done(t, <<x>>)
  <2>1. ASSUME NEW s, NEW o, NEW f, NEW g, NEW x,
               x = [do |-> "call", p |-> p, newship |-> s, newfreq |-> f, oldship |-> o, oldfreq |-> g]
        PROVE  x.do = "call" /\ x.p = p
    BY <2>1
  <2> QED
    BY <1>p, <2>1 DEF SetNew, At
<1>2. p \in Acted /\ Acted \subseteq Players
  BY <1>p, <1>1, HeadFits DEF Now, Later, Acted
<1>3. \A q \in Late : q \in Late'
  BY <1>1, NoneCalls, LateStays
<1>4. ASSUME NEW x, x.do = "call", x.p = p, Done(t, <<x>>) PROVE p \in Late'
  <2>1. doing'[t] = <<x>> \o Tail(doing[t])
    BY <1>4 DEF Done, StepsInv, TypesFit
  <2>2. PICK d : d = doing[t]
    OBVIOUS
  <2>3. IsSeq(d) /\ d # <<>>
    BY <1>1, <2>2 DEF StepsInv, WorkFits, Works
  <2>4. doing'[t] # <<>> /\ Head(doing'[t]) = x
    BY <2>1, <2>2, <2>3, Replaces
  <2>5. Behind(t, p)'
    BY <1>4, <2>4 DEF Behind
  <2> QED
    BY <1>2, <2>5 DEF Late, Players, Threads
<1> QED
  BY <1>1, <1>2, <1>3, <1>4

\* They are to hear of it from main.
LEMMA CallLate ==
    ASSUME StepsInv, NEW t \in Threads, CallBack(t)
    PROVE  \A q \in Late : q \in Late'
<1>p. PICK p : p = Head(doing[t]).p
  OBVIOUS
<1>1. doing[t] # <<>> /\ Head(doing[t]).do = "call"
  BY DEF CallBack, At
<1>2. p \in InArena /\ Now(Head(doing[t]))
  BY <1>p, <1>1, HeadFits DEF Now, Later, Acted, InArena
<1>3. queue' = Append(queue, [Head(doing[t]) EXCEPT !.do = "change"])
  BY <1>p, <1>2 DEF CallBack
<1>4. PICK x : x = [Head(doing[t]) EXCEPT !.do = "change"]
  OBVIOUS
<1>5. x.p = p
  BY <1>p, <1>1, <1>2, <1>4 DEF Now, Later
<1>6. PICK Y : queue \in Seq(Y)
  BY DEF StepsInv, QueueFits, IsSeq
<1>7. PICK Z : Z = Y \cup {x}
  OBVIOUS
<1>8. queue \in Seq(Z) /\ x \in Z
  BY <1>6, <1>7
<1>9. /\ \A j \in 1 .. Len(queue) : j \in 1 .. Len(queue') /\ queue'[j] = queue[j]
      /\ Len(queue) + 1 \in 1 .. Len(queue') /\ queue'[Len(queue) + 1] = x
  BY <1>3, <1>4, <1>8
<1>10. ASSUME NEW q \in Late PROVE \E j \in 1 .. Len(queue') : queue'[j].p = q
  <2>1. CASE \E j \in 1 .. Len(queue) : queue[j].p = q
    BY <1>9, <2>1
  <2>2. CASE \E u \in Threads : Behind(u, q)
    <3>1. q = p
      BY <1>p, <1>1, <2>2 DEF Behind, StepsInv, OneWorks
    <3> QED
      BY <1>5, <1>9, <3>1
  <2> QED
    BY <1>10, <2>1, <2>2 DEF Late
<1> QED
  BY <1>10 DEF Late, Players

\* The steps of threads.
LEMMA FlagSteps ==
    ASSUME ~Interleaved, StepsInv, FlagInv, NEW t \in Threads,
           SetNew(t) \/ CallBack(t) \/ Watch(t) \/ TouchFlag(t)
    PROVE  FlagInv'
<1>p. PICK p : p = Head(doing[t]).p
  OBVIOUS
<1>1. /\ doing[t] # <<>> /\ UNCHANGED <<status, conf>>
      /\ Head(doing[t]).do \in {"set", "call", "watch", "touch"}
  BY DEF SetNew, CallBack, Watch, TouchFlag, At
<1>2. p \in Acted /\ Now(Head(doing[t])) /\ Acted' = Acted /\ IsTurf' = IsTurf /\ Acted \subseteq Players
  BY <1>p, <1>1, HeadFits DEF Now, Later, Acted, IsTurf, Attached
<1>3. CASE SetNew(t)
  <2>1. UNCHANGED <<flag, carried>>
    BY <1>3 DEF SetNew, flagvars
  <2>2. \A q \in Acted : (freq'[q] = freq[q] \/ q \in Late') /\ (q \in Late => q \in Late')
    BY <1>2, <1>3, SetLate DEF StepsInv, TypesFit
  <2> QED
    BY <1>2, <2>1, <2>2, FlagsStay
<1>4. CASE CallBack(t)
  <2>1. UNCHANGED <<flag, carried, freq>>
    BY <1>4 DEF CallBack, flagvars
  <2>2. \A q \in Acted : q \in Late => q \in Late'
    BY <1>4, CallLate
  <2> QED
    BY <1>2, <2>1, <2>2, FlagsStay
<1>5. CASE Watch(t)
  <2>1. UNCHANGED <<flag, carried, freq, queue>> /\ Head(doing[t]).do = "watch"
    BY <1>5 DEF Watch, At, flagvars
  <2>2. \A q \in Acted : q \in Late => q \in Late'
    BY <1>1, <2>1, NoneCalls, LateStays
  <2> QED
    BY <1>2, <2>1, <2>2, FlagsStay
<1>6. CASE TouchFlag(t)
  <2>i. PICK i : i = Head(doing[t]).flag
    OBVIOUS
  <2>1. /\ UNCHANGED <<freq, queue>> /\ Head(doing[t]).do = "touch" /\ i \in Flags
        /\ flag' = [flag EXCEPT ![i] =
               IF @.state # "onmap" THEN @
               ELSE IF IsTurf THEN OnMap(freq[p])
               ELSE IF carried[p] < CanCarry THEN CarriedBy(p) ELSE @]
        /\ carried' = IF flag'[i].state = "carried" /\ flag[i].state = "onmap"
                           THEN [carried EXCEPT ![p] = @ + 1] ELSE carried
    BY <1>6, <1>p, <1>2, <2>i DEF TouchFlag, At, Now, Later
  <2>2. \A q \in Acted : q \in Late => q \in Late'
    BY <1>1, <2>1, NoneCalls, LateStays
  <2>3. \A j \in Flags \ {i} : flag'[j] = flag[j]
    BY <2>1 DEF FlagInv, FlagTypes
  <2>7. \A j \in Flags : IsCarried(j) => flag[j].carrier # NoPlayer
    BY <1>2, GameAssumption DEF FlagInv, CarriersAct, Players
  <2>4. CASE flag[i].state = "onmap" /\ flag'[i] = CarriedBy(p) /\ ~IsTurf
    <3>1. /\ flag'[i].state = "carried" /\ flag'[i].carrier = p /\ flag'[i].freq = freq[p]
          /\ carried' = [carried EXCEPT ![p] = @ + 1]
      BY <2>1, <2>4 DEF CarriedBy
    <3>2. FlagTypes'
      BY <1>2, <2>1, <3>1 DEF FlagInv, FlagTypes
    <3>3. /\ \A q \in Players : FlagsOf(q)' = IF q = p THEN FlagsOf(p) \cup {i} ELSE FlagsOf(q)
          /\ i \notin FlagsOf(p)
      BY <2>1, <2>3, <2>4, <3>1 DEF FlagsOf
    <3>4. Cardinality(FlagsOf(p) \cup {i}) = Cardinality(FlagsOf(p)) + 1
      BY <3>3, FlagsEnd, FS_AddElement
    <3>5. CarriedCounted'
      <4>1. ASSUME NEW q \in Players PROVE carried'[q] = Cardinality(FlagsOf(q)')
        <5>1. CASE q = p
          BY <1>2, <3>1, <3>3, <3>4, <5>1 DEF FlagInv, FlagTypes, CarriedCounted
        <5>2. CASE q # p
          BY <1>2, <3>1, <3>3, <5>2 DEF FlagInv, FlagTypes, CarriedCounted
        <5> QED
          BY <5>1, <5>2
      <4> QED
        BY <4>1 DEF CarriedCounted
    <3>6. \A j \in Flags : IsCarried(j)' =>
              \/ flag'[j] = flag[j] /\ IsCarried(j) /\ flag[j].carrier # NoPlayer
              \/ ~IsTurf /\ flag'[j].carrier \in Acted' /\ flag'[j].freq = freq'[flag'[j].carrier]
      BY <1>2, <2>1, <2>3, <2>4, <2>7, <3>1 DEF IsCarried
    <3>7. \A q \in Acted : q # NoPlayer =>
              q \in Acted' /\ (freq'[q] = freq[q] \/ q \in Late') /\ (q \in Late => q \in Late')
      BY <1>2, <2>1, <2>2
    <3> QED
      BY <1>1, <3>2, <3>5, <3>6, <3>7, CarriersFit
  <2>5. CASE ~(flag[i].state = "onmap" /\ flag'[i] = CarriedBy(p) /\ ~IsTurf)
    <3>1. /\ flag'[i] = flag[i] \/ (flag[i].state = "onmap" /\ flag'[i].state = "onmap")
          /\ carried' = carried
      BY <2>1, <2>5 DEF OnMap, FlagInv, FlagTypes
    <3>2. \A j \in Flags : (IsCarried(j)' <=> IsCarried(j)) /\ (IsCarried(j) => flag'[j] = flag[j])
      BY <2>3, <3>1 DEF IsCarried
    <3>3. \A q : FlagsOf(q)' = FlagsOf(q)
      BY <3>2 DEF FlagsOf, IsCarried
    <3>4. FlagTypes' /\ CarriedCounted'
      BY <2>1, <3>1, <3>3 DEF FlagInv, FlagTypes, CarriedCounted
    <3>6. \A j \in Flags : IsCarried(j)' =>
              \/ flag'[j] = flag[j] /\ IsCarried(j) /\ flag[j].carrier # NoPlayer
              \/ ~IsTurf /\ flag'[j].carrier \in Acted' /\ flag'[j].freq = freq'[flag'[j].carrier]
      BY <2>7, <3>2
    <3>7. \A q \in Acted : q # NoPlayer =>
              q \in Acted' /\ (freq'[q] = freq[q] \/ q \in Late') /\ (q \in Late => q \in Late')
      BY <1>2, <2>1, <2>2
    <3> QED
      BY <1>1, <3>4, <3>6, <3>7, CarriersFit
  <2> QED
    BY <2>4, <2>5
<1> QED
  BY <1>3, <1>4, <1>5, <1>6

\* Somebody comes, who carries nothing.
LEMMA FlagsCome ==
    ASSUME ~Interleaved, StepsInv, FlagInv, EnterCallbacks \/ \E p \in Fakes : CreateFakePlayer(p)
    PROVE  FlagInv'
<1>1. ASSUME NEW p \in Players, p \notin Acted, carried' = [carried EXCEPT ![p] = 0],
             UNCHANGED <<flag, conf, queue>>, Acted \subseteq Acted', \A q \in Acted : freq'[q] = freq[q],
             doing' = doing \/ ~Calls
      PROVE  FlagInv'
  <2>1. FlagsOf(p) = {}
    BY <1>1 DEF FlagInv, CarriersAct, FlagsOf, IsCarried
  <2>2. carried[p] = 0
    BY <2>1, FS_EmptySet DEF FlagInv, CarriedCounted
  <2>3. carried' = carried
    BY <1>1, <2>2 DEF FlagInv, FlagTypes
  <2>4. \A q \in Acted : q \in Late => q \in Late'
    BY <1>1, LateStays
  <2>5. IsTurf' = IsTurf
    BY <1>1 DEF IsTurf, Attached
  <2> QED
    BY <1>1, <2>3, <2>4, <2>5, FlagsStay
<1>2. CASE EnterCallbacks
  <2>p. PICK p : p = Head(doing["main"]).p
    OBVIOUS
  <2>1. /\ status' = [status EXCEPT ![p] = IF @ = "arriving" THEN "playing" ELSE @]
        /\ carried' = [carried EXCEPT ![p] = 0] /\ UNCHANGED <<flag, conf, queue, freq>>
        /\ doing["main"] # <<>> /\ Head(doing["main"]).do = "enter"
    BY <1>2, <2>p DEF EnterCallbacks, FlagsEnter, At
  <2>2. p \in Players /\ status[p] = "arriving" /\ ~Calls
    BY <2>p, <2>1, HeadFits, NoneCalls DEF Now, Later, Threads, Players
  <2>3. p \notin Acted /\ Acted \subseteq Acted'
    BY <2>1, <2>2 DEF StepsInv, TypesFit, Acted
  <2> QED
    BY <1>1, <2>1, <2>2, <2>3
<1>3. ASSUME NEW p \in Fakes, CreateFakePlayer(p) PROVE FlagInv'
  <2>1. /\ status[p] = "away" /\ status' = [status EXCEPT ![p] = "playing"]
        /\ \E f : freq' = [freq EXCEPT ![p] = f]
        /\ carried' = [carried EXCEPT ![p] = 0] /\ UNCHANGED <<flag, conf, queue, doing>>
    BY <1>3 DEF CreateFakePlayer
  <2>2. p \in Players
    BY DEF Players
  <2>3. p \notin Acted /\ Acted \subseteq Acted' /\ \A q \in Acted : freq'[q] = freq[q]
    BY <2>1, <2>2 DEF StepsInv, TypesFit, Acted
  <2> QED
    BY <1>1, <2>1, <2>2, <2>3
<1> QED
  BY <1>2, <1>3

\* Somebody loses his flags, or goes with them.
LEMMA FlagsGo ==
    ASSUME FlagInv, conf' = conf, NEW p \in Players, Acted \ {p} \subseteq Acted',
           \A q \in Acted \ {p} : freq'[q] = freq[q] /\ (q \in Late => q \in Late'),
           (\E reason : Cleanup(p, reason)) \/ (p \notin Acted /\ UNCHANGED <<flag, carried>>)
    PROVE  FlagInv'
<1>1. /\ FlagTypes' /\ CarriedCounted'
      /\ \A i \in Flags : IsCarried(i)' => flag'[i] = flag[i] /\ IsCarried(i) /\ flag[i].carrier # p
  <2>1. ASSUME NEW reason, Cleanup(p, reason)
        PROVE  /\ FlagTypes' /\ CarriedCounted'
               /\ \A i \in Flags : IsCarried(i)' => flag'[i] = flag[i] /\ IsCarried(i) /\ flag[i].carrier # p
    BY <2>1, CleanupFlags
  <2>2. CASE p \notin Acted /\ UNCHANGED <<flag, carried>>
    <3>1. \A i \in Flags : IsCarried(i) => flag[i].carrier # p
      BY <2>2 DEF FlagInv, CarriersAct
    <3> QED
      BY <2>2, <3>1 DEF FlagInv, FlagTypes, CarriedCounted, FlagsOf, IsCarried
  <2> QED
    BY <2>1, <2>2
<1>2. \A q \in Acted : q # p => q \in Acted' /\ (freq'[q] = freq[q] \/ q \in Late') /\ (q \in Late => q \in Late')
  OBVIOUS
<1> QED
  BY <1>1, <1>2, CarriersFit

\* All flags go back to where a game begins.
LEMMA ResetFlags ==
    ASSUME FlagInv, FlagReset
    PROVE  FlagTypes' /\ CarriedCounted' /\ \A i \in Flags : ~IsCarried(i)'
<1>1. /\ flag' = [i \in Flags |-> IF IsTurf THEN OnMap(NoFreq) ELSE None(NoFreq)]
      /\ carried' = IF IsTurf THEN carried
                  ELSE [p \in Players |-> carried[p] - Cardinality(FlagsOf(p))]
  BY DEF FlagReset
<1>2. \A i \in Flags : ~IsCarried(i)'
  BY <1>1 DEF IsCarried, OnMap, None
<1>3. \A p : FlagsOf(p)' = {} /\ (IsTurf => FlagsOf(p) = {})
  BY <1>2 DEF FlagsOf, IsCarried, FlagInv, TurfStays
<1>4. \A p \in Players : carried[p] = Cardinality(FlagsOf(p)) /\ Cardinality(FlagsOf(p)) \in Nat
  BY FlagsEnd DEF FlagInv, CarriedCounted
<1>5. \A p \in Players : carried'[p] = 0
  <2>1. Cardinality({}) = 0
    BY FS_EmptySet
  <2>2. CASE IsTurf
    <3>1. \A p \in Players : carried[p] = Cardinality({})
      BY <1>3, <1>4, <2>2
    <3> QED
      BY <1>1, <2>1, <2>2, <3>1
  <2>3. CASE ~IsTurf
    BY <1>1, <1>4, <2>3
  <2> QED
    BY <2>2, <2>3
<1>6. carried' = [p \in Players |-> carried'[p]]
  BY <1>1 DEF FlagInv, FlagTypes
<1>7. FlagTypes' /\ CarriedCounted'
  <2>1. flag' = [i \in Flags |-> flag'[i]]
    BY <1>1
  <2>2. FlagTypes'
    BY <1>5, <1>6, <2>1 DEF FlagTypes
  <2>3. \A p \in Players : carried'[p] = Cardinality(FlagsOf(p)')
    BY <1>3, <1>5, FS_EmptySet
  <2> QED
    BY <2>2, <2>3 DEF CarriedCounted
<1> QED
  BY <1>2, <1>7

\* The timers and commands of the flag game.
LEMMA FlagTimers ==
    ASSUME StepsInv, FlagInv, SpawnTimer \/ CheckWin \/ FlagResetCommand
    PROVE  FlagInv'
<1>1. UNCHANGED <<conf, status, freq, queue, doing>>
  BY DEF SpawnTimer, CheckWin, FlagResetCommand
<1>2. \A q \in Acted : q \in Acted' /\ freq'[q] = freq[q] /\ (q \in Late => q \in Late')
  BY <1>1, LateStays DEF Acted
<1>3. IsTurf' = IsTurf
  BY <1>1 DEF IsTurf, Attached
<1>4. CASE FlagReset
  <2>1. FlagTypes' /\ CarriedCounted' /\ \A i \in Flags : ~IsCarried(i)'
    BY <1>4, ResetFlags
  <2> QED
    BY <2>1 DEF FlagInv, CarriersAct, TurfStays
<1>5. CASE UNCHANGED <<flag, carried>>
  BY <1>2, <1>3, <1>5, FlagsStay
<1>6. CASE SpawnTimer
  <2>1. /\ carried' = carried /\ flag' = [i \in Flags |-> flag'[i]]
        /\ \A i \in Flags : flag'[i] = flag[i] \/ (flag[i].state = "none" /\ \E f : flag'[i] = OnMap(f))
    BY <1>6 DEF SpawnTimer
  <2>2. \A i \in Flags : flag'[i] = flag[i] \/ (flag[i].state = "none" /\ flag'[i].state = "onmap")
    BY <2>1 DEF OnMap
  <2>3. \A i \in Flags : (IsCarried(i)' <=> IsCarried(i)) /\ (IsCarried(i) => flag'[i] = flag[i])
    BY <2>2 DEF IsCarried
  <2>4. \A q : FlagsOf(q)' = FlagsOf(q)
    BY <2>3 DEF FlagsOf, IsCarried
  <2>5. flag' = [i \in Flags |-> flag'[i]]
    BY <2>1
  <2>6. FlagTypes' /\ CarriedCounted'
    BY <2>1, <2>4, <2>5 DEF FlagInv, FlagTypes, CarriedCounted
  <2>7. \A i \in Flags : IsCarried(i) => flag[i].carrier # NoPlayer
    BY GameAssumption DEF FlagInv, CarriersAct, Acted, Players
  <2>8. \A i \in Flags : IsCarried(i)' =>
              \/ flag'[i] = flag[i] /\ IsCarried(i) /\ flag[i].carrier # NoPlayer
              \/ ~IsTurf /\ flag'[i].carrier \in Acted' /\ flag'[i].freq = freq'[flag'[i].carrier]
    BY <2>3, <2>7
  <2> QED
    BY <1>1, <1>2, <2>6, <2>8, CarriersFit
<1> QED
  BY <1>4, <1>5, <1>6 DEF CheckWin, FlagResetCommand, flagvars

LEMMA FlagNext ==
    ASSUME ~Interleaved, SettledCarry, StepsInv, FlagInv, [Next]_vars
    PROVE  FlagInv'
<1>t. "main" \in Threads /\ "net" \in Threads /\ Humans \subseteq Players /\ Fakes \subseteq Players
  BY DEF Threads, Players
<1>1. CASE Still
  <2>1. \A q : q \in Late => q \in Late'
    BY <1>1, LateStays DEF Still
  <2> QED
    BY <1>1, <2>1, FlagsStay DEF Still, IsTurf, Attached
<1>2. CASE EnterCallbacks \/ \E p \in Fakes : CreateFakePlayer(p)
  BY <1>2, FlagsCome
<1>3. ASSUME NEW t \in Threads, SetNew(t) \/ CallBack(t) \/ Watch(t) \/ TouchFlag(t) PROVE FlagInv'
  BY <1>3, FlagSteps
<1>4. CASE SpawnTimer \/ CheckWin \/ FlagResetCommand
  BY <1>4, FlagTimers
<1>5. CASE RunChange
  <2>p. PICK p : p = Head(queue).p
    OBVIOUS
  <2>1. /\ queue # <<>> /\ queue' = Tail(queue) /\ UNCHANGED <<conf, status, freq, doing>>
        /\ IF p \in InArena THEN Cleanup(p, "change") ELSE UNCHANGED <<flag, carried>>
    BY <1>5, <2>p DEF RunChange, FlagsChange, flagvars
  <2>2. p \in Players
    BY <2>p, <2>1, QueueShrinks DEF StepsInv, QueueFits
  <2>3. p \notin InArena => p \notin Acted
    BY DEF Acted, InArena
  <2>4. Acted' = Acted /\ \A q \in Acted \ {p} : q \in Late => q \in Late'
    BY <2>p, <2>1, LateShrinks DEF Acted
  <2> QED
    BY <2>1, <2>2, <2>3, <2>4, FlagsGo
<1>6. CASE EndFakeInMain
  <2>p. PICK p : p = Head(queue).p
    OBVIOUS
  <2>1. /\ queue # <<>> /\ queue' = Tail(queue) /\ UNCHANGED <<conf, doing>>
        /\ status' = [status EXCEPT ![p] = "away"] /\ freq' = [freq EXCEPT ![p] = -1]
        /\ Cleanup(p, "other")
    BY <1>6, <2>p DEF EndFakeInMain
  <2>2. p \in Players
    BY <2>p, <2>1, QueueShrinks DEF StepsInv, QueueFits
  <2>3. Acted \ {p} \subseteq Acted' /\ \A q \in Acted \ {p} : freq'[q] = freq[q]
    BY <2>1, <2>2 DEF StepsInv, TypesFit, Acted
  <2>4. \A q \in Acted \ {p} : q \in Late => q \in Late'
    BY <2>p, <2>1, LateShrinks
  <2> QED
    BY <2>1, <2>2, <2>3, <2>4, FlagsGo
<1>7. ASSUME NEW p \in Humans, LeaveCallbacks(p) PROVE FlagInv'
  <2>1. /\ status' = [status EXCEPT ![p] = "left"] /\ UNCHANGED <<conf, freq, queue, doing>>
        /\ Cleanup(p, "leftarena")
    BY <1>7 DEF LeaveCallbacks, FlagsLeave
  <2>2. p \in Players /\ Acted \ {p} \subseteq Acted'
    BY <1>t, <2>1 DEF StepsInv, TypesFit, Acted
  <2>3. \A q \in Acted \ {p} : q \in Late => q \in Late'
    BY <2>1, LateStays
  <2> QED
    BY <2>1, <2>2, <2>3, FlagsGo
<1>8. ASSUME NEW p \in Humans, PFlagTimer(p) PROVE FlagInv'
  <2>1. /\ UNCHANGED <<conf, status, freq, queue, doing>> /\ \E reason : Cleanup(p, reason)
    BY <1>8 DEF PFlagTimer
  <2>2. p \in Players /\ Acted' = Acted
    BY <1>t, <2>1 DEF Acted
  <2>3. \A q \in Acted \ {p} : q \in Late => q \in Late'
    BY <2>1, LateStays
  <2> QED
    BY <2>1, <2>2, <2>3, FlagsGo
<1>9. CASE ConfChanged
  <2>1. /\ UNCHANGED <<flag, carried, status, freq, queue, doing>> /\ conf' \in Configs
        /\ conf'.name = conf.name /\ conf \in Configs
    BY <1>9 DEF ConfChanged, flagvars, StepsInv, TypesFit
  <2>2. IsTurf' = IsTurf /\ Acted' = Acted
    BY <2>1 DEF SettledCarry, IsTurf, Attached, Acted
  <2>3. \A q : q \in Late => q \in Late'
    BY <2>1, LateStays
  <2> QED
    BY <2>1, <2>2, <2>3, FlagsStay
<1>10. ASSUME NEW p \in Humans, NEW killer \in Players, NEW fired \in BOOLEAN, PDie(p, killer, fired)
       PROVE  FlagInv'
  <2>1. /\ MayRun("net") /\ killer \in Playing \ {p} /\ FlagsKill(killer, p)
        /\ UNCHANGED <<conf, status, freq, queue>>
    BY <1>10 DEF PDie
  <2>2. killer \in Acted /\ Acted' = Acted /\ ~Calls
    <3>1. Idle
      BY <1>t, <2>1, MayRunIdle
    <3> QED
      BY <2>1, <3>1, IdleArrivals DEF Playing, Acted, Idle, Calls
  <2>3. /\ FlagTypes' /\ CarriedCounted' /\ (~IsWarzone => flag' = flag)
        /\ \A i \in Flags : IsCarried(i)' =>
              \/ flag'[i] = flag[i] /\ IsCarried(i)
              \/ flag'[i].carrier = killer /\ flag'[i].freq = freq[killer]
    BY <1>t, <2>1, KillFlags
  <2>4. IsWarzone => ~IsTurf
    BY DEF IsWarzone, IsTurf
  <2>5. \A i \in Flags : IsCarried(i) => flag[i].carrier # NoPlayer
    BY GameAssumption DEF FlagInv, CarriersAct, Acted, Players
  <2>6. ASSUME NEW i \in Flags, IsCarried(i)'
        PROVE  \/ flag'[i] = flag[i] /\ IsCarried(i) /\ flag[i].carrier # NoPlayer
               \/ ~IsTurf /\ flag'[i].carrier \in Acted' /\ flag'[i].freq = freq'[flag'[i].carrier]
    <3>1. CASE flag'[i] = flag[i]
      BY <2>5, <2>6, <3>1 DEF IsCarried
    <3>2. CASE flag'[i] # flag[i]
      <4>1. IsWarzone /\ flag'[i].carrier = killer /\ flag'[i].freq = freq[killer]
        BY <2>3, <2>6, <3>2
      <4> QED
        BY <2>1, <2>2, <2>4, <4>1
    <3> QED
      BY <3>1, <3>2
  <2>7. \A q \in Acted : q \in Late => q \in Late'
    BY <2>1, <2>2, LateStays
  <2>8. \A q \in Acted : q # NoPlayer =>
              q \in Acted' /\ (freq'[q] = freq[q] \/ q \in Late') /\ (q \in Late => q \in Late')
    BY <2>1, <2>2, <2>7
  <2> QED
    BY <2>1, <2>3, <2>6, <2>8, CarriersFit
<1> QED
  BY <1>1, <1>2, <1>3, <1>4, <1>5, <1>6, <1>7, <1>8, <1>9, <1>10, GamesMove DEF Stirs

LEMMA FlagBegin == Init => FlagInv
<1> SUFFICES ASSUME Init PROVE FlagInv
  OBVIOUS
<1>1. /\ flag = [i \in Flags |-> IF IsTurf THEN OnMap(NoFreq) ELSE None(NoFreq)]
      /\ carried = [p \in Players |-> 0]
  BY DEF Init
<1>2. \A i \in Flags : ~IsCarried(i)
  BY <1>1 DEF IsCarried, OnMap, None
<1>3. FlagTypes
  BY <1>1 DEF FlagTypes
<1>4. \A p : FlagsOf(p) = {}
  BY <1>2 DEF FlagsOf, IsCarried
<1>5. CarriedCounted
  BY <1>1, <1>4, FS_EmptySet DEF CarriedCounted
<1> QED
  BY <1>2, <1>3, <1>5 DEF FlagInv, CarriersAct, TurfStays

\* A change that flagcore is yet to hear of is one that is queued, or soon will be.
LEMMA LateChanges ==
    ASSUME StepsInv, NEW p \in Late
    PROVE  Changing(p)
<1>1. CASE \E j \in 1 .. Len(queue) : queue[j].p = p
  <2>1. PICK Y : queue \in Seq(Y)
    BY DEF StepsInv, QueueFits, IsSeq
  <2>2. DOMAIN queue = 1 .. Len(queue)
    BY <2>1
  <2> QED
    BY <1>1, <2>2 DEF Changing
<1>2. CASE \E t \in Threads : Behind(t, p)
  <2>1. PICK t \in Threads : Behind(t, p)
    BY <1>2
  <2>2. PICK Y : doing[t] \in Seq(Y)
    BY DEF StepsInv, WorkFits, Works, IsSeq
  <2>3. 1 \in DOMAIN doing[t] /\ doing[t][1] = Head(doing[t])
    BY <2>1, <2>2 DEF Behind
  <2> QED
    BY <2>1, <2>3 DEF Changing, Behind
<1> QED
  BY <1>1, <1>2 DEF Late

\* What check_consistency of flagcore.c checked, for any number of flags and players, one handler
\* at a time: what a player is said to carry is what he carries, and who carries a flag is in the
\* arena, on the frequency that owns it or with a change of his on the way.
THEOREM FlagsStayRight ==
    ASSUME ~Interleaved, SettledCarry
    PROVE  Spec => []FlagsAgree
<1>1. ListsInv /\ FlagInv /\ [Next]_vars => FlagInv'
  BY FlagNext DEF ListsInv
<1>2. ASSUME StepsInv, FlagInv PROVE FlagsAgree
  <2>1. FlagsCounted
    BY <1>2 DEF FlagsCounted, FlagInv, CarriedCounted, InArena
  <2>2. ASSUME NEW i \in Flags, NEW p, p = flag[i].carrier, flag[i].state = "carried"
        PROVE  /\ p \in Playing \/ status[p] = "leaving"
               /\ freq[p] = flag[i].freq \/ Changing(p)
    <3>1. p \in Acted /\ (freq[p] = flag[i].freq \/ p \in Late)
      BY <1>2, <2>2 DEF FlagInv, CarriersAct, IsCarried
    <3>2. p \in Playing \/ status[p] = "leaving"
      BY <3>1 DEF Acted, Playing
    <3> QED
      BY <1>2, <3>1, <3>2, LateChanges
  <2>3. CarriersPlay
    BY <2>2 DEF CarriersPlay
  <2> QED
    BY <2>1, <2>3 DEF FlagsAgree
<1>3. ListsInv => StepsInv
  BY DEF ListsInv
<1> QED
  BY <1>1, <1>2, <1>3, FlagBegin, ListsInvariant, PTL DEF Spec

----------------------------------------------------------------------------
(* Crowns.                                                                 *)

KothInv == crown \subseteq hadCrown /\ hadCrown \subseteq Acted

LEMMA IdlePlaying ==
    ASSUME ~Interleaved, StepsInv, NEW t \in Threads, MayRun(t)
    PROVE  Playing \subseteq Acted
<1>1. Idle
  BY MayRunIdle
<1> QED
  BY <1>1, IdleArrivals DEF Playing, Acted

\* p comes or goes, without a crown.
LEMMA CrownsGo ==
    ASSUME KothInv, NEW p, crown' = crown \ {p}, hadCrown' = hadCrown \ {p}, Acted \ {p} \subseteq Acted'
    PROVE  KothInv'
BY DEF KothInv

LEMMA KothNext ==
    ASSUME ~Interleaved, StepsInv, KothInv, [Next]_vars
    PROVE  KothInv'
<1>t. "main" \in Threads /\ "net" \in Threads /\ Humans \subseteq Players /\ Fakes \subseteq Players
  BY DEF Threads, Players
<1>1. ASSUME UNCHANGED <<crown, hadCrown>>, Acted \subseteq Acted' PROVE KothInv'
  BY <1>1 DEF KothInv
<1>2. CASE Still
  <2>1. CASE UNCHANGED <<crown, hadCrown>>
    BY <1>1, <1>2, <2>1 DEF Still
  <2>2. CASE PlayKoth
    <3>1. Acted' = Acted
      BY <1>2 DEF Still
    <3>2. ASSUME NEW t \in Threads, MayRun(t), StartKoth PROVE KothInv'
      <4>1. Contestants \subseteq Acted
        BY <3>2, IdlePlaying DEF Contestants
      <4> QED
        BY <3>1, <3>2, <4>1 DEF StartKoth, KothInv
    <3>3. CASE CheckKoth
      <4>1. MayRun("main") /\ (StartKoth \/ (hadCrown' = (hadCrown \ Contestants) \cup (crown \cap Contestants) /\ crown' = crown))
        BY <3>3 DEF CheckKoth
      <4> QED
        BY <1>t, <3>1, <3>2, <4>1 DEF KothInv
    <3>4. CASE ResetKoth
      BY <1>t, <3>2, <3>4 DEF ResetKoth
    <3>5. ASSUME NEW p \in Humans, PKothExpired(p) PROVE KothInv'
      BY <3>1, <3>5 DEF PKothExpired, KothInv
    <3> QED
      BY <2>2, <3>3, <3>4, <3>5 DEF PlayKoth
  <2> QED
    BY <1>2, <2>1, <2>2 DEF Still
<1>3. CASE EnterCallbacks
  <2>p. PICK p : p = Head(doing["main"]).p
    OBVIOUS
  <2>1. /\ status' = [status EXCEPT ![p] = IF @ = "arriving" THEN "playing" ELSE @]
        /\ crown' = crown \ {p} /\ hadCrown' = hadCrown \ {p}
    BY <1>3, <2>p DEF EnterCallbacks, KothEnterLeave
  <2>2. Acted \ {p} \subseteq Acted'
    BY <2>1 DEF Acted, StepsInv, TypesFit
  <2> QED
    BY <2>1, <2>2, CrownsGo
<1>4. ASSUME NEW p \in Humans, LeaveCallbacks(p) PROVE KothInv'
  <2>1. /\ status' = [status EXCEPT ![p] = "left"]
        /\ crown' = crown \ {p} /\ hadCrown' = hadCrown \ {p}
    BY <1>4 DEF LeaveCallbacks, KothEnterLeave
  <2>2. Acted \ {p} \subseteq Acted'
    BY <2>1 DEF Acted, StepsInv, TypesFit
  <2> QED
    BY <2>1, <2>2, CrownsGo
<1>5. CASE EndFakeInMain
  <2>p. PICK p : p = Head(queue).p
    OBVIOUS
  <2>1. /\ status' = [status EXCEPT ![p] = "away"]
        /\ crown' = crown \ {p} /\ hadCrown' = hadCrown \ {p}
    BY <1>5, <2>p DEF EndFakeInMain, KothNew
  <2>2. Acted \ {p} \subseteq Acted'
    BY <2>1 DEF Acted, StepsInv, TypesFit
  <2> QED
    BY <2>1, <2>2, CrownsGo
<1>6. CASE RunChange \/ ConfChanged
  <2>1. UNCHANGED <<crown, hadCrown, status>>
    BY <1>6 DEF RunChange, KothChange, ConfChanged, kothvars
  <2> QED
    BY <1>1, <2>1 DEF Acted
<1>7. ASSUME NEW p \in Humans, NEW killer \in Players, NEW fired \in BOOLEAN, PDie(p, killer, fired)
      PROVE  KothInv'
  <2>1. /\ MayRun("net") /\ killer \in Playing /\ status' = status
        /\ KothKill(killer, p) \/ UNCHANGED <<crown, hadCrown>>
    BY <1>7 DEF PDie, kothvars
  <2>2. Acted' = Acted /\ killer \in Acted
    BY <1>t, <2>1, IdlePlaying DEF Acted
  <2>3. CASE KothKill(killer, p)
    <3>1. PICK left, crowned : /\ left \subseteq crown /\ crowned \subseteq {killer}
                               /\ crown' = left \cup crowned /\ hadCrown' = hadCrown \cup crowned
      <4> DEFINE left == IF p \in crown /\ crownDeaths[p] + 1 > conf.deathCount THEN crown \ {p} ELSE crown
                 counts == killer \notin left /\ p \in left /\ conf.recoverKills > 0
                 kills == crownKills[killer] + 1
                 recovers == counts /\ kills >= conf.recoverKills
                 crowned == IF killer \in left \/ recovers THEN {killer} ELSE {}
      <4>1. crown' = left \cup crowned /\ hadCrown' = hadCrown \cup crowned
        BY <2>3 DEF KothKill
      <4>2. left \subseteq crown /\ crowned \subseteq {killer}
        OBVIOUS
      <4> HIDE DEF left, crowned
      <4> QED
        BY <4>1, <4>2
    <3> QED
      BY <2>2, <3>1 DEF KothInv
  <2> QED
    BY <1>1, <2>1, <2>2, <2>3
<1>8. CASE /\ \/ \E t \in Threads : SetNew(t) \/ CallBack(t) \/ Watch(t) \/ TouchFlag(t)
              \/ \E p \in Fakes : CreateFakePlayer(p)
              \/ SpawnTimer \/ CheckWin \/ FlagResetCommand \/ \E p \in Humans : PFlagTimer(p)
           /\ UNCHANGED <<ballvars, kothvars>>
  <2>1. UNCHANGED <<crown, hadCrown>>
    BY <1>8 DEF kothvars
  <2>2. ASSUME status' = status PROVE KothInv'
    BY <1>1, <2>1, <2>2 DEF Acted
  <2>3. ASSUME NEW p \in Fakes, CreateFakePlayer(p) PROVE KothInv'
    <3>1. status' = [status EXCEPT ![p] = "playing"] /\ p \in Players
      BY <1>t, <2>3 DEF CreateFakePlayer
    <3>2. Acted \subseteq Acted'
      BY <3>1 DEF Acted, StepsInv, TypesFit
    <3> QED
      BY <1>1, <2>1, <3>2
  <2> QED
    BY <1>8, <2>2, <2>3 DEF SetNew, CallBack, Watch, TouchFlag, SpawnTimer, CheckWin, FlagResetCommand, PFlagTimer
<1> QED
  BY <1>2, <1>3, <1>4, <1>5, <1>6, <1>7, <1>8, GamesMove DEF Stirs

----------------------------------------------------------------------------
(* Balls.                                                                  *)

IsBall(x) == x = [state |-> x.state, carrier |-> x.carrier, freq |-> x.freq, prev |-> x.prev,
                  killer |-> x.killer]
AreBalls(bs) == bs = [b \in Balls |-> bs[b]] /\ \A b \in Balls : IsBall(bs[b])

Here(q) == q # NoPlayer => q \in Acted \cap Humans

BallTypes == AreBalls(ball) /\ ballCount \in Int
BallsFit == \A b \in InPlay :
               /\ Here(ball[b].carrier) /\ Here(ball[b].killer)
               /\ ball[b].state = "carried" =>
                     /\ ball[b].carrier # NoPlayer
                     /\ InShip(ball[b].carrier) \/ ball[b].carrier \in Late
OneBall == \A b \in InPlay : \A c \in InPlay :
              b # c /\ ball[b].state = "carried" /\ ball[c].state = "carried" =>
                 ball[b].carrier # ball[c].carrier

BallInv == BallTypes /\ BallsFit /\ OneBall

\* What may become of the ball x, k being the last to have killed who carried it.
Loosened(y, x, k) ==
    /\ \/ y.state = x.state /\ y.carrier = x.carrier
       \/ y.state # "carried" /\ y.carrier \in {NoPlayer, x.carrier}
    /\ y.killer \in {NoPlayer, x.killer, k}

\* Nobody gets a ball.
LEMMA BallsLoosen ==
    ASSUME BallInv, AreBalls(ball)', ballCount' = ballCount, NEW k, Here(k)', NEW p,
           \A b \in InPlay : /\ Loosened(ball'[b], ball[b], k)
                             /\ p # NoPlayer => ball'[b].carrier # p /\ ball'[b].killer # p,
           \A q \in Acted : q # p => /\ q \in Acted' /\ (InShip(q) => InShip(q)' \/ q \in Late')
                                     /\ q \in Late => q \in Late'
    PROVE  BallInv'
<1>1. BallTypes'
  BY DEF BallInv, BallTypes
<1>2. InPlay' = InPlay /\ InPlay \subseteq Balls
  BY DEF InPlay
<1>3. \A q : q # p /\ Here(q) => Here(q)'
  BY DEF Here
<1>4. ASSUME NEW b \in InPlay, NEW e, e = ball'[b].carrier, NEW f, f = ball'[b].killer
      PROVE  /\ Here(e)' /\ Here(f)'
             /\ ball'[b].state = "carried" =>
                   /\ e # NoPlayer /\ e = ball[b].carrier /\ ball[b].state = "carried"
                   /\ InShip(e)' \/ e \in Late'
  <2>0. PICK c, d : c = ball[b].carrier /\ d = ball[b].killer
    OBVIOUS
  <2>1. /\ Here(c) /\ Here(d)
        /\ ball[b].state = "carried" => c # NoPlayer /\ (InShip(c) \/ c \in Late)
    BY <2>0 DEF BallInv, BallsFit
  <2>2. /\ \/ ball'[b].state = ball[b].state /\ e = c
           \/ ball'[b].state # "carried" /\ e \in {NoPlayer, c}
        /\ f \in {NoPlayer, d, k}
        /\ p # NoPlayer => e # p /\ f # p
    BY <1>4, <2>0 DEF Loosened
  <2>3. Here(e)'
    BY <1>3, <2>1, <2>2 DEF Here
  <2>4. Here(f)'
    BY <1>3, <2>1, <2>2 DEF Here
  <2>5. ASSUME ball'[b].state = "carried"
        PROVE  e # NoPlayer /\ e = c /\ ball[b].state = "carried" /\ (InShip(e)' \/ e \in Late')
    <3>1. e = c /\ ball[b].state = "carried" /\ e # NoPlayer /\ (InShip(e) \/ e \in Late) /\ e # p
      BY <2>1, <2>2, <2>5
    <3>2. e \in Acted
      BY <2>1, <3>1 DEF Here
    <3> QED
      BY <3>1, <3>2
  <2> QED
    BY <2>0, <2>3, <2>4, <2>5
<1>5. BallsFit'
  <2>1. (\A b \in InPlay :
            /\ Here(ball[b].carrier) /\ Here(ball[b].killer)
            /\ ball[b].state = "carried" =>
                  /\ ball[b].carrier # NoPlayer
                  /\ InShip(ball[b].carrier) \/ ball[b].carrier \in Late)'
    BY <1>2, <1>4 DEF Here, InShip
  <2> QED
    BY <2>1 DEF BallsFit
<1>6. OneBall'
  BY <1>2, <1>4 DEF OneBall, BallInv
<1> QED
  BY <1>1, <1>5, <1>6 DEF BallInv

\* Balls are left alone.
LEMMA BallsStay ==
    ASSUME BallInv, UNCHANGED <<ball, ballCount>>, NEW p,
           p # NoPlayer => p \notin Acted \/ p \notin Humans,
           \A q \in Acted : q # p => /\ q \in Acted' /\ (InShip(q) => InShip(q)' \/ q \in Late')
                                     /\ q \in Late => q \in Late'
    PROVE  BallInv'
<1>1. AreBalls(ball)'
  BY DEF BallInv, BallTypes, AreBalls
<1>2. PICK k : k = NoPlayer
  OBVIOUS
<1>3. Here(k)'
  BY <1>2 DEF Here
<1>4. ASSUME NEW b \in InPlay
      PROVE  /\ Loosened(ball'[b], ball[b], k)
             /\ p # NoPlayer => ball'[b].carrier # p /\ ball'[b].killer # p
  BY DEF Loosened, BallInv, BallsFit, Here
<1> QED
  BY <1>1, <1>3, <1>4, BallsLoosen

LEMMA PhasedBall ==
    ASSUME NEW x, IsBall(x)
    PROVE  IsBall(Phased(x)) /\ Phased(x).carrier = NoPlayer /\ Phased(x).killer = x.killer
<1>1. PICK y : y = [x EXCEPT !.state = "onmap"]
  OBVIOUS
<1>2. IsBall(y) /\ y.killer = x.killer
  BY <1>1 DEF IsBall
<1>3. Phased(x) = [y EXCEPT !.carrier = NoPlayer]
  BY <1>1, <1>2 DEF Phased
<1> QED
  BY <1>2, <1>3 DEF IsBall

\* A goal.
LEMMA GoalLoosens ==
    ASSUME NEW bs, AreBalls(bs), NEW b \in InPlay, NEW g, HandleGoal(bs, b, g)
    PROVE  AreBalls(ball)' /\ \A c \in InPlay : Loosened(ball'[c], bs[c], NoPlayer)
<1>0. InPlay \subseteq Balls
  BY DEF InPlay
<1>1. PICK after : after = [bs EXCEPT ![b] = Scored(@)]
  OBVIOUS
<1>2. PICK balls : /\ balls \in {after, Ended(after)}
                   /\ ball' = [balls EXCEPT ![b].freq = NoOwner]
  BY <1>1 DEF HandleGoal
<1>3. \A x : IsBall(x) => IsBall(Scored(x)) /\ Loosened(Scored(x), x, NoPlayer)
  BY DEF IsBall, Scored, Spawned, Placed, Phased, Loosened
<1>4. AreBalls(after) /\ \A c \in InPlay : Loosened(after[c], bs[c], NoPlayer)
  <2>1. after = [c \in Balls |-> IF c = b THEN Scored(bs[b]) ELSE bs[c]]
    BY <1>0, <1>1 DEF AreBalls
  <2>2. \A c \in Balls : IsBall(bs[c])
    BY DEF AreBalls
  <2>3. \A c \in Balls : IsBall(after[c]) /\ Loosened(after[c], bs[c], NoPlayer)
    <3>1. ASSUME NEW c \in Balls PROVE IsBall(after[c]) /\ Loosened(after[c], bs[c], NoPlayer)
      <4>1. CASE c = b
        BY <1>0, <1>3, <2>1, <2>2, <4>1
      <4>2. CASE c # b
        BY <2>1, <2>2, <4>2 DEF Loosened
      <4> QED
        BY <4>1, <4>2
    <3> QED
      BY <3>1
  <2> QED
    BY <1>0, <2>1, <2>3 DEF AreBalls
<1>5. AreBalls(balls) /\ \A c \in InPlay : Loosened(balls[c], bs[c], NoPlayer)
  <2>1. CASE balls = after
    BY <1>4, <2>1
  <2>2. CASE balls = Ended(after)
    <3>1. balls = [c \in Balls |-> IF c \in InPlay THEN [Phased(after[c]) EXCEPT !.state = "waiting"] ELSE after[c]]
      BY <2>2 DEF Ended
    <3>2. \A x : IsBall(x) => /\ IsBall([Phased(x) EXCEPT !.state = "waiting"])
                              /\ [Phased(x) EXCEPT !.state = "waiting"].state = "waiting"
                              /\ [Phased(x) EXCEPT !.state = "waiting"].carrier = NoPlayer
                              /\ [Phased(x) EXCEPT !.state = "waiting"].killer = x.killer
      <4>1. \A x : IsBall(x) => /\ IsBall([x EXCEPT !.state = "waiting"])
                                /\ [x EXCEPT !.state = "waiting"].state = "waiting"
                                /\ [x EXCEPT !.state = "waiting"].carrier = x.carrier
                                /\ [x EXCEPT !.state = "waiting"].killer = x.killer
        BY DEF IsBall
      <4> QED
        BY <4>1, PhasedBall
    <3>3. \A c \in Balls : IsBall(after[c])
      BY <1>4 DEF AreBalls
    <3>4. \A c \in Balls : IsBall(balls[c])
      BY <3>1, <3>2, <3>3
    <3>5. AreBalls(balls)
      BY <3>1, <3>4 DEF AreBalls
    <3>6. \A c \in InPlay : balls[c].state = "waiting" /\ balls[c].carrier = NoPlayer /\ balls[c].killer = after[c].killer
      BY <1>0, <3>1, <3>2, <3>3
    <3>7. \A c \in InPlay : Loosened(balls[c], bs[c], NoPlayer)
      BY <1>4, <3>6 DEF Loosened
    <3> QED
      BY <3>5, <3>7
  <2> QED
    BY <1>2, <2>1, <2>2
<1>6. ball' = [c \in Balls |-> IF c = b THEN [balls[b] EXCEPT !.freq = NoOwner] ELSE balls[c]]
  BY <1>0, <1>2, <1>5 DEF AreBalls
<1>7. \A x : IsBall(x) => /\ IsBall([x EXCEPT !.freq = NoOwner]) /\ [x EXCEPT !.freq = NoOwner].state = x.state
                          /\ [x EXCEPT !.freq = NoOwner].carrier = x.carrier
                          /\ [x EXCEPT !.freq = NoOwner].killer = x.killer
  BY DEF IsBall
<1>8. \A c \in Balls : /\ IsBall(ball'[c]) /\ ball'[c].state = balls[c].state /\ ball'[c].carrier = balls[c].carrier
                       /\ ball'[c].killer = balls[c].killer
  <2>1. \A c \in Balls : IsBall(balls[c])
    BY <1>5 DEF AreBalls
  <2> QED
    BY <1>6, <1>7, <2>1
<1>9. (\A c \in Balls : IsBall(ball[c]))' /\ ball' = [c \in Balls |-> ball'[c]]
  BY <1>6, <1>8 DEF IsBall, Balls
<1>10. AreBalls(ball)'
  BY <1>9 DEF AreBalls, Balls
<1>11. \A c \in InPlay : Loosened(ball'[c], bs[c], NoPlayer)
  BY <1>0, <1>5, <1>8 DEF Loosened
<1> QED
  BY <1>10, <1>11

\* p loses the ball he has, and with it who has killed him may be named.
LEMMA BallsDrop ==
    ASSUME BallInv, NEW p, p # NoPlayer, NEW killer, NEW neut, NEW leaving,
           CleanupAfter(p, killer, neut, leaving), NEW k,
           k = IF conf.killerIgnoresDelay THEN killer ELSE NoPlayer
    PROVE  /\ AreBalls(ball)' /\ ballCount' = ballCount
           /\ \A b \in InPlay : /\ Loosened(ball'[b], ball[b], k)
                                /\ neut /\ k = NoPlayer => ball'[b].carrier # p /\ ball'[b].killer # p
<1>0. InPlay \subseteq Balls
  BY DEF InPlay
<1>1. PICK bs, garbage : /\ bs = DroppedBy(p, killer, neut, leaving, garbage)
                         /\ \/ ball' = bs
                            \/ \E b \in InPlay : MayScore(bs, b)
                         /\ ballCount' = ballCount
  <2>1. PICK garbage :
            LET bs == DroppedBy(p, killer, neut, leaving, garbage)
                fired == {b \in InPlay : ball[b].state = "carried" /\ ball[b].carrier = p}
            IN  /\ IF fired = {} THEN ball' = bs /\ UNCHANGED score
                   ELSE MayScore(bs, CHOOSE b \in fired : TRUE)
                /\ UNCHANGED <<ballCount, overridden>>
    BY DEF CleanupAfter
  <2>2. PICK bs : bs = DroppedBy(p, killer, neut, leaving, garbage)
    OBVIOUS
  <2>3. PICK fired : fired = {b \in InPlay : ball[b].state = "carried" /\ ball[b].carrier = p}
    OBVIOUS
  <2>4. /\ IF fired = {} THEN ball' = bs ELSE MayScore(bs, CHOOSE b \in fired : TRUE)
        /\ ballCount' = ballCount
    BY <2>1, <2>2, <2>3
  <2>5. fired # {} => (CHOOSE b \in fired : TRUE) \in InPlay
    BY <2>3
  <2> QED
    BY <2>2, <2>4, <2>5
<1>2. ASSUME NEW b \in Balls
      PROVE  /\ IsBall(bs[b])
             /\ b \in InPlay => /\ Loosened(bs[b], ball[b], k)
                                /\ neut /\ k = NoPlayer => bs[b].carrier # p /\ bs[b].killer # p
  <2>1. PICK x : x = ball[b]
    OBVIOUS
  <2>2. IsBall(x)
    BY <2>1 DEF BallInv, BallTypes, AreBalls
  <2>3. bs[b] = IF b \notin InPlay THEN x
            ELSE IF x.state = "carried" /\ x.carrier = p
              THEN [state |-> "onmap", carrier |-> IF neut \/ leaving THEN NoPlayer ELSE p,
                    freq |-> garbage, prev |-> p,
                    killer |-> IF conf.killerIgnoresDelay THEN killer ELSE NoPlayer]
              ELSE [x EXCEPT !.killer = IF x.killer = p THEN NoPlayer ELSE x.killer,
                             !.prev = IF leaving /\ @ = p THEN NoPlayer ELSE @,
                             !.carrier = IF neut /\ @ = p THEN NoPlayer ELSE @]
    BY <1>1, <2>1 DEF DroppedBy
  <2>4. CASE b \notin InPlay
    BY <2>2, <2>3, <2>4
  <2>5. CASE b \in InPlay /\ x.state = "carried" /\ x.carrier = p
    <3>1. PICK c, m : /\ c = IF neut \/ leaving THEN NoPlayer ELSE p
                      /\ m = IF conf.killerIgnoresDelay THEN killer ELSE NoPlayer
      OBVIOUS
    <3>2. bs[b] = [state |-> "onmap", carrier |-> c, freq |-> garbage, prev |-> p, killer |-> m]
      BY <2>3, <2>5, <3>1
    <3>3. c \in {NoPlayer, p} /\ (neut => c = NoPlayer) /\ m \in {NoPlayer, k} /\ (k = NoPlayer => m = NoPlayer)
      BY <3>1
    <3> QED
      BY <2>1, <2>5, <3>2, <3>3 DEF IsBall, Loosened
  <2>6. CASE b \in InPlay /\ ~(x.state = "carried" /\ x.carrier = p)
    <3>1. PICK m, r, c : /\ m = IF x.killer = p THEN NoPlayer ELSE x.killer
                         /\ r = IF leaving /\ x.prev = p THEN NoPlayer ELSE x.prev
                         /\ c = IF neut /\ x.carrier = p THEN NoPlayer ELSE x.carrier
      OBVIOUS
    <3>2. bs[b] = [state |-> x.state, carrier |-> c, freq |-> x.freq, prev |-> r, killer |-> m]
      BY <2>2, <2>3, <2>6, <3>1 DEF IsBall
    <3>3. /\ m \in {NoPlayer, x.killer} /\ m # p
          /\ c = x.carrier \/ (c = NoPlayer /\ x.state # "carried")
          /\ neut => c # p
      BY <2>6, <3>1
    <3> QED
      BY <2>1, <2>6, <3>2, <3>3 DEF IsBall, Loosened
  <2> QED
    BY <2>4, <2>5, <2>6
<1>3. AreBalls(bs)
  BY <1>1, <1>2 DEF AreBalls, DroppedBy
<1>4. CASE ball' = bs
  <2>1. AreBalls(ball)'
    BY <1>3, <1>4 DEF AreBalls, IsBall, Balls
  <2> QED
    BY <1>0, <1>1, <1>2, <1>4, <2>1
<1>5. ASSUME NEW b \in InPlay, NEW g, HandleGoal(bs, b, g)
      PROVE  /\ AreBalls(ball)'
             /\ \A c \in InPlay : /\ Loosened(ball'[c], ball[c], k)
                                  /\ neut /\ k = NoPlayer => ball'[c].carrier # p /\ ball'[c].killer # p
  <2>1. AreBalls(ball)' /\ \A c \in InPlay : Loosened(ball'[c], bs[c], NoPlayer)
    BY <1>3, <1>5, GoalLoosens
  <2>2. ASSUME NEW c \in InPlay
        PROVE  /\ Loosened(ball'[c], ball[c], k)
               /\ neut /\ k = NoPlayer => ball'[c].carrier # p /\ ball'[c].killer # p
    BY <1>0, <1>2, <2>1 DEF Loosened
  <2> QED
    BY <2>1, <2>2
<1> QED
  BY <1>1, <1>4, <1>5 DEF MayScore

\* The number of balls.
LEMMA BallsCounted ==
    ASSUME BallInv, NEW n \in Int, ChangeBallCount(n),
           \A q \in Acted : q \in Acted' /\ (InShip(q) => InShip(q)') /\ (q \in Late => q \in Late')
    PROVE  BallInv'
<1>1. /\ ballCount' = n
      /\ ball' = [b \in Balls |-> IF b \in n .. ballCount - 1 THEN Phased(ball[b])
                                 ELSE IF b \in ballCount .. n - 1 THEN Spawned(ball[b]) ELSE ball[b]]
  BY DEF ChangeBallCount
<1>2. \A x : IsBall(x) => IsBall(Phased(x)) /\ IsBall(Spawned(x))
  BY PhasedBall DEF IsBall, Spawned, Placed
<1>3. \A b \in Balls : IsBall(ball[b])
  BY DEF BallInv, BallTypes, AreBalls
<1>4. \A b \in Balls : IsBall(ball'[b])
  BY <1>1, <1>2, <1>3
<1>5. BallTypes'
  <2>1. (\A b \in Balls : IsBall(ball[b]))' /\ ball' = [b \in Balls |-> ball'[b]]
    BY <1>1, <1>4 DEF IsBall, Balls
  <2> QED
    BY <1>1, <2>1 DEF BallTypes, AreBalls, Balls
<1>6. InPlay' \subseteq Balls /\ InPlay \subseteq Balls
  BY DEF InPlay, Balls
<1>7. ASSUME NEW b \in InPlay'
      PROVE  \/ b \in InPlay /\ ball'[b] = ball[b]
             \/ ball'[b].state = "onmap" /\ ball'[b].carrier = NoPlayer /\ ball'[b].killer = NoPlayer
  <2>1. b \in Int /\ b \in Balls /\ b < n /\ ballCount \in Int
    BY <1>1, BallsAssumption DEF InPlay, Balls, BallInv, BallTypes
  <2>2. CASE b < ballCount
    <3>1. b \in InPlay /\ b \notin n .. ballCount - 1 /\ b \notin ballCount .. n - 1
      BY <2>1, <2>2 DEF InPlay
    <3> QED
      BY <1>1, <2>1, <3>1
  <2>3. CASE ~(b < ballCount)
    <3>1. b \notin n .. ballCount - 1 /\ b \in ballCount .. n - 1
      BY <2>1, <2>3
    <3>2. ball'[b] = Spawned(ball[b])
      BY <1>1, <2>1, <3>1
    <3> QED
      BY <3>2 DEF Spawned, Placed
  <2> QED
    BY <2>2, <2>3
<1>8. ASSUME NEW b \in InPlay, NEW e, e = ball[b].carrier, NEW f, f = ball[b].killer
      PROVE  /\ Here(e)' /\ Here(f)'
             /\ ball[b].state = "carried" => e # NoPlayer /\ (InShip(e)' \/ e \in Late')
  BY <1>8 DEF BallInv, BallsFit, Here
<1>9. BallsFit'
  <2>1. ASSUME NEW b \in InPlay', NEW e, e = ball'[b].carrier, NEW f, f = ball'[b].killer
        PROVE  /\ Here(e)' /\ Here(f)'
               /\ ball'[b].state = "carried" => e # NoPlayer /\ (InShip(e)' \/ e \in Late')
    <3>1. CASE b \in InPlay /\ ball'[b] = ball[b]
      BY <1>8, <2>1, <3>1
    <3>2. CASE ball'[b].state = "onmap" /\ e = NoPlayer /\ f = NoPlayer
      BY <3>2 DEF Here
    <3> QED
      BY <1>7, <2>1, <3>1, <3>2
  <2>2. (\A b \in InPlay :
            /\ Here(ball[b].carrier) /\ Here(ball[b].killer)
            /\ ball[b].state = "carried" =>
                  /\ ball[b].carrier # NoPlayer
                  /\ InShip(ball[b].carrier) \/ ball[b].carrier \in Late)'
    BY <2>1 DEF Here, InShip
  <2> QED
    BY <2>2 DEF BallsFit
<1>10. OneBall'
  <2>1. \A b \in InPlay' : ball'[b].state = "carried" => b \in InPlay /\ ball'[b] = ball[b]
    BY <1>7
  <2> QED
    BY <2>1 DEF OneBall, BallInv
<1> QED
  BY <1>5, <1>9, <1>10 DEF BallInv

\* Who is given a ball plays, or is about to.
LEMMA BallTaken ==
    ASSUME BallInv, NEW bs, AreBalls(bs), \A b \in InPlay : Loosened(bs[b], ball[b], NoPlayer),
           NEW p \in Acted \cap Humans, InShip(p) \/ p \in Late, NEW b \in InPlay, NEW x, IsBall(x), x.state = "carried",
           x.carrier = p, x.killer = NoPlayer,
           \A c \in InPlay \ {b} : ~(bs[c].state = "carried" /\ bs[c].carrier = p),
           ball' = [bs EXCEPT ![b] = x], ballCount' = ballCount,
           UNCHANGED <<status, ship>>, \A q \in Acted : q \in Late => q \in Late'
    PROVE  BallInv'
<1>0. /\ InPlay \subseteq Balls /\ InPlay' = InPlay /\ Acted' = Acted /\ p # NoPlayer
      /\ \A q : Here(q)' <=> Here(q)
  BY GameAssumption DEF InPlay, Acted, Here
<1>1. ball' = [c \in Balls |-> IF c = b THEN x ELSE bs[c]]
  BY <1>0 DEF AreBalls
<1>2. \A c \in Balls : IsBall(ball'[c])
  BY <1>1 DEF AreBalls
<1>3. BallTypes'
  <2>1. (\A c \in Balls : IsBall(ball[c]))' /\ ball' = [c \in Balls |-> ball'[c]]
    BY <1>1, <1>2 DEF IsBall, Balls
  <2> QED
    BY <2>1 DEF BallTypes, AreBalls, Balls, BallInv
<1>4. ASSUME NEW c \in InPlay, NEW e, e = ball'[c].carrier, NEW f, f = ball'[c].killer
      PROVE  /\ Here(e) /\ Here(f)
             /\ ball'[c].state = "carried" =>
                   /\ e # NoPlayer /\ (InShip(e) \/ e \in Late)
                   /\ c # b => e # p /\ ball[c].state = "carried" /\ e = ball[c].carrier
  <2>1. CASE c = b
    BY <1>0, <1>1, <1>4, <2>1 DEF Here
  <2>2. CASE c # b
    <3>1. ball'[c] = bs[c] /\ Loosened(bs[c], ball[c], NoPlayer)
      BY <1>0, <1>1, <2>2
    <3>2. /\ Here(ball[c].carrier) /\ Here(ball[c].killer)
          /\ ball[c].state = "carried" => /\ ball[c].carrier # NoPlayer
                                          /\ InShip(ball[c].carrier) \/ ball[c].carrier \in Late
      BY DEF BallInv, BallsFit
    <3>3. Here(e) /\ Here(f)
      BY <1>4, <3>1, <3>2 DEF Loosened, Here
    <3> QED
      BY <1>4, <2>2, <3>1, <3>2, <3>3 DEF Loosened
  <2> QED
    BY <2>1, <2>2
<1>5. BallsFit'
  <2>1. (\A c \in InPlay :
            /\ Here(ball[c].carrier) /\ Here(ball[c].killer)
            /\ ball[c].state = "carried" =>
                  /\ ball[c].carrier # NoPlayer
                  /\ InShip(ball[c].carrier) \/ ball[c].carrier \in Late)'
    <3>1. ASSUME NEW c \in InPlay, NEW e, e = ball'[c].carrier, NEW f, f = ball'[c].killer
          PROVE  /\ Here(e)' /\ Here(f)'
                 /\ ball'[c].state = "carried" => e # NoPlayer /\ (InShip(e)' \/ e \in Late')
      <4>1. /\ Here(e) /\ Here(f)
            /\ ball'[c].state = "carried" => e # NoPlayer /\ (InShip(e) \/ e \in Late)
        BY <1>4, <3>1
      <4>2. e # NoPlayer => e \in Acted
        BY <4>1 DEF Here
      <4> QED
        BY <1>0, <4>1, <4>2 DEF InShip
    <3> QED
      BY <1>0, <3>1 DEF Here, InShip
  <2> QED
    BY <2>1 DEF BallsFit
<1>6. OneBall'
  <2>1. ASSUME NEW c \in InPlay, NEW d \in InPlay, c # d, ball'[c].state = "carried", ball'[d].state = "carried"
        PROVE  ball'[c].carrier # ball'[d].carrier
    <3>1. CASE c = b
      BY <1>0, <1>1, <1>4, <2>1, <3>1
    <3>2. CASE d = b
      BY <1>0, <1>1, <1>4, <2>1, <3>2
    <3>3. CASE c # b /\ d # b
      BY <1>4, <2>1, <3>3 DEF BallInv, OneBall
    <3> QED
      BY <3>1, <3>2, <3>3
  <2> QED
    BY <1>0, <2>1 DEF OneBall
<1> QED
  BY <1>3, <1>5, <1>6 DEF BallInv

\* Some of the balls are loosened.
LEMMA BallsLoose ==
    ASSUME BallInv, AreBalls(ball)', \A b \in InPlay : Loosened(ball'[b], ball[b], NoPlayer),
           UNCHANGED <<ballCount, status, ship>>, \A q \in Acted : q \in Late => q \in Late'
    PROVE  BallInv'
<1>1. Here(NoPlayer)'
  BY DEF Here
<1>2. \A q \in Acted : q # NoPlayer => /\ q \in Acted' /\ (InShip(q) => InShip(q)' \/ q \in Late')
                                       /\ q \in Late => q \in Late'
  BY DEF Acted, InShip
<1> QED
  BY <1>1, <1>2, BallsLoosen

LEMMA BallsKept ==
    ASSUME BallInv
    PROVE  AreBalls(ball) /\ \A b \in InPlay : Loosened(ball[b], ball[b], NoPlayer)
BY DEF BallInv, BallTypes, Loosened

LEMMA SpawnedBall == \A x : /\ IsBall(Spawned(x)) /\ Spawned(x).state = "onmap"
                            /\ \A y : Loosened(Spawned(x), y, NoPlayer)
BY DEF IsBall, Spawned, Placed, Loosened

\* Who is to be given a ball is still in a ship.
PickupFits == \A t \in Threads : doing[t] # <<>> /\ Head(doing[t]).do = "pickup" => InShip(Head(doing[t]).p)

LEMMA BallsPlay ==
    ASSUME ~Interleaved, StepsInv, PickupFits, BallInv, PlayBalls
    PROVE  BallInv'
<1>t. "main" \in Threads /\ "net" \in Threads
  BY DEF Threads
<1>0. InPlay \subseteq Balls
  BY DEF InPlay
<1>l. ASSUME UNCHANGED queue, doing' = doing \/ \E t \in Threads : MayRun(t) \/ (doing[t] # <<>> /\ Head(doing[t]).do # "call")
      PROVE  \A q \in Acted : q \in Late => q \in Late'
  BY <1>l, NoneCalls, LateStays
<1>o. ASSUME NEW b \in InPlay, ball' = [ball EXCEPT ![b] = Spawned(@)],
             UNCHANGED <<ballCount, status, ship, queue, doing>>
      PROVE  BallInv'
  <2>1. ball' = [c \in Balls |-> IF c = b THEN Spawned(ball[b]) ELSE ball[c]]
    BY <1>0, <1>o DEF BallInv, BallTypes, AreBalls
  <2>2. \A c \in Balls : IsBall(ball'[c])
    BY <2>1, SpawnedBall DEF BallInv, BallTypes, AreBalls
  <2>3. AreBalls(ball)'
    <3>1. (\A c \in Balls : IsBall(ball[c]))' /\ ball' = [c \in Balls |-> ball'[c]]
      BY <2>1, <2>2 DEF IsBall, Balls
    <3> QED
      BY <3>1 DEF AreBalls, Balls
  <2>4. \A c \in InPlay : Loosened(ball'[c], ball[c], NoPlayer)
    BY <1>0, <2>1, SpawnedBall, BallsKept
  <2> QED
    BY <1>l, <1>o, <2>3, <2>4, BallsLoose
<1>1. ASSUME NEW p \in Humans, NEW b \in Balls, PPickupBall(p, b) PROVE BallInv'
  <2>1. UNCHANGED <<ball, ballCount, status, ship, queue>> /\ MayRun("net")
    BY <1>1 DEF PPickupBall, ballvars
  <2>2. AreBalls(ball)' /\ \A c \in InPlay : Loosened(ball'[c], ball[c], NoPlayer)
    BY <2>1, BallsKept DEF AreBalls, IsBall, Balls
  <2> QED
    BY <1>l, <1>t, <2>1, <2>2, BallsLoose
<1>2. ASSUME NEW p \in Humans, NEW b \in Balls, PFireBall(p, b) PROVE BallInv'
  <2>1. /\ b \in InPlay /\ ball[b].state = "carried" /\ ball[b].carrier = p
        /\ UNCHANGED <<ballCount, status, ship, queue, doing>>
    BY <1>2 DEF PFireBall
  <2>2. PICK x : x = [ball[b] EXCEPT !.state = "onmap", !.freq = freq[p], !.prev = p, !.killer = NoPlayer]
    OBVIOUS
  <2>3. PICK bs : bs = [ball EXCEPT ![b] = x]
    OBVIOUS
  <2>4. MayScore(bs, b)
    BY <1>2, <2>2, <2>3 DEF PFireBall
  <2>5. IsBall(ball[b])
    BY <1>0, <2>1 DEF BallInv, BallTypes, AreBalls
  <2>6. x = [state |-> "onmap", carrier |-> p, freq |-> freq[p], prev |-> p, killer |-> NoPlayer]
    BY <2>1, <2>2, <2>5 DEF IsBall
  <2>7. bs = [c \in Balls |-> IF c = b THEN x ELSE ball[c]]
    BY <1>0, <2>3 DEF BallInv, BallTypes, AreBalls
  <2>8. AreBalls(bs) /\ \A c \in InPlay : Loosened(bs[c], ball[c], NoPlayer)
    <3>1. IsBall(x) /\ Loosened(x, ball[b], NoPlayer)
      BY <2>1, <2>6 DEF IsBall, Loosened
    <3>2. \A c \in Balls : IsBall(bs[c])
      BY <2>7, <3>1 DEF BallInv, BallTypes, AreBalls
    <3>3. \A c \in InPlay : Loosened(bs[c], ball[c], NoPlayer)
      BY <1>0, <2>7, <3>1, BallsKept
    <3> QED
      BY <2>7, <3>2, <3>3 DEF AreBalls
  <2>9. ASSUME NEW g, HandleGoal(bs, b, g) PROVE BallInv'
    <3>1. AreBalls(ball)' /\ \A c \in InPlay : Loosened(ball'[c], bs[c], NoPlayer)
      BY <2>1, <2>8, <2>9, GoalLoosens
    <3>2. \A c \in InPlay : Loosened(ball'[c], ball[c], NoPlayer)
      BY <2>8, <3>1 DEF Loosened
    <3> QED
      BY <1>l, <2>1, <3>1, <3>2, BallsLoose
  <2>10. CASE ball' = bs
    <3>1. AreBalls(ball)'
      BY <2>8, <2>10 DEF AreBalls, IsBall, Balls
    <3>2. \A c \in InPlay : Loosened(ball'[c], ball[c], NoPlayer)
      BY <2>8, <2>10
    <3> QED
      BY <1>l, <2>1, <3>1, <3>2, BallsLoose
  <2> QED
    BY <2>4, <2>9, <2>10 DEF MayScore
<1>3. ASSUME NEW p \in Humans, NEW b \in Balls, PGoal(p, b) PROVE BallInv'
  <2>1. /\ b \in InPlay /\ \E g \in Goals : HandleGoal(ball, b, g)
        /\ UNCHANGED <<ballCount, status, ship, queue, doing>>
    BY <1>3 DEF PGoal
  <2>2. AreBalls(ball)' /\ \A c \in InPlay : Loosened(ball'[c], ball[c], NoPlayer)
    BY <2>1, BallsKept, GoalLoosens
  <2> QED
    BY <1>l, <2>1, <2>2, BallsLoose
<1>4. ASSUME NEW t \in Threads, TakeBall(t) PROVE BallInv'
  <2>p. PICK p, b : p = Head(doing[t]).p /\ b = Head(doing[t]).ball
    OBVIOUS
  <2>1. /\ doing[t] # <<>> /\ Head(doing[t]).do = "pickup"
        /\ UNCHANGED <<ballCount, status, ship, queue>>
        /\ \/ ball' = ball
           \/ /\ b \in InPlay /\ ~HoldsBall(p)
              /\ ball' = [ball EXCEPT ![b] = [state |-> "carried", carrier |-> p, freq |-> freq[p],
                                             prev |-> @.carrier, killer |-> NoPlayer]]
    BY <1>4, <2>p DEF TakeBall, At
  <2>2. p \in Acted \cap Humans /\ InShip(p)
    BY <2>p, <2>1, HeadFits DEF Now, Later, PickupFits
  <2>3. \A q \in Acted : q \in Late => q \in Late'
    BY <1>l, <2>1
  <2>4. CASE ball' = ball
    <3>1. AreBalls(ball)' /\ \A c \in InPlay : Loosened(ball'[c], ball[c], NoPlayer)
      BY <2>4, BallsKept DEF AreBalls, IsBall, Balls
    <3> QED
      BY <2>1, <2>3, <3>1, BallsLoose
  <2>5. CASE b \in InPlay /\ ~HoldsBall(p)
             /\ ball' = [ball EXCEPT ![b] = [state |-> "carried", carrier |-> p, freq |-> freq[p],
                                             prev |-> @.carrier, killer |-> NoPlayer]]
    <3>1. PICK x : x = [state |-> "carried", carrier |-> p, freq |-> freq[p],
                        prev |-> ball[b].carrier, killer |-> NoPlayer]
      OBVIOUS
    <3>2. ball' = [ball EXCEPT ![b] = x]
      BY <2>5, <3>1
    <3>3. IsBall(x) /\ x.state = "carried" /\ x.carrier = p /\ x.killer = NoPlayer
      BY <3>1 DEF IsBall
    <3>4. \A c \in InPlay \ {b} : ~(ball[c].state = "carried" /\ ball[c].carrier = p)
      BY <2>5 DEF HoldsBall
    <3>5. PICK bs : bs = ball
      OBVIOUS
    <3>6. AreBalls(bs) /\ \A c \in InPlay : Loosened(bs[c], ball[c], NoPlayer)
      BY <3>5, BallsKept
    <3>7. \A c \in InPlay \ {b} : ~(bs[c].state = "carried" /\ bs[c].carrier = p)
      BY <3>4, <3>5
    <3>8. ball' = [bs EXCEPT ![b] = x] /\ b \in InPlay /\ UNCHANGED <<ballCount, status, ship>>
      BY <2>1, <2>5, <3>2, <3>5
    <3> QED
      BY <2>2, <2>3, <3>3, <3>6, <3>7, <3>8, BallTaken
  <2> QED
    BY <2>1, <2>4, <2>5
<1>5. CASE BasicBallTimer
  BY <1>5, <1>o DEF BasicBallTimer
<1>6. CASE BallCommand
  <2>1. UNCHANGED <<status, ship, queue, doing>> /\ MayRun("net")
    BY <1>6 DEF BallCommand
  <2>2. ASSUME NEW n \in 0 .. MaxBalls, ChangeBallCount(n) PROVE BallInv'
    <3>1. \A q \in Acted : q \in Acted' /\ (InShip(q) => InShip(q)') /\ (q \in Late => q \in Late')
      BY <1>l, <2>1 DEF Acted, InShip
    <3>2. n \in Int
      BY BallsAssumption
    <3> QED
      BY <2>2, <3>1, <3>2, BallsCounted
  <2>3. ASSUME NEW p \in Humans \cap Playing, NEW b \in InPlay, InShip(p), ballCount' = ballCount,
               LET held == {c \in InPlay : ball[c].state = "carried" /\ ball[c].carrier = p}
                   laid == [c \in Balls |-> IF c \in held THEN Spawned(ball[c]) ELSE ball[c]]
               IN  ball' = [laid EXCEPT ![b] = Placed(@, "carried", p)]
        PROVE  BallInv'
    <3>1. PICK laid : laid = [c \in Balls |-> IF c \in InPlay /\ ball[c].state = "carried" /\ ball[c].carrier = p
                                               THEN Spawned(ball[c]) ELSE ball[c]]
      OBVIOUS
    <3>2. ball' = [laid EXCEPT ![b] = Placed(laid[b], "carried", p)]
      <4>1. laid = [c \in Balls |-> IF c \in {d \in InPlay : ball[d].state = "carried" /\ ball[d].carrier = p}
                                      THEN Spawned(ball[c]) ELSE ball[c]]
        BY <3>1
      <4> QED
        BY <2>3, <4>1
    <3>3. PICK x : x = Placed(laid[b], "carried", p)
      OBVIOUS
    <3>4. IsBall(x) /\ x.state = "carried" /\ x.carrier = p /\ x.killer = NoPlayer
      BY <3>3 DEF Placed, IsBall
    <3>5. AreBalls(laid)
      <4>1. \A c \in Balls : IsBall(laid[c])
        BY <3>1, SpawnedBall DEF BallInv, BallTypes, AreBalls
      <4> QED
        BY <3>1, <4>1 DEF AreBalls
    <3>6. \A c \in InPlay : /\ Loosened(laid[c], ball[c], NoPlayer)
                            /\ ~(laid[c].state = "carried" /\ laid[c].carrier = p)
      BY <1>0, <3>1, SpawnedBall, BallsKept
    <3>7. p \in Acted \cap Humans
      BY <1>t, <2>1, IdlePlaying
    <3> QED
      BY <1>l, <2>1, <2>3, <3>2, <3>3, <3>4, <3>5, <3>6, <3>7, BallTaken
  <2>4. CASE ball' = Ended(ball) /\ ballCount' = ballCount
    <3>1. ball' = [c \in Balls |-> IF c \in InPlay THEN [Phased(ball[c]) EXCEPT !.state = "waiting"] ELSE ball[c]]
      BY <2>4 DEF Ended
    <3>2. ASSUME NEW c \in Balls
          PROVE  /\ IsBall(ball'[c])
                 /\ c \in InPlay => Loosened(ball'[c], ball[c], NoPlayer)
      <4>1. IsBall(ball[c])
        BY DEF BallInv, BallTypes, AreBalls
      <4>2. PICK y : y = Phased(ball[c])
        OBVIOUS
      <4>3. IsBall(y) /\ y.carrier = NoPlayer /\ y.killer = ball[c].killer
        BY <4>1, <4>2, PhasedBall
      <4>4. ball'[c] = IF c \in InPlay THEN [y EXCEPT !.state = "waiting"] ELSE ball[c]
        BY <3>1, <4>2
      <4> QED
        BY <4>1, <4>3, <4>4 DEF IsBall, Loosened
    <3>3. AreBalls(ball)'
      <4>1. (\A c \in Balls : IsBall(ball[c]))' /\ ball' = [c \in Balls |-> ball'[c]]
        BY <3>1, <3>2 DEF IsBall, Balls
      <4> QED
        BY <4>1 DEF AreBalls, Balls
    <3> QED
      BY <1>0, <1>l, <2>1, <2>4, <3>2, <3>3, BallsLoose
  <2> QED
    BY <1>6, <1>o, <2>1, <2>2, <2>3, <2>4 DEF BallCommand
<1> QED
  BY <1>1, <1>2, <1>3, <1>4, <1>5, <1>6 DEF PlayBalls

ShipTypes == DOMAIN ship = Players

\* A ball is given to whoever has asked for one, as he was then.
LEMMA PicksNext ==
    ASSUME ~Interleaved, StepsInv, StepsGo, ShipTypes, PickupFits, [Next]_vars
    PROVE  ShipTypes' /\ PickupFits'
<1>t. "main" \in Threads /\ "net" \in Threads
  BY DEF Threads
<1>s. Still \/ Stirs
  BY GamesMove
<1>1. ShipTypes'
  <2>1. CASE Still
    BY <2>1 DEF Still, ShipTypes, Players
  <2>2. CASE Stirs
    <3>1. ship' = ship \/ \E p, k : ship' = [ship EXCEPT ![p] = k]
      BY <2>2 DEF Stirs, EnterCallbacks, RunChange, EndFakeInMain, ConfChanged, LeaveCallbacks, PDie, SetNew,
                  CallBack, Watch, TouchFlag, CreateFakePlayer, SpawnTimer, CheckWin, FlagResetCommand, PFlagTimer
    <3> QED
      BY <3>1 DEF ShipTypes, Players
  <2> QED
    BY <1>s, <2>1, <2>2
<1>2. CASE ~Picks'
  <2>1. ASSUME NEW t \in Threads, doing'[t] # <<>>, Head(doing'[t]).do = "pickup" PROVE FALSE
    BY <1>2, <2>1 DEF Picks, Threads
  <2>2. (\A t \in Threads : doing[t] # <<>> /\ Head(doing[t]).do = "pickup" => FALSE)'
    BY <2>1 DEF Threads
  <2> QED
    BY <1>1, <2>2 DEF PickupFits, Threads
<1>3. ASSUME NEW p \in Humans, NEW b \in Balls, PPickupBall(p, b) PROVE PickupFits'
  <2>1. /\ MayRun("net") /\ InShip(p) /\ ship' = ship
        /\ doing' = [doing EXCEPT !["net"] = <<[do |-> "pickup", p |-> p, ball |-> b]>>]
    BY <1>3 DEF PPickupBall, Begin
  <2>2. Idle
    BY <1>t, <2>1, MayRunIdle
  <2>3. /\ doing'["net"] = <<[do |-> "pickup", p |-> p, ball |-> b]>>
        /\ \A t \in Threads \ {"net"} : doing'[t] = <<>>
    BY <1>t, <2>1, <2>2 DEF Idle, StepsInv, TypesFit
  <2>4. Head(doing'["net"]).p = p
    BY <2>3
  <2>5. ASSUME NEW t \in Threads, doing'[t] # <<>> PROVE ship'[Head(doing'[t]).p] # SHIP_SPEC
    <3>1. t = "net"
      BY <2>3, <2>5
    <3> QED
      BY <2>1, <2>4, <3>1 DEF InShip
  <2> QED
    BY <2>5 DEF PickupFits, InShip, Threads
<1>4. ASSUME doing' = doing, NEW u \in Threads, doing[u] # <<>>, Head(doing[u]).do = "pickup"
      PROVE  PickupFits'
  <2>p. PICK p : p = Head(doing[u]).p
    OBVIOUS
  <2>1. p \in Acted /\ InShip(p) /\ p \in Players
    BY <1>4, <2>p, HeadFits DEF Now, Later, PickupFits, Acted
  <2>2. \A t \in Threads : ~MayRun(t)
    BY <1>4, MayRunIdle DEF Idle
  <2>3. \A t \in Threads : doing[t] # <<>> => Head(doing[t]).do = "pickup"
    BY <1>4 DEF StepsInv, OneWorks
  <2>4. ship'[p] = ship[p]
    <3>1. CASE Still
      BY <2>1, <3>1 DEF Still, ShipTypes
    <3>2. ASSUME Stirs PROVE FALSE
      <4>1. ~(EnterCallbacks \/ RunChange \/ EndFakeInMain \/ ConfChanged)
        BY <1>t, <2>2, <2>3 DEF EnterCallbacks, RunChange, EndFakeInMain, ConfChanged, At
      <4>2. /\ \A q \in Humans : ~LeaveCallbacks(q) /\ ~PFlagTimer(q)
            /\ \A q \in Humans : \A k \in Players : \A f \in BOOLEAN : ~PDie(q, k, f)
            /\ \A q \in Fakes : ~CreateFakePlayer(q)
        BY <1>t, <2>2 DEF LeaveCallbacks, PFlagTimer, PDie, CreateFakePlayer
      <4>3. \A t \in Threads : ~(SetNew(t) \/ CallBack(t) \/ Watch(t) \/ TouchFlag(t))
        BY <2>3 DEF SetNew, CallBack, Watch, TouchFlag, At
      <4>4. ~(SpawnTimer \/ CheckWin \/ FlagResetCommand)
        BY <1>t, <2>2 DEF SpawnTimer, CheckWin, FlagResetCommand
      <4> QED
        BY <3>2, <4>1, <4>2, <4>3, <4>4 DEF Stirs
    <3> QED
      BY <1>s, <3>1, <3>2
  <2>5. \A t \in Threads : doing[t] # <<>> => Head(doing[t]).p = p
    BY <1>4, <2>p DEF StepsInv, OneWorks
  <2>6. ASSUME NEW t \in Threads, doing'[t] # <<>> PROVE ship'[Head(doing'[t]).p] # SHIP_SPEC
    BY <1>4, <2>1, <2>4, <2>5, <2>6 DEF InShip
  <2> QED
    BY <2>6 DEF PickupFits, InShip, Threads
<1>5. CASE doing' = doing /\ Picks'
  <2>1. PICK u \in Threads : doing[u] # <<>> /\ Head(doing[u]).do = "pickup"
    BY <1>5 DEF Picks, Threads
  <2>2. doing' = doing
    BY <1>5
  <2> QED
    BY <1>1, <1>4, <2>1, <2>2
<1> QED
  BY <1>1, <1>2, <1>3, <1>5 DEF StepsGo, Picking

\* A fake player leaves no callback behind him, so where there are any the last killer is not kept.
KillersStay == \A c \in Configs, d \in Configs :
                   c.name = d.name /\ "balls" \in c.modules /\ c.killerIgnoresDelay => "fake" \notin d.commands

FakesAway == \A c \in Configs :
                 c.name = conf.name /\ "balls" \in c.modules /\ c.killerIgnoresDelay => Acted \subseteq Humans

LEMMA FakesNext ==
    ASSUME ~Interleaved, KillersStay, StepsInv, FakesAway, [Next]_vars
    PROVE  FakesAway'
<1>f. status \in [Players -> Statuses] /\ Acted \subseteq Players /\ conf \in Configs
  BY DEF StepsInv, TypesFit, Acted
<1>1. ASSUME conf'.name = conf.name, Acted' \subseteq Acted \cup Humans PROVE FakesAway'
  BY <1>1 DEF FakesAway
<1>2. ASSUME conf'.name = conf.name, "fake" \in conf.commands PROVE FakesAway'
  BY <1>2, <1>f DEF FakesAway, KillersStay
<1>3. CASE Still
  BY <1>1, <1>3 DEF Still
<1>4. ASSUME UNCHANGED <<status, conf>> PROVE FakesAway'
  BY <1>1, <1>4 DEF Acted
<1>5. CASE EnterCallbacks
  <2>p. PICK p : p = Head(doing["main"]).p
    OBVIOUS
  <2>1. /\ status' = [status EXCEPT ![p] = IF @ = "arriving" THEN "playing" ELSE @] /\ conf' = conf
        /\ doing["main"] # <<>> /\ Head(doing["main"]).do = "enter"
    BY <1>5, <2>p DEF EnterCallbacks, At
  <2>2. p \in Humans
    BY <2>p, <2>1, HeadFits DEF Now, Later, Threads
  <2>3. Acted' \subseteq Acted \cup Humans
    BY <1>f, <2>1, <2>2 DEF Acted
  <2> QED
    BY <1>1, <2>1, <2>3
<1>6. ASSUME NEW p, NEW s, s \in {"away", "left"}, status' = [status EXCEPT ![p] = s], conf' = conf PROVE FakesAway'
  <2>1. Acted' \subseteq Acted
    BY <1>f, <1>6 DEF Acted
  <2> QED
    BY <1>1, <1>6, <2>1
<1>7. CASE EndFakeInMain
  <2>1. \E p : status' = [status EXCEPT ![p] = "away"] /\ conf' = conf
    BY <1>7 DEF EndFakeInMain
  <2> QED
    BY <1>6, <2>1
<1>8. ASSUME NEW p \in Humans, LeaveCallbacks(p) PROVE FakesAway'
  BY <1>6, <1>8 DEF LeaveCallbacks
<1>9. CASE ConfChanged
  BY <1>1, <1>9 DEF ConfChanged, Acted
<1>10. ASSUME NEW p \in Fakes, CreateFakePlayer(p) PROVE FakesAway'
  BY <1>2, <1>10 DEF CreateFakePlayer
<1>11. CASE \/ \E t \in Threads : SetNew(t) \/ CallBack(t) \/ Watch(t) \/ TouchFlag(t)
            \/ SpawnTimer \/ CheckWin \/ FlagResetCommand \/ \E p \in Humans : PFlagTimer(p)
            \/ RunChange \/ \E p \in Humans, killer \in Players, fired \in BOOLEAN : PDie(p, killer, fired)
  BY <1>4, <1>11 DEF SetNew, CallBack, Watch, TouchFlag, SpawnTimer, CheckWin, FlagResetCommand, PFlagTimer,
                     RunChange, PDie
<1> QED
  BY <1>3, <1>5, <1>7, <1>8, <1>9, <1>10, <1>11, GamesMove DEF Stirs

\* What is said of balls, of who takes them and of crowns.
HereInv == ShipTypes /\ PickupFits /\ FakesAway /\ BallInv /\ KothInv

LEMMA BallsNext ==
    ASSUME ~Interleaved, StepsInv, HereInv, [Next]_vars
    PROVE  BallInv'
<1>h. ShipTypes /\ PickupFits /\ FakesAway /\ BallInv
  BY DEF HereInv
<1>t. "main" \in Threads /\ "net" \in Threads /\ Humans \subseteq Players /\ Fakes \subseteq Players
  BY DEF Threads, Players
<1>f. /\ status \in [Players -> Statuses] /\ Acted \subseteq Players /\ conf \in Configs
      /\ NoPlayer \notin Players /\ Humans \cap Fakes = {}
  BY GameAssumption DEF StepsInv, TypesFit, Acted, Players
<1>n. PICK none : none = NoPlayer
  OBVIOUS
\* Balls, statuses and ships stay.
<1>k. ASSUME UNCHANGED <<ball, ballCount, status, ship>>, \A q : q \in Late => q \in Late' PROVE BallInv'
  <2>1. \A q \in Acted : q # none => /\ q \in Acted' /\ (InShip(q) => InShip(q)' \/ q \in Late')
                                     /\ q \in Late => q \in Late'
    BY <1>k DEF Acted, InShip
  <2> QED
    BY <1>h, <1>k, <1>n, <2>1, BallsStay
\* p is no longer named.
<1>d. ASSUME NEW p \in Players, NEW leaving, CleanupAfter(p, none, TRUE, leaving), conf' = conf,
             \A q \in Acted \ {p} : q \in Acted' /\ (q \in Late => q \in Late'), ship' = ship
      PROVE  BallInv'
  <2>1. p # NoPlayer
    BY <1>f
  <2>2. PICK neut : neut = TRUE
    OBVIOUS
  <2>3. CleanupAfter(p, none, neut, leaving)
    BY <1>d, <2>2
  <2>4. none = IF conf.killerIgnoresDelay THEN none ELSE NoPlayer
    BY <1>n
  <2>5. /\ AreBalls(ball)' /\ ballCount' = ballCount
        /\ \A b \in InPlay : /\ Loosened(ball'[b], ball[b], none)
                             /\ neut /\ none = NoPlayer => ball'[b].carrier # p /\ ball'[b].killer # p
    BY <1>h, <2>1, <2>3, <2>4, BallsDrop
  <2>6. Here(none)'
    BY <1>n DEF Here
  <2>7. \A q \in Acted : q # p => /\ q \in Acted' /\ (InShip(q) => InShip(q)' \/ q \in Late')
                                  /\ q \in Late => q \in Late'
    BY <1>d DEF InShip
  <2>8. \A b \in InPlay : /\ Loosened(ball'[b], ball[b], none)
                          /\ p # NoPlayer => ball'[b].carrier # p /\ ball'[b].killer # p
    BY <1>n, <2>2, <2>5
  <2> QED
    BY <1>h, <2>5, <2>6, <2>7, <2>8, BallsLoosen
<1>1. CASE Still
  <2>1. \A q : q \in Late => q \in Late'
    BY <1>1, LateStays DEF Still
  <2>2. \A q \in Acted : q # none => /\ q \in Acted' /\ (InShip(q) => InShip(q)' \/ q \in Late')
                                     /\ q \in Late => q \in Late'
    BY <1>1, <1>f, <1>h, <2>1 DEF Still, InShip, ShipTypes
  <2>3. CASE UNCHANGED <<ball, ballCount>>
    BY <1>h, <1>n, <2>2, <2>3, BallsStay
  <2> QED
    BY <1>1, <1>h, <2>3, BallsPlay DEF Still
<1>2. CASE EnterCallbacks
  <2>p. PICK p : p = Head(doing["main"]).p
    OBVIOUS
  <2>1. /\ status' = [status EXCEPT ![p] = IF @ = "arriving" THEN "playing" ELSE @]
        /\ UNCHANGED <<ball, ballCount, ship, queue>>
        /\ doing["main"] # <<>> /\ Head(doing["main"]).do = "enter"
    BY <1>2, <2>p DEF EnterCallbacks, At, ballvars
  <2>2. \A q \in Acted : q \in Late => q \in Late'
    BY <1>t, <2>1, NoneCalls, LateStays
  <2>3. \A q \in Acted : q # none => /\ q \in Acted' /\ (InShip(q) => InShip(q)' \/ q \in Late')
                                     /\ q \in Late => q \in Late'
    BY <1>f, <2>1, <2>2 DEF Acted, InShip
  <2> QED
    BY <1>h, <1>n, <2>1, <2>3, BallsStay
<1>3. CASE RunChange
  <2>p. PICK p : p = Head(queue).p
    OBVIOUS
  <2>1. /\ queue # <<>> /\ queue' = Tail(queue) /\ UNCHANGED <<conf, status, ship, doing>>
        /\ IF p \in InArena THEN CleanupAfter(p, NoPlayer, TRUE, FALSE) ELSE UNCHANGED <<ball, ballCount>>
    BY <1>3, <2>p DEF RunChange, BallsChange, ballvars
  <2>2. p \in Players
    BY <2>p, <2>1, QueueShrinks DEF StepsInv, QueueFits
  <2>3. \A q \in Acted \ {p} : q \in Acted' /\ (q \in Late => q \in Late')
    BY <2>p, <2>1, LateShrinks DEF Acted
  <2>4. CASE p \in InArena
    <3>1. CleanupAfter(p, none, TRUE, FALSE)
      BY <1>n, <2>1, <2>4
    <3> QED
      BY <1>d, <2>1, <2>2, <2>3, <3>1
  <2>5. CASE p \notin InArena
    <3>1. p \notin Acted
      BY <2>5 DEF Acted, InArena
    <3>2. \A q \in Acted : q # p => /\ q \in Acted' /\ (InShip(q) => InShip(q)' \/ q \in Late')
                                    /\ q \in Late => q \in Late'
      BY <2>1, <2>3 DEF InShip
    <3> QED
      BY <1>h, <2>1, <2>5, <3>1, <3>2, BallsStay
  <2> QED
    BY <2>4, <2>5
<1>4. CASE EndFakeInMain
  <2>p. PICK p : p = Head(queue).p
    OBVIOUS
  <2>1. /\ queue # <<>> /\ queue' = Tail(queue) /\ UNCHANGED <<ball, ballCount, doing>>
        /\ Head(queue).do = "endfake"
        /\ status' = [status EXCEPT ![p] = "away"] /\ ship' = [ship EXCEPT ![p] = -1]
    BY <1>4, <2>p DEF EndFakeInMain, ballvars
  <2>2. p \in Fakes
    BY <2>p, <2>1, QueueShrinks DEF StepsInv, QueueFits
  <2>3. \A q \in Acted : q # p /\ q \in Late => q \in Late'
    BY <2>p, <2>1, LateShrinks
  <2>4. \A q \in Acted : q # p => /\ q \in Acted' /\ (InShip(q) => InShip(q)' \/ q \in Late')
                                  /\ q \in Late => q \in Late'
    BY <1>f, <1>h, <2>1, <2>3 DEF Acted, InShip, ShipTypes
  <2>5. p \notin Humans
    BY <1>f, <2>2
  <2> QED
    BY <1>h, <2>1, <2>4, <2>5, BallsStay
<1>5. CASE ConfChanged
  <2>1. PICK c \in Configs : BallsConfChanged(c)
    BY <1>5 DEF ConfChanged
  <2>2. UNCHANGED <<status, ship, queue, doing>>
    BY <1>5 DEF ConfChanged
  <2>3. \A q : q \in Late => q \in Late'
    BY <2>2, LateStays
  <2>4. CASE UNCHANGED ballvars
    BY <1>k, <2>2, <2>3, <2>4 DEF ballvars
  <2>5. ASSUME NEW n \in Int, ChangeBallCount(n) PROVE BallInv'
    <3>1. \A q \in Acted : q \in Acted' /\ (InShip(q) => InShip(q)') /\ (q \in Late => q \in Late')
      BY <2>2, <2>3 DEF Acted, InShip
    <3> QED
      BY <1>h, <2>5, <3>1, BallsCounted
  <2>6. c.balls \in Int
    BY ArenaAssumption
  <2> QED
    BY <2>1, <2>4, <2>5, <2>6 DEF BallsConfChanged
<1>6. ASSUME NEW p \in Humans, LeaveCallbacks(p) PROVE BallInv'
  <2>1. /\ status' = [status EXCEPT ![p] = "left"] /\ UNCHANGED <<conf, ship, queue, doing>>
        /\ CleanupAfter(p, none, TRUE, TRUE)
    BY <1>6, <1>n DEF LeaveCallbacks, BallsLeave
  <2>2. \A q : q \in Late => q \in Late'
    BY <2>1, LateStays
  <2>3. \A q \in Acted \ {p} : q \in Acted' /\ (q \in Late => q \in Late')
    BY <1>f, <2>1, <2>2 DEF Acted
  <2> QED
    BY <1>d, <1>t, <2>1, <2>3
<1>7. ASSUME NEW p \in Humans, NEW killer \in Players, NEW fired \in BOOLEAN, PDie(p, killer, fired)
      PROVE  BallInv'
  <2>1. /\ MayRun("net") /\ killer \in Playing \ {p} /\ UNCHANGED <<conf, status, ship, queue>>
        /\ IF Attached("balls") THEN BallsKill(killer, p) ELSE UNCHANGED ballvars
    BY <1>7 DEF PDie
  <2>2. killer \in Acted /\ ~Calls
    BY <1>t, <2>1, IdlePlaying, NoneCalls
  <2>3. \A q : q \in Late => q \in Late'
    BY <2>1, <2>2, LateStays
  <2>4. CASE ~Attached("balls")
    BY <1>k, <2>1, <2>3, <2>4 DEF ballvars
  <2>5. CASE Attached("balls")
    <3>1. PICK neut, leaving : CleanupAfter(p, killer, neut, leaving)
      BY <2>1, <2>5 DEF BallsKill
    <3>2. PICK k : k = IF conf.killerIgnoresDelay THEN killer ELSE NoPlayer
      OBVIOUS
    <3>3. p # NoPlayer
      BY <1>f, <1>t
    <3>4. /\ AreBalls(ball)' /\ ballCount' = ballCount
          /\ \A b \in InPlay : /\ Loosened(ball'[b], ball[b], k)
                               /\ neut /\ k = NoPlayer => ball'[b].carrier # p /\ ball'[b].killer # p
      BY <1>h, <3>1, <3>2, <3>3, BallsDrop
    <3>5. Here(k)'
      <4>1. conf.killerIgnoresDelay => killer \in Humans
        BY <1>f, <1>h, <2>2, <2>5 DEF FakesAway, Attached
      <4> QED
        BY <2>1, <2>2, <3>2, <4>1 DEF Here, Acted
    <3>6. \A q \in Acted : q # none => /\ q \in Acted' /\ (InShip(q) => InShip(q)' \/ q \in Late')
                                       /\ q \in Late => q \in Late'
      BY <2>1, <2>3 DEF Acted, InShip
    <3>7. \A b \in InPlay : /\ Loosened(ball'[b], ball[b], k)
                            /\ none # NoPlayer => ball'[b].carrier # none /\ ball'[b].killer # none
      BY <1>n, <3>4
    <3> QED
      BY <1>h, <3>4, <3>5, <3>6, <3>7, BallsLoosen
  <2> QED
    BY <2>4, <2>5
<1>8. ASSUME NEW t \in Threads, SetNew(t), UNCHANGED <<ball, ballCount>> PROVE BallInv'
  <2>1. /\ \A q \in Late : q \in Late'
        /\ \/ UNCHANGED <<ship, freq>>
           \/ \E p \in Acted : p \in Late' /\ \E k : ship' = [ship EXCEPT ![p] = k]
    BY <1>8, SetLate
  <2>2. status' = status
    BY <1>8 DEF SetNew
  <2>3. \A q \in Acted : q # none => /\ q \in Acted' /\ (InShip(q) => InShip(q)' \/ q \in Late')
                                     /\ q \in Late => q \in Late'
    <3>1. \A q \in Acted : q \in Acted' /\ (q \in Late => q \in Late')
      BY <2>1, <2>2 DEF Acted
    <3>2. \A q \in Acted : ship'[q] = ship[q] \/ q \in Late'
      BY <1>f, <1>h, <2>1 DEF ShipTypes
    <3> QED
      BY <3>1, <3>2 DEF InShip
  <2> QED
    BY <1>h, <1>8, <1>n, <2>3, BallsStay
<1>9. ASSUME NEW t \in Threads, CallBack(t), UNCHANGED <<ball, ballCount>> PROVE BallInv'
  BY <1>9, <1>k, CallLate DEF CallBack
<1>10. ASSUME NEW t \in Threads, Watch(t) \/ TouchFlag(t), UNCHANGED <<ball, ballCount>> PROVE BallInv'
  <2>1. UNCHANGED <<status, ship, queue>> /\ doing[t] # <<>> /\ Head(doing[t]).do \in {"watch", "touch"}
    BY <1>10 DEF Watch, TouchFlag, At
  <2>2. \A q : q \in Late => q \in Late'
    BY <2>1, NoneCalls, LateStays
  <2> QED
    BY <1>10, <1>k, <2>1, <2>2
<1>11. ASSUME NEW p \in Fakes, CreateFakePlayer(p), UNCHANGED <<ball, ballCount>> PROVE BallInv'
  <2>1. /\ status[p] = "away" /\ status' = [status EXCEPT ![p] = "playing"]
        /\ \E s : ship' = [ship EXCEPT ![p] = s]
        /\ UNCHANGED <<queue, doing>>
    BY <1>11 DEF CreateFakePlayer
  <2>2. \A q : q \in Late => q \in Late'
    BY <2>1, LateStays
  <2>3. p \notin Acted
    BY <2>1 DEF Acted
  <2>4. \A q \in Acted : q # p => /\ q \in Acted' /\ (InShip(q) => InShip(q)' \/ q \in Late')
                                  /\ q \in Late => q \in Late'
    BY <1>f, <1>h, <2>1, <2>2 DEF Acted, InShip, ShipTypes
  <2> QED
    BY <1>h, <1>11, <2>3, <2>4, BallsStay
<1>12. ASSUME SpawnTimer \/ CheckWin \/ FlagResetCommand \/ \E p \in Humans : PFlagTimer(p),
              UNCHANGED <<ball, ballCount>>
       PROVE  BallInv'
  <2>1. UNCHANGED <<status, ship, queue, doing>>
    BY <1>12 DEF SpawnTimer, CheckWin, FlagResetCommand, PFlagTimer
  <2>2. \A q : q \in Late => q \in Late'
    BY <2>1, LateStays
  <2> QED
    BY <1>12, <1>k, <2>1, <2>2
<1> QED
  BY <1>1, <1>2, <1>3, <1>4, <1>5, <1>6, <1>7, <1>8, <1>9, <1>10, <1>11, <1>12, GamesMove DEF Stirs, ballvars

LEMMA HereBegin == Init => HereInv
<1> SUFFICES ASSUME Init PROVE HereInv
  OBVIOUS
<1>1. /\ ship = [p \in Players |-> -1] /\ doing = [t \in Threads |-> <<>>]
      /\ status = [p \in Players |-> "away"] /\ conf \in Configs /\ BallsInit /\ crown = {} /\ hadCrown = {}
  BY DEF Init, KothInit
<1>2. ShipTypes /\ PickupFits /\ KothInv
  BY <1>1 DEF ShipTypes, PickupFits, KothInv
<1>3. Acted = {}
  BY <1>1 DEF Acted
<1>4. BallTypes
  <2>1. ballCount \in Int
    BY <1>1, ArenaAssumption DEF BallsInit
  <2>2. \A b \in Balls : IsBall(ball[b])
    BY <1>1 DEF BallsInit, IsBall
  <2> QED
    BY <1>1, <2>1, <2>2 DEF BallTypes, AreBalls, BallsInit
<1>5. \A b \in InPlay : ball[b].carrier = NoPlayer /\ ball[b].killer = NoPlayer /\ ball[b].state = "onmap"
  BY <1>1 DEF BallsInit, InPlay
<1>6. BallsFit /\ OneBall
  BY <1>5 DEF BallsFit, OneBall, Here
<1> QED
  BY <1>2, <1>3, <1>4, <1>6 DEF HereInv, BallInv, FakesAway

LEMMA HereNext ==
    ASSUME ~Interleaved, KillersStay, ListsInv, HereInv, [Next]_vars
    PROVE  HereInv'
<1>1. StepsInv /\ IsTeams(teams)
  BY DEF ListsInv, PointersInv
<1>2. StepsGo
  BY <1>1, StepsNext
<1> QED
  BY <1>1, <1>2, PicksNext, FakesNext, BallsNext, KothNext DEF HereInv

\* Where handlers run to their end, whoever balls, kicks and crowns are said to belong to is in the arena,
\* and who carries a ball has no other, and is in a ship or has a change on its way that takes it from him.
THEOREM TheyStayHere ==
    ASSUME ~Interleaved, KillersStay
    PROVE  Spec => []TheyAreHere
<1>1. ListsInv /\ HereInv /\ [Next]_vars => HereInv'
  BY HereNext
<1>2. ASSUME StepsInv, HereInv PROVE TheyAreHere
  <2>0. Acted = {p \in Players : status[p] \in {"playing", "leaving"}}
    BY DEF Acted
  <2>1. ASSUME NEW b \in InPlay
        PROVE  /\ ball[b].carrier # NoPlayer => status[ball[b].carrier] \in {"playing", "leaving"}
               /\ ball[b].killer # NoPlayer => status[ball[b].killer] \in {"playing", "leaving"}
               /\ ball[b].state = "carried" =>
                     /\ InShip(ball[b].carrier) \/ Changing(ball[b].carrier)
                     /\ \A c \in InPlay \ {b} : ball[c].state # "carried" \/ ball[c].carrier # ball[b].carrier
    <3>1. /\ Here(ball[b].carrier) /\ Here(ball[b].killer)
          /\ ball[b].state = "carried" => InShip(ball[b].carrier) \/ ball[b].carrier \in Late
      BY <1>2 DEF HereInv, BallInv, BallsFit
    <3>2. \A p : p \in Late => Changing(p)
      BY <1>2, LateChanges
    <3>3. ball[b].state = "carried" =>
              \A c \in InPlay \ {b} : ball[c].state # "carried" \/ ball[c].carrier # ball[b].carrier
      BY <1>2 DEF HereInv, BallInv, OneBall
    <3> QED
      BY <3>1, <3>2, <3>3 DEF Here, Acted
  <2>2. BallsAreHeldByPlayers
    BY <2>1 DEF BallsAreHeldByPlayers
  <2>3. KickedPlayersAreHere
    BY <1>2 DEF KickedPlayersAreHere, StepsInv, KicksFit, Acted
  <2>4. CrownsStayInTheArena
    BY <1>2 DEF CrownsStayInTheArena, HereInv, KothInv, Acted
  <2> QED
    BY <2>2, <2>3, <2>4 DEF TheyAreHere
<1>3. ListsInv => StepsInv
  BY DEF ListsInv
<1> QED
  BY <1>1, <1>2, <1>3, HereBegin, ListsInvariant, PTL DEF Spec


----------------------------------------------------------------------------
(* Points.                                                                 *)

\* points_goal reads Soccer:Mode and Soccer:CapturePoints when the arena is created, not again.
ScoresSettled == \A c \in Configs, d \in Configs : c.name = d.name => c.steal = d.steal /\ c.goals = d.goals

\* Points are stolen with these goals only; and where a ball is scored for its team, it knows its team.
PointsCount == \A c \in Configs :
                  /\ c.steal \in Nat
                  /\ c.steal > 0 => c.goals \in {"all", "halves", "corners31"}
                  /\ c.steal > 0 /\ c.goals = "corners31" =>
                        c.goalDelay /\ (c.deathScores => c.garbage \subseteq Scorers)

\* Whoever plays in a ship is on a frequency that has a score.
ShipsScore == conf.steal > 0 /\ conf.goals = "corners31" =>
                 \A p \in Humans \cap Playing : InShip(p) => freq[p] \in Scorers

Places == -1 .. MaxFreq - 1

\* No point is lost when each team has had n.
Whole(s, n) == /\ s = [f \in Places |-> s[f]] /\ \A f \in Scorers : s[f] \in Nat
               /\ Total(0, s, Scorers) = n * MaxFreq
Halved(s, n) == /\ s[0] > 0 /\ s[1] > 0 /\ s[0] + s[1] = 2 * n
                /\ \A f \in Scorers : f > 1 => s[f] = n

\* Whom a ball will be scored for, where its team decides (k).
KnowsTeam(x, k) == IsBall(x) /\ (k /\ x.state = "onmap" /\ x.carrier # NoPlayer => x.freq \in Scorers)
Owners(bs, k) == bs = [b \in Balls |-> bs[b]] /\ \A b \in Balls : KnowsTeam(bs[b], k)
ByTeam == conf.steal > 0 /\ conf.goals = "corners31"

PointsInv ==
    /\ conf \in Configs /\ Owners(ball, ByTeam)
    /\ conf.steal > 0 => Whole(score, conf.steal) /\ (conf.goals = "halves" => Halved(score, conf.steal))

LEMMA ScorersFit ==
    /\ IsFiniteSet(Scorers) /\ Cardinality(Scorers) = MaxFreq /\ Scorers \subseteq Places
    /\ 0 \in Scorers /\ 1 \in Scorers /\ Scorers \subseteq Nat /\ MaxFreq \in Nat
<1>1. 0 \in Int /\ MaxFreq - 1 \in Int
  BY BallsAssumption
<1>2. IsFiniteSet(0 .. MaxFreq - 1) /\ Cardinality(0 .. MaxFreq - 1) = MaxFreq
  BY <1>1, FS_Interval, BallsAssumption
<1> QED
  BY <1>2, BallsAssumption DEF Scorers, Places

\* All scores are set to n.
LEMMA ScoresLevel ==
    ASSUME NEW n \in Nat, n > 0, NEW s, NEW t, t = [f \in Places |-> IF f \in Scorers THEN n ELSE s[f]]
    PROVE  Whole(t, n) /\ Halved(t, n)
<1>1. \A f \in Scorers : t[f] = n
  BY ScorersFit
<1>2. Total(0, t, Scorers) = n * MaxFreq
  BY <1>1, ScorersFit, TotalLevel
<1>3. t = [f \in Places |-> t[f]]
  OBVIOUS
<1>4. Whole(t, n)
  BY <1>1, <1>2, <1>3 DEF Whole
<1>5. t[0] = n /\ t[1] = n
  BY <1>1, ScorersFit
<1>6. Halved(t, n)
  BY <1>1, <1>5 DEF Halved
<1> QED
  BY <1>4, <1>6

\* A point goes from one team to another.
LEMMA PointMoves ==
    ASSUME NEW n, NEW s, Whole(s, n), NEW i \in Scorers, NEW j \in Scorers, i # j, s[j] > 0,
           NEW t, t = [f \in Places |-> IF f = i THEN s[i] + 1 ELSE IF f = j THEN s[j] - 1 ELSE s[f]]
    PROVE  Whole(t, n)
<1>f. IsFiniteSet(Scorers) /\ Scorers \subseteq Places
  BY ScorersFit
<1>1. \A f \in Scorers : s[f] \in Nat /\ t[f] \in Nat
  <2>1. s[i] \in Nat /\ s[j] \in Nat
    BY DEF Whole
  <2>2. s[i] + 1 \in Nat /\ s[j] - 1 \in Nat
    BY <2>1
  <2> QED
    BY <1>f, <2>2 DEF Whole
<1>2. PICK r : r = [f \in Scorers |-> s[f]]
  OBVIOUS
<1>3. PICK v : v = [f \in Scorers |-> t[f]]
  OBVIOUS
<1>4. /\ r \in [Scorers -> Nat] /\ v \in [Scorers -> Nat] /\ v[i] = r[i] + 1 /\ v[j] = r[j] - 1
      /\ \A f \in Scorers \ {i, j} : v[f] = r[f]
  BY <1>1, <1>2, <1>3, <1>f
<1>5. (\A f \in Scorers : s[f] \in Nat) /\ \A f \in Scorers : t[f] \in Nat
  BY <1>1
<1>6. Total(0, v, Scorers) = Total(0, r, Scorers)
  BY <1>4, <1>f, TotalMoves
<1>7. Total(0, r, Scorers) = Total(0, s, Scorers)
  BY <1>2, <1>5, <1>f, TotalWithin
<1>8. Total(0, v, Scorers) = Total(0, t, Scorers)
  BY <1>3, <1>5, <1>f, TotalWithin
<1>9. t = [f \in Places |-> t[f]]
  OBVIOUS
<1> QED
  BY <1>1, <1>6, <1>7, <1>8, <1>9 DEF Whole

\* The balls after a goal.
LEMMA GoalBalls ==
    ASSUME NEW k, NEW bs, Owners(bs, k), NEW b \in Balls, NEW g, HandleGoal(bs, b, g)
    PROVE  Owners(ball', k)
<1>1. PICK after : after = [bs EXCEPT ![b] = Scored(@)]
  OBVIOUS
<1>2. PICK balls : /\ balls \in {after, Ended(after)}
                   /\ ball' = [balls EXCEPT ![b].freq = NoOwner]
  BY <1>1 DEF HandleGoal
<1>3. \A x : IsBall(x) => IsBall(Scored(x)) /\ Scored(x).carrier = NoPlayer
  BY DEF IsBall, Scored, Spawned, Placed, Phased
<1>4. after = [c \in Balls |-> IF c = b THEN Scored(bs[b]) ELSE bs[c]]
  BY <1>1 DEF Owners
<1>5. after[b].carrier = NoPlayer /\ \A c \in Balls : KnowsTeam(after[c], k)
  BY <1>3, <1>4 DEF Owners, KnowsTeam
<1>6. balls = [c \in Balls |-> balls[c]] /\ balls[b].carrier = NoPlayer /\ \A c \in Balls : KnowsTeam(balls[c], k)
  <2>1. CASE balls = after
    BY <1>4, <1>5, <2>1
  <2>2. CASE balls = Ended(after)
    <3>1. \A x : IsBall(x) => IsBall([Phased(x) EXCEPT !.state = "waiting"])
                              /\ [Phased(x) EXCEPT !.state = "waiting"].carrier = NoPlayer
      BY PhasedBall DEF IsBall
    <3>2. /\ balls = [c \in Balls |-> balls[c]]
          /\ \A c \in Balls : \/ balls[c] = after[c]
                            \/ balls[c] = [Phased(after[c]) EXCEPT !.state = "waiting"]
      BY <2>2 DEF Ended
    <3>3. ASSUME NEW c \in Balls PROVE KnowsTeam(balls[c], k) /\ (c = b => balls[c].carrier = NoPlayer)
      <4>1. CASE balls[c] = after[c]
        BY <1>5, <4>1
      <4>2. CASE balls[c] # after[c]
        <5>1. PICK x : x = after[c]
          OBVIOUS
        <5>2. IsBall(x)
          BY <1>5, <5>1 DEF KnowsTeam
        <5>3. balls[c] = [Phased(x) EXCEPT !.state = "waiting"]
          BY <3>2, <4>2, <5>1
        <5> QED
          BY <3>1, <5>2, <5>3 DEF KnowsTeam
      <4> QED
        BY <4>1, <4>2
    <3> QED
      BY <3>2, <3>3
  <2> QED
    BY <1>2, <2>1, <2>2
<1>7. ball' = [c \in Balls |-> IF c = b THEN [balls[b] EXCEPT !.freq = NoOwner] ELSE balls[c]]
  BY <1>2, <1>6
<1>8. \A x : IsBall(x) => IsBall([x EXCEPT !.freq = NoOwner]) /\ [x EXCEPT !.freq = NoOwner].carrier = x.carrier
  BY DEF IsBall
<1>9. \A c \in Balls : KnowsTeam(ball'[c], k)
  BY <1>6, <1>7, <1>8 DEF KnowsTeam
<1> QED
  BY <1>7, <1>9 DEF Owners

\* With halves of the map, the game is over before a score is below 0.
LEMMA HalvesEnd ==
    ASSUME NEW n \in Nat, n > 0, NEW s, NEW g \in {0, 1}, s[g] = 2 * n, s[1 - g] = 0,
           \A f \in Scorers : f > 1 => s[f] = n
    PROVE  Best(s) = g
<1>1. g \in Scorers /\ Scorers \subseteq Nat
  BY ScorersFit
<1>2. \A f \in Scorers : f # g => s[f] < s[g] /\ s[f] \in Nat
  <2>1. ASSUME NEW f \in Scorers, f # g PROVE s[f] < s[g] /\ s[f] \in Nat
    <3>1. f = 1 - g \/ f > 1
      BY <1>1, <2>1
    <3> QED
      BY <2>1, <3>1
  <2> QED
    BY <2>1
<1>3. \A f \in Scorers : /\ \A h \in Scorers : s[h] <= s[f]
                         /\ \A h \in Scorers : h < f => s[h] < s[f]
                         => f = g
  BY <1>1, <1>2
<1>4. /\ \A h \in Scorers : s[h] <= s[g]
      /\ \A h \in Scorers : h < g => s[h] < s[g]
  <2>1. \A h \in Scorers : h < g => h # g
    BY <1>1
  <2> QED
    BY <1>2, <2>1
<1> HIDE DEF Scorers
<1> QED
  BY <1>1, <1>3, <1>4 DEF Best

\* The scores after a goal.
LEMMA GoalPoints ==
    ASSUME PointsCount, conf \in Configs, NEW n, n = conf.steal, n > 0,
           Whole(score, n), conf.goals = "halves" => Halved(score, n),
           NEW bs, Owners(bs, ByTeam), NEW b \in Balls, NEW g \in Goals, HandleGoal(bs, b, g),
           ByTeam => bs[b].freq \in Scorers
    PROVE  Whole(score', n) /\ (conf.goals = "halves" => Halved(score', n))
<1>f. IsFiniteSet(Scorers) /\ Scorers \subseteq Places /\ n \in Nat
  BY ScorersFit DEF PointsCount
<1>g. g \in Scorers /\ (conf.goals = "halves" => g \in {0, 1} /\ 1 - g \in Scorers /\ 1 - g # g)
  BY ScorersFit DEF Goals
<1>w. score = [f \in Places |-> score[f]] /\ \A f \in Scorers : score[f] \in Nat
  BY DEF Whole
<1>0. PICK after : after = [bs EXCEPT ![b] = Scored(@)]
  OBVIOUS
<1>1. PICK team2 : team2 = after[b].freq
  OBVIOUS
<1>2. PICK s : s = Credited(team2, g)
  OBVIOUS
<1>3. PICK over : over = (conf.goals # "all" /\ GameOver(s))
  OBVIOUS
<1>4. score' = IF over THEN ResetScores(s) ELSE s
  <2>1. score' = LET x == Credited(team2, g)
                 IN  IF conf.goals # "all" /\ GameOver(x) THEN ResetScores(x) ELSE x
    <3>1. score' = LET x == Credited(after[b].freq, g)
                   IN  IF conf.goals # "all" /\ GameOver(x) THEN ResetScores(x) ELSE x
      BY <1>0 DEF HandleGoal
    <3> QED
      BY <1>1, <3>1, Zenon
  <2>2. score' = IF conf.goals # "all" /\ GameOver(s) THEN ResetScores(s) ELSE s
    BY <1>2, <2>1, Zenon
  <2> QED
    BY <1>3, <2>2
<1>5. CASE conf.goals = "all"
  <2>1. s = score
    BY <1>2, <1>5 DEF Credited
  <2> QED
    BY <1>3, <1>4, <1>5, <2>1
<1>6. ASSUME DOMAIN s = Places, over PROVE Whole(score', n) /\ Halved(score', n)
  <2>1. score' = [f \in Places |-> IF f \in Scorers THEN n ELSE s[f]]
    BY <1>4, <1>6 DEF ResetScores
  <2> QED
    BY <1>f, <2>1, ScoresLevel
<1>7. CASE conf.goals = "halves"
  <2>1. Halved(score, n) /\ g \in {0, 1} /\ 1 - g \in Scorers /\ 1 - g # g /\ g \in Scorers
    BY <1>7, <1>g
  <2>2. PICK i, j : i = g /\ j = 1 - g
    OBVIOUS
  <2>3. score[i] > 0 /\ score[j] > 0 /\ score[i] + score[j] = 2 * n /\ i \in Scorers /\ j \in Scorers /\ i # j
    <3>1. score[0] > 0 /\ score[1] > 0 /\ score[0] + score[1] = 2 * n /\ score[0] \in Nat /\ score[1] \in Nat
      BY <2>1, <1>w, ScorersFit DEF Halved
    <3>2. (i = 0 /\ j = 1) \/ (i = 1 /\ j = 0)
      BY <2>1, <2>2
    <3>3. score[i] > 0 /\ score[j] > 0 /\ score[i] + score[j] = 2 * n
      BY <3>1, <3>2
    <3> QED
      BY <2>1, <2>2, <3>3
  <2>4. s = [f \in Places |-> IF f = i THEN score[i] + 1 ELSE IF f = j THEN score[j] - 1 ELSE score[f]]
    <3>1. s = [score EXCEPT ![i] = @ + 1, ![j] = @ - 1]
      BY <1>2, <1>7, <2>2 DEF Credited
    <3> QED
      BY <1>f, <1>w, <2>3, <3>1
  <2>5. Whole(s, n)
    BY <2>3, <2>4, PointMoves
  <2>6. CASE over
    BY <1>6, <2>4, <2>6
  <2>7. CASE ~over
    <3>1. ~GameOver(s)
      BY <1>3, <1>7, <2>7
    <3>2. s[1 - Best(s)] # 0
      BY <3>1, <1>7 DEF GameOver
    <3>3. s[i] = score[i] + 1 /\ s[j] = score[j] - 1 /\ \A f \in Scorers : f > 1 => s[f] = n
      <4>1. \A f \in Scorers : f > 1 => f # i /\ f # j
        BY <2>1, <2>2
      <4> QED
        BY <1>f, <2>1, <2>3, <2>4, <4>1 DEF Halved
    <3>4. score[i] \in Nat /\ score[j] \in Nat
      BY <1>w, <2>3
    <3>5. s[j] # 0
      <4>1. ASSUME s[j] = 0 PROVE FALSE
        <5>1. s[g] = 2 * n /\ s[1 - g] = 0
          BY <2>2, <2>3, <3>3, <3>4, <4>1
        <5>2. Best(s) = g
          BY <1>f, <2>1, <3>3, <5>1, HalvesEnd
        <5> QED
          BY <3>2, <5>1, <5>2
      <4> QED
        BY <4>1
    <3>6. s[i] > 0 /\ s[j] > 0 /\ s[i] + s[j] = 2 * n
      BY <1>f, <2>3, <3>3, <3>4, <3>5
    <3>7. Halved(s, n)
      BY <2>1, <2>2, <3>3, <3>4, <3>6 DEF Halved
    <3> QED
      BY <1>4, <2>5, <2>7, <3>7
  <2> QED
    BY <2>6, <2>7
<1>8. CASE conf.goals = "corners31"
  <2>1. ByTeam /\ conf.goalDelay
    BY <1>8 DEF ByTeam, PointsCount
  <2>2. team2 \in Scorers
    <3>1. team2 = Scored(bs[b]).freq
      BY <1>0, <1>1 DEF Owners
    <3>2. IsBall(bs[b])
      BY DEF Owners, KnowsTeam
    <3>3. \A x : IsBall(x) => Scored(x).freq = x.freq
      BY <2>1 DEF Scored, Phased, IsBall
    <3> QED
      BY <2>1, <3>1, <3>2, <3>3
  <2>3. s = IF score[g] = 0 THEN score
            ELSE LET up == [score EXCEPT ![team2] = @ + 1] IN [up EXCEPT ![g] = @ - 1]
    BY <1>2, <1>8 DEF Credited
  <2>4. Whole(s, n)
    <3>1. CASE score[g] = 0
      BY <2>3, <3>1
    <3>2. CASE score[g] # 0 /\ team2 = g
      <4>1. score[g] + 1 - 1 = score[g]
        BY <1>g, <1>w
      <4>2. s = score
        BY <1>f, <1>g, <1>w, <2>3, <3>2, <4>1
      <4> QED
        BY <4>2
    <3>3. CASE score[g] # 0 /\ team2 # g
      <4>1. score[g] > 0
        BY <1>g, <1>w, <3>3
      <4>2. s = [f \in Places |-> IF f = team2 THEN score[team2] + 1 ELSE IF f = g THEN score[g] - 1 ELSE score[f]]
        BY <1>f, <1>g, <1>w, <2>2, <2>3, <3>3
      <4> QED
        BY <1>g, <2>2, <3>3, <4>1, <4>2, PointMoves
    <3> QED
      BY <3>1, <3>2, <3>3
  <2>5. DOMAIN s = Places
    BY <2>4 DEF Whole
  <2> QED
    BY <1>4, <1>6, <1>8, <2>4, <2>5
<1> QED
  BY <1>5, <1>7, <1>8 DEF PointsCount

LEMMA PointsAfter ==
    ASSUME NEW k, k = ByTeam, NEW n, n = conf.steal, conf' \in Configs, conf'.steal = n, conf'.goals = conf.goals,
           Owners(ball', k), n > 0 => Whole(score', n) /\ (conf.goals = "halves" => Halved(score', n))
    PROVE  PointsInv'
<1>1. ByTeam' = k
  BY DEF ByTeam
<1>2. Owners(ball, ByTeam)'
  BY <1>1 DEF Owners, KnowsTeam, IsBall, Balls, Scorers
<1>3. (conf.steal > 0 => Whole(score, conf.steal) /\ (conf.goals = "halves" => Halved(score, conf.steal)))'
  BY DEF Whole, Halved, Places, Scorers
<1> QED
  BY <1>2, <1>3 DEF PointsInv

\* The ball b of bs may be in a goal.
LEMMA PointsScored ==
    ASSUME PointsInv, PointsCount, conf' = conf, NEW bs, Owners(bs, ByTeam), NEW b \in Balls,
           ByTeam /\ bs[b].carrier # NoPlayer => bs[b].freq \in Scorers,
           \/ ball' = bs /\ UNCHANGED score
           \/ bs[b].carrier # NoPlayer /\ \E g \in Goals : HandleGoal(bs, b, g)
    PROVE  PointsInv'
<1>1. PICK k : k = ByTeam
  OBVIOUS
<1>2. PICK n : n = conf.steal
  OBVIOUS
<1>3. /\ conf \in Configs /\ Owners(bs, k)
      /\ n > 0 => Whole(score, n) /\ (conf.goals = "halves" => Halved(score, n))
  BY <1>1, <1>2 DEF PointsInv
<1>4. CASE ball' = bs /\ UNCHANGED score
  <2>1. Owners(ball', k) /\ (n > 0 => Whole(score', n) /\ (conf.goals = "halves" => Halved(score', n)))
    BY <1>3, <1>4
  <2> QED
    BY <1>1, <1>2, <1>3, <2>1, PointsAfter
<1>5. ASSUME bs[b].carrier # NoPlayer, NEW g \in Goals, HandleGoal(bs, b, g) PROVE PointsInv'
  <2>1. Owners(ball', k)
    BY <1>3, <1>5, GoalBalls
  <2>2. CASE n > 0
    <3>1. Whole(score', n) /\ (conf.goals = "halves" => Halved(score', n))
      BY <1>2, <1>3, <1>5, <2>2, GoalPoints
    <3> QED
      BY <1>1, <1>2, <1>3, <2>1, <3>1, PointsAfter
  <2>3. CASE ~(n > 0)
    BY <1>1, <1>2, <1>3, <2>1, <2>3, PointsAfter
  <2> QED
    BY <2>2, <2>3
<1> QED
  BY <1>4, <1>5

LEMMA PointsDrop ==
    ASSUME PointsInv, PointsCount, conf' = conf, NEW p, NEW killer, NEW neut, NEW leaving,
           CleanupAfter(p, killer, neut, leaving), ByTeam => neut \/ conf.deathScores
    PROVE  PointsInv'
<1>0. InPlay \subseteq Balls
  BY DEF InPlay
<1>k. PICK k : k = ByTeam
  OBVIOUS
<1>1. PICK garbage \in (IF HoldsBall(p) THEN conf.garbage ELSE {NoOwner}) :
          LET bs == DroppedBy(p, killer, neut, leaving, garbage)
              fired == {b \in InPlay : ball[b].state = "carried" /\ ball[b].carrier = p}
          IN  IF fired = {} THEN ball' = bs /\ UNCHANGED score
              ELSE MayScore(bs, CHOOSE b \in fired : TRUE)
  BY DEF CleanupAfter
<1>2. PICK bs : bs = DroppedBy(p, killer, neut, leaving, garbage)
  OBVIOUS
<1>3. PICK fired : fired = {b \in InPlay : ball[b].state = "carried" /\ ball[b].carrier = p}
  OBVIOUS
<1>4. IF fired = {} THEN ball' = bs /\ UNCHANGED score ELSE MayScore(bs, CHOOSE b \in fired : TRUE)
  BY <1>1, <1>2, <1>3
<1>5. ASSUME NEW b \in Balls
      PROVE  KnowsTeam(bs[b], k) /\ (b \in fired => bs[b].state = "onmap")
  <2>1. PICK x : x = ball[b]
    OBVIOUS
  <2>2. IsBall(x) /\ KnowsTeam(x, k)
    BY <1>k, <2>1 DEF PointsInv, Owners, KnowsTeam
  <2>3. bs[b] = IF b \notin InPlay THEN x
            ELSE IF x.state = "carried" /\ x.carrier = p
              THEN [state |-> "onmap", carrier |-> IF neut \/ leaving THEN NoPlayer ELSE p,
                    freq |-> garbage, prev |-> p,
                    killer |-> IF conf.killerIgnoresDelay THEN killer ELSE NoPlayer]
              ELSE [x EXCEPT !.killer = IF x.killer = p THEN NoPlayer ELSE x.killer,
                             !.prev = IF leaving /\ @ = p THEN NoPlayer ELSE @,
                             !.carrier = IF neut /\ @ = p THEN NoPlayer ELSE @]
    BY <1>2, <2>1 DEF DroppedBy
  <2>4. CASE b \notin InPlay
    BY <1>3, <2>2, <2>3, <2>4
  <2>5. CASE b \in InPlay /\ x.state = "carried" /\ x.carrier = p
    <3>1. PICK c, m : /\ c = IF neut \/ leaving THEN NoPlayer ELSE p
                      /\ m = IF conf.killerIgnoresDelay THEN killer ELSE NoPlayer
      OBVIOUS
    <3>2. bs[b] = [state |-> "onmap", carrier |-> c, freq |-> garbage, prev |-> p, killer |-> m]
      BY <2>3, <2>5, <3>1
    <3>3. ASSUME k, c # NoPlayer PROVE garbage \in Scorers
      <4>1. conf.deathScores /\ HoldsBall(p) /\ conf.steal > 0 /\ conf.goals = "corners31"
        BY <1>k, <2>1, <2>5, <3>1, <3>3 DEF HoldsBall, ByTeam
      <4> QED
        BY <1>1, <4>1 DEF PointsCount, PointsInv
    <3> QED
      BY <3>2, <3>3 DEF IsBall, KnowsTeam
  <2>6. CASE b \in InPlay /\ ~(x.state = "carried" /\ x.carrier = p)
    <3>1. PICK m, r, c : /\ m = IF x.killer = p THEN NoPlayer ELSE x.killer
                         /\ r = IF leaving /\ x.prev = p THEN NoPlayer ELSE x.prev
                         /\ c = IF neut /\ x.carrier = p THEN NoPlayer ELSE x.carrier
      OBVIOUS
    <3>2. bs[b] = [state |-> x.state, carrier |-> c, freq |-> x.freq, prev |-> r, killer |-> m]
      BY <2>2, <2>3, <2>6, <3>1 DEF IsBall
    <3>3. (c = x.carrier \/ c = NoPlayer) /\ b \notin fired
      BY <1>3, <2>1, <2>6, <3>1
    <3> QED
      BY <2>2, <3>2, <3>3 DEF IsBall, KnowsTeam
  <2> QED
    BY <2>4, <2>5, <2>6
<1>6. bs = [b \in Balls |-> bs[b]]
  BY <1>2 DEF DroppedBy
<1>7. Owners(bs, ByTeam)
  BY <1>5, <1>6, <1>k DEF Owners
<1>9. CASE fired = {}
  <2>1. ball' = bs /\ UNCHANGED score
    BY <1>4, <1>9
  <2>2. Owners(ball', k) /\ conf \in Configs
    BY <1>7, <1>k, <2>1 DEF PointsInv
  <2>3. PICK n : n = conf.steal
    OBVIOUS
  <2>4. n > 0 => Whole(score', n) /\ (conf.goals = "halves" => Halved(score', n))
    BY <2>1, <2>3 DEF PointsInv
  <2> QED
    BY <1>k, <2>2, <2>3, <2>4, PointsAfter
<1>10. CASE fired # {}
  <2>1. PICK b \in fired : MayScore(bs, b)
    BY <1>4, <1>10
  <2>2. b \in Balls /\ bs[b].state = "onmap" /\ KnowsTeam(bs[b], k)
    BY <1>0, <1>3, <1>5, <2>1
  <2>3. ByTeam /\ bs[b].carrier # NoPlayer => bs[b].freq \in Scorers
    BY <1>k, <2>2 DEF KnowsTeam
  <2> QED
    BY <1>7, <2>1, <2>2, <2>3, PointsScored DEF MayScore
<1> QED
  BY <1>9, <1>10

\* Balls are laid down, taken or given: nobody scores.
LEMMA PointsStay ==
    ASSUME PointsInv, conf' \in Configs, conf'.steal = conf.steal, conf'.goals = conf.goals, score' = score,
           ball' = [b \in Balls |-> ball'[b]],
           \A b \in Balls : ball'[b] = ball[b] \/ (IsBall(ball'[b]) /\ (ball'[b].state # "onmap" \/ ball'[b].carrier = NoPlayer))
    PROVE  PointsInv'
<1>1. PICK k : k = ByTeam
  OBVIOUS
<1>2. PICK n : n = conf.steal
  OBVIOUS
<1>3. \A b \in Balls : KnowsTeam(ball'[b], k)
  BY <1>1 DEF PointsInv, Owners, KnowsTeam
<1>4. Owners(ball', k)
  BY <1>3 DEF Owners
<1>5. n > 0 => Whole(score', n) /\ (conf.goals = "halves" => Halved(score', n))
  BY <1>2 DEF PointsInv
<1> QED
  BY <1>1, <1>2, <1>4, <1>5, PointsAfter

LEMMA LaidBalls ==
    \A x : IsBall(x) =>
        /\ IsBall(Spawned(x)) /\ Spawned(x).carrier = NoPlayer
        /\ IsBall(Phased(x)) /\ Phased(x).carrier = NoPlayer
        /\ IsBall([Phased(x) EXCEPT !.state = "waiting"]) /\ [Phased(x) EXCEPT !.state = "waiting"].carrier = NoPlayer
        /\ \A p : IsBall(Placed(x, "carried", p)) /\ Placed(x, "carried", p).state = "carried"
<1>1. ASSUME NEW x, IsBall(x), NEW p
      PROVE  /\ IsBall(Spawned(x)) /\ Spawned(x).carrier = NoPlayer
             /\ IsBall(Placed(x, "carried", p)) /\ Placed(x, "carried", p).state = "carried"
  BY DEF IsBall, Spawned, Placed
<1>2. ASSUME NEW x, IsBall(x)
      PROVE  /\ IsBall(Phased(x)) /\ Phased(x).carrier = NoPlayer
             /\ IsBall([Phased(x) EXCEPT !.state = "waiting"]) /\ [Phased(x) EXCEPT !.state = "waiting"].carrier = NoPlayer
  BY <1>2, PhasedBall DEF IsBall
<1> QED
  BY <1>1, <1>2

LEMMA BallsAreLaid ==
    ASSUME NEW bs, NEW cs, \A b \in Balls : IsBall(bs[b]),
           \A b \in Balls : cs[b] \in {bs[b], Phased(bs[b]), Spawned(bs[b]), [Phased(bs[b]) EXCEPT !.state = "waiting"]}
    PROVE  \A b \in Balls : cs[b] = bs[b] \/ (IsBall(cs[b]) /\ cs[b].carrier = NoPlayer)
<1>1. ASSUME NEW b \in Balls PROVE cs[b] = bs[b] \/ (IsBall(cs[b]) /\ cs[b].carrier = NoPlayer)
  <2>1. PICK x : x = bs[b]
    OBVIOUS
  <2>2. IsBall(x)
    BY <2>1
  <2>3. PICK y : y = cs[b]
    OBVIOUS
  <2>4. y \in {x, Phased(x), Spawned(x), [Phased(x) EXCEPT !.state = "waiting"]}
    BY <2>1, <2>3
  <2>l. /\ IsBall(Spawned(x)) /\ Spawned(x).carrier = NoPlayer
        /\ IsBall(Phased(x)) /\ Phased(x).carrier = NoPlayer
        /\ IsBall([Phased(x) EXCEPT !.state = "waiting"]) /\ [Phased(x) EXCEPT !.state = "waiting"].carrier = NoPlayer
    BY <2>2, LaidBalls
  <2>5. y = x \/ (IsBall(y) /\ y.carrier = NoPlayer)
    BY <2>4, <2>l, Zenon
  <2> QED
    BY <2>1, <2>3, <2>5
<1> QED
  BY <1>1, Zenon

LEMMA PointsPlay ==
    ASSUME PointsInv, PointsCount, ShipsScore, PlayBalls
    PROVE  PointsInv'
<1>0. InPlay \subseteq Balls /\ \A b \in Balls : IsBall(ball[b])
  BY DEF InPlay, PointsInv, Owners, KnowsTeam
<1>b. ball = [b \in Balls |-> ball[b]] /\ conf \in Configs /\ Owners(ball, ByTeam)
  BY DEF PointsInv, Owners
<1>c. conf' = conf
  BY DEF PlayBalls, PPickupBall, PFireBall, PGoal, TakeBall, BasicBallTimer, BallCommand
\* One ball is changed.
<1>o. ASSUME NEW b \in InPlay, NEW y, IsBall(y), y.state # "onmap" \/ y.carrier = NoPlayer, ball' = [ball EXCEPT ![b] = y],
             score' = score
      PROVE  PointsInv'
  <2>1. ball' = [c \in Balls |-> IF c = b THEN y ELSE ball[c]]
    BY <1>0, <1>b, <1>o
  <2>2. ball' = [c \in Balls |-> ball'[c]] /\ \A c \in Balls : ball'[c] = ball[c] \/ ball'[c] = y
    BY <2>1
  <2> QED
    BY <1>b, <1>c, <1>o, <2>2, PointsStay
<1>s. ASSUME ball' = ball, score' = score PROVE PointsInv'
  BY <1>b, <1>c, <1>s, PointsStay
<1>1. ASSUME NEW p \in Humans, NEW b \in Balls, PPickupBall(p, b) PROVE PointsInv'
  BY <1>1, <1>s DEF PPickupBall, ballvars
<1>2. ASSUME NEW p \in Humans, NEW b \in Balls, PFireBall(p, b) PROVE PointsInv'
  <2>1. /\ p \in Playing /\ InShip(p) /\ b \in InPlay
        /\ MayScore([ball EXCEPT ![b] = [@ EXCEPT !.state = "onmap", !.freq = freq[p],
                                                  !.prev = p, !.killer = NoPlayer]], b)
    BY <1>2 DEF PFireBall
  <2>2. PICK x : x = ball[b]
    OBVIOUS
  <2>3. PICK f : f = freq[p]
    OBVIOUS
  <2>4. PICK y : y = [x EXCEPT !.state = "onmap", !.freq = f, !.prev = p, !.killer = NoPlayer]
    OBVIOUS
  <2>5. PICK bs : bs = [ball EXCEPT ![b] = y]
    OBVIOUS
  <2>6. MayScore(bs, b)
    BY <2>1, <2>2, <2>3, <2>4, <2>5
  <2>7. IsBall(x)
    BY <1>0, <2>2
  <2>8. IsBall(y) /\ y.freq = f
    BY <2>4, <2>7 DEF IsBall
  <2>9. ByTeam => f \in Scorers
    BY <2>1, <2>3 DEF ShipsScore, ByTeam
  <2>10. bs = [c \in Balls |-> IF c = b THEN y ELSE ball[c]]
    BY <1>b, <2>5
  <2>11. PICK k : k = ByTeam
    OBVIOUS
  <2>12. \A c \in Balls : KnowsTeam(bs[c], k)
    BY <1>b, <2>8, <2>9, <2>10, <2>11 DEF Owners, KnowsTeam
  <2>13. Owners(bs, ByTeam) /\ bs[b] = y
    BY <2>10, <2>11, <2>12 DEF Owners
  <2> QED
    BY <1>c, <2>6, <2>8, <2>9, <2>13, PointsScored DEF MayScore
<1>3. ASSUME NEW p \in Humans, NEW b \in Balls, PGoal(p, b) PROVE PointsInv'
  <2>1. /\ ball[b].state = "onmap" /\ ball[b].carrier = p /\ \E g \in Goals : HandleGoal(ball, b, g)
    BY <1>3 DEF PGoal
  <2>2. p # NoPlayer
    BY GameAssumption
  <2>3. ByTeam => ball[b].freq \in Scorers
    BY <1>b, <2>1, <2>2 DEF Owners, KnowsTeam
  <2> QED
    BY <1>b, <1>c, <2>1, <2>2, <2>3, PointsScored
<1>4. ASSUME NEW t \in Threads, TakeBall(t) PROVE PointsInv'
  <2>1. PICK p, b : p = Head(doing[t]).p /\ b = Head(doing[t]).ball
    OBVIOUS
  <2>2. PICK f : f = freq[p]
    OBVIOUS
  <2>3. PICK y : y = [state |-> "carried", carrier |-> p, freq |-> f, prev |-> ball[b].carrier, killer |-> NoPlayer]
    OBVIOUS
  <2>4. score' = score /\ (ball' = ball \/ (b \in InPlay /\ ball' = [ball EXCEPT ![b] = y]))
    <3>1. score' = score
      BY <1>4 DEF TakeBall
    <3>2. ball' = IF b \notin InPlay \/ ball[b].state # "onmap" \/ HoldsBall(p) THEN ball
                  ELSE [ball EXCEPT ![b] = [state |-> "carried", carrier |-> p, freq |-> freq[p],
                                            prev |-> @.carrier, killer |-> NoPlayer]]
      BY <1>4, <2>1 DEF TakeBall
    <3> QED
      BY <2>2, <2>3, <3>1, <3>2
  <2>5. IsBall(y) /\ y.state # "onmap"
    BY <2>3 DEF IsBall
  <2> QED
    BY <1>o, <1>s, <2>4, <2>5
<1>l. \A x : IsBall(x) =>
        /\ IsBall(Spawned(x)) /\ Spawned(x).carrier = NoPlayer
        /\ \A p : IsBall(Placed(x, "carried", p)) /\ Placed(x, "carried", p).state # "onmap"
  BY LaidBalls
<1>5. CASE BasicBallTimer
  <2>1. PICK b \in InPlay : ball' = [ball EXCEPT ![b] = Spawned(ball[b])]
    BY <1>5 DEF BasicBallTimer
  <2>2. score' = score
    BY <1>5 DEF BasicBallTimer
  <2> QED
    BY <1>0, <1>l, <1>o, <2>1, <2>2
<1>6. CASE BallCommand
  <2>1. ASSUME NEW n \in 0 .. MaxBalls, ChangeBallCount(n), score' = score PROVE PointsInv'
    <3>1. /\ ball' = [b \in Balls |-> ball'[b]]
          /\ \A b \in Balls : ball'[b] \in {ball[b], Phased(ball[b]), Spawned(ball[b]), [Phased(ball[b]) EXCEPT !.state = "waiting"]}
      BY <2>1 DEF ChangeBallCount
    <3>2. \A b \in Balls : ball'[b] = ball[b] \/ (IsBall(ball'[b]) /\ ball'[b].carrier = NoPlayer)
      BY <1>0, <3>1, BallsAreLaid
    <3> QED
      BY <1>b, <1>c, <2>1, <3>1, <3>2, PointsStay
  <2>3. ASSUME NEW b \in InPlay, ball' = [ball EXCEPT ![b] = Spawned(@)], score' = score PROVE PointsInv'
    BY <1>0, <1>l, <1>o, <2>3
  <2>4. ASSUME "resetgame" \in conf.commands, conf.goals # "all", ball' = Ended(ball), score' = ResetScores(score) PROVE PointsInv'
    <3>1. PICK k : k = ByTeam
      OBVIOUS
    <3>2. PICK n : n = conf.steal
      OBVIOUS
    <3>3. /\ ball' = [b \in Balls |-> ball'[b]]
          /\ \A b \in Balls : ball'[b] \in {ball[b], Phased(ball[b]), Spawned(ball[b]), [Phased(ball[b]) EXCEPT !.state = "waiting"]}
      BY <2>4 DEF Ended
    <3>4. \A b \in Balls : ball'[b] = ball[b] \/ (IsBall(ball'[b]) /\ ball'[b].carrier = NoPlayer)
      BY <1>0, <3>3, BallsAreLaid
    <3>5. \A b \in Balls : KnowsTeam(ball'[b], k)
      BY <1>b, <3>1, <3>4 DEF Owners, KnowsTeam
    <3>6. Owners(ball', k)
      BY <3>3, <3>5 DEF Owners
    <3>7. ASSUME n > 0 PROVE Whole(score', n) /\ Halved(score', n)
      <4>1. n \in Nat /\ DOMAIN score = Places
        BY <1>b, <3>2, <3>7 DEF PointsCount, PointsInv, Whole
      <4>2. score' = [f \in Places |-> IF f \in Scorers THEN n ELSE score[f]]
        BY <2>4, <3>2, <4>1 DEF ResetScores
      <4> QED
        BY <3>7, <4>1, <4>2, ScoresLevel
    <3> QED
      BY <1>b, <1>c, <3>1, <3>2, <3>6, <3>7, PointsAfter
  <2>5. ASSUME NEW p \in Humans \cap Playing, NEW b \in InPlay, score' = score,
               LET held == {c \in InPlay : ball[c].state = "carried" /\ ball[c].carrier = p}
                   laid == [c \in Balls |-> IF c \in held THEN Spawned(ball[c]) ELSE ball[c]]
               IN  ball' = [laid EXCEPT ![b] = Placed(@, "carried", p)]
        PROVE  PointsInv'
    <3>0. PICK held : held = {c \in InPlay : ball[c].state = "carried" /\ ball[c].carrier = p}
      OBVIOUS
    <3>1. PICK laid : laid = [c \in Balls |-> IF c \in held THEN Spawned(ball[c]) ELSE ball[c]]
      OBVIOUS
    <3>2. ball' = [c \in Balls |-> IF c = b THEN Placed(laid[b], "carried", p) ELSE laid[c]]
      <4>1. ball' = [laid EXCEPT ![b] = Placed(@, "carried", p)]
        BY <2>5, <3>0, <3>1
      <4> QED
        BY <3>1, <4>1
    <3>3. \A c \in Balls : laid[c] = ball[c] \/ laid[c] = Spawned(ball[c])
      BY <3>1
    <3>4. \A c \in Balls : IsBall(laid[c]) /\ (laid[c] = ball[c] \/ laid[c].carrier = NoPlayer)
      BY <1>0, <1>l, <3>3
    <3>5. \A c \in Balls : ball'[c] = ball[c] \/ (IsBall(ball'[c]) /\ (ball'[c].state # "onmap" \/ ball'[c].carrier = NoPlayer))
      BY <1>0, <1>l, <3>2, <3>4
    <3> QED
      BY <1>b, <1>c, <2>5, <3>2, <3>5, PointsStay
  <2> QED
    BY <1>6, <2>1, <2>3, <2>4, <2>5 DEF BallCommand
<1> QED
  BY <1>1, <1>2, <1>3, <1>4, <1>5, <1>6 DEF PlayBalls

LEMMA PointsNext ==
    ASSUME PointsInv, PointsCount, ScoresSettled, ShipsScore, [Next]_vars
    PROVE  PointsInv'
<1>b. ball = [b \in Balls |-> ball[b]] /\ conf \in Configs /\ \A b \in Balls : IsBall(ball[b])
  BY DEF PointsInv, Owners, KnowsTeam
<1>s. ASSUME UNCHANGED <<conf, ball, score>> PROVE PointsInv'
  BY <1>b, <1>s, PointsStay
<1>d. ASSUME NEW p, NEW leaving, CleanupAfter(p, NoPlayer, TRUE, leaving), conf' = conf PROVE PointsInv'
  <2>1. PICK neut : neut = TRUE
    OBVIOUS
  <2> QED
    BY <1>d, <2>1, PointsDrop
<1>1. CASE UNCHANGED vars
  BY <1>1, <1>s DEF vars
<1>2. CASE Come
  BY <1>2, <1>s DEF Come, PreEnter, Synced, Enter, ballvars
<1>3. CASE Go
  <2>1. ASSUME NEW p \in Humans, LeaveCallbacks(p) PROVE PointsInv'
    BY <1>d, <2>1 DEF LeaveCallbacks, BallsLeave
  <2>2. ASSUME NEW p \in Humans, Leave(p) \/ GiveUp(p) \/ GoAway(p) PROVE PointsInv'
    BY <1>s, <2>2 DEF Leave, GiveUp, GoAway, ballvars
  <2> QED
    BY <1>3, <2>1, <2>2 DEF Go
<1>4. CASE EnterCallbacks
  BY <1>4, <1>s DEF EnterCallbacks, ballvars
<1>5. CASE RunChange
  <2>1. PICK p : p = Head(queue).p
    OBVIOUS
  <2>2. conf' = conf /\ IF p \in InArena THEN CleanupAfter(p, NoPlayer, TRUE, FALSE) ELSE UNCHANGED ballvars
    BY <1>5, <2>1 DEF RunChange, BallsChange
  <2> QED
    BY <1>d, <1>s, <2>2 DEF ballvars
<1>6. CASE EndFakeInMain
  BY <1>6, <1>s DEF EndFakeInMain, ballvars
<1>7. CASE ConfChanged
  <2>1. PICK c \in Configs : c.name = conf.name /\ conf' = c /\ BallsConfChanged(c)
    BY <1>7 DEF ConfChanged
  <2>2. c.steal = conf.steal /\ c.goals = conf.goals
    BY <1>b, <2>1 DEF ScoresSettled
  <2>3. CASE UNCHANGED ballvars
    BY <1>b, <2>1, <2>2, <2>3, PointsStay DEF ballvars
  <2>4. CASE ChangeBallCount(c.balls) /\ UNCHANGED <<overridden, score>>
    <3>1. /\ ball' = [b \in Balls |-> ball'[b]]
          /\ \A b \in Balls : ball'[b] \in {ball[b], Phased(ball[b]), Spawned(ball[b]), [Phased(ball[b]) EXCEPT !.state = "waiting"]}
      BY <2>4 DEF ChangeBallCount
    <3>2. \A b \in Balls : ball'[b] = ball[b] \/ (IsBall(ball'[b]) /\ ball'[b].carrier = NoPlayer)
      BY <1>b, <3>1, BallsAreLaid
    <3> QED
      BY <2>1, <2>2, <2>4, <3>1, <3>2, PointsStay
  <2> QED
    BY <2>1, <2>3, <2>4 DEF BallsConfChanged
<1>8. ASSUME NEW p \in Humans, NEW killer \in Players, NEW fired \in BOOLEAN, PDie(p, killer, fired) PROVE PointsInv'
  <2>1. conf' = conf /\ IF Attached("balls") THEN CleanupAfter(p, killer, ~conf.deathScores, FALSE) ELSE UNCHANGED ballvars
    BY <1>8 DEF PDie, BallsKill
  <2>2. CASE Attached("balls")
    <3>1. PICK neut : neut = ~conf.deathScores
      OBVIOUS
    <3>2. neut \/ conf.deathScores
      BY <3>1
    <3> QED
      BY <2>1, <2>2, <3>1, <3>2, PointsDrop
  <2>3. CASE ~Attached("balls")
    BY <1>s, <2>1, <2>3 DEF ballvars
  <2> QED
    BY <2>2, <2>3
<1>c. ASSUME UNCHANGED ballvars, UNCHANGED conf PROVE PointsInv'
  BY <1>c, <1>s DEF ballvars
<1>9. CASE Play
  <2>1. UNCHANGED conf
    <3>1. ASSUME NEW t \in Threads, GameStep(t) PROVE UNCHANGED conf
      BY <3>1 DEF GameStep, ReadOld, SetNew, CallBack, SetLock, Watch
    <3>2. ASSUME NEW t \in Threads, Command(t) \/ ArenaLockCommand(t) PROVE UNCHANGED conf
      BY <3>2 DEF Command, ArenaLockCommand
    <3>3. ASSUME NEW p \in Humans,
                 \/ \E s \in Ships \cup {SHIP_SPEC} : PSetShip(p, s)
                 \/ \E f \in conf.freqs : PSetFreq(p, f)
                 \/ \E q \in Players \cup {NoPlayer} : PSpecRequest(p, q)
                 \/ Ack(p) \/ PMapRequest(p) \/ SpecForLag(p)
          PROVE  UNCHANGED conf
      BY <3>3 DEF PSetShip, PSetFreq, PSpecRequest, Ack, PMapRequest, SpecForLag
    <3>4. ASSUME NEW p \in Fakes, CreateFakePlayer(p) \/ EndFaked(p) PROVE UNCHANGED conf
      BY <3>4 DEF CreateFakePlayer, EndFaked
    <3> QED
      BY <1>9, <3>1, <3>2, <3>3, <3>4 DEF Play
  <2> QED
    BY <1>9, <1>c, <2>1 DEF Play
<1>10. CASE PlayFlags
  BY <1>10, <1>c DEF PlayFlags, PFlagTimer, PFlagTouch, TouchFlag, SpawnTimer, CheckWin, FlagResetCommand
<1>11. CASE PlayBalls
  BY <1>11, PointsPlay
<1>12. CASE PlayKoth
  BY <1>12, <1>c DEF PlayKoth, CheckKoth, ResetKoth, PKothExpired
<1>13. CASE PlayOwners
  BY <1>13, <1>c DEF PlayOwners, TakeOwnership, KickTimer, GiveOwner, FreqKick
<1> QED
  BY <1>1, <1>2, <1>3, <1>4, <1>5, <1>6, <1>7, <1>8, <1>9, <1>10, <1>11, <1>12, <1>13 DEF Next

LEMMA PointsBegin == PointsCount /\ Init => PointsInv
<1> SUFFICES ASSUME PointsCount, Init PROVE PointsInv
  OBVIOUS
<1>1. conf \in Configs /\ BallsInit
  BY DEF Init
<1>2. Owners(ball, ByTeam)
  <2>1. \A b \in Balls : KnowsTeam(ball[b], ByTeam)
    BY <1>1 DEF BallsInit, KnowsTeam, IsBall
  <2> QED
    BY <1>1, <2>1 DEF BallsInit, Owners
<1>3. ASSUME conf.steal > 0 PROVE Whole(score, conf.steal) /\ Halved(score, conf.steal)
  <2>1. PICK n : n = conf.steal
    OBVIOUS
  <2>2. PICK s : s = [f \in Places |-> conf.winBy]
    OBVIOUS
  <2>3. score = [f \in Places |-> IF f \in Scorers THEN n ELSE s[f]]
    <3>1. score = [f \in Places |-> IF f = -1 THEN conf.winBy ELSE n]
      BY <1>1, <2>1 DEF BallsInit, Places
    <3>2. \A f \in Places : f \in Scorers <=> f # -1
      BY BallsAssumption DEF Places, Scorers
    <3> QED
      BY <2>2, <3>1, <3>2
  <2>4. n \in Nat /\ n > 0
    BY <1>1, <1>3, <2>1 DEF PointsCount
  <2> QED
    BY <2>1, <2>3, <2>4, ScoresLevel
<1> QED
  BY <1>1, <1>2, <1>3 DEF PointsInv

\* The inductive invariant: no point is lost, with two halves neither has none, and a ball that lies on the
\* map with the name of a player knows a team to score for.
THEOREM PointsInvariant ==
    ASSUME PointsCount, ScoresSettled
    PROVE  Spec /\ []ShipsScore => []PointsInv
<1>1. PointsInv /\ ShipsScore /\ [Next]_vars => PointsInv'
  BY PointsNext
<1>2. Init => PointsInv
  BY PointsBegin
<1> QED
  BY <1>1, <1>2, PTL DEF Spec

\* "When you make a goal, the points get transferred to your goal/team" (points_goal.c:177): whatever goals
\* players make, die over or leave, and however threads interleave, where points are stolen none is lost and no
\* score is negative.
THEOREM PointsStayWhole ==
    ASSUME PointsCount, ScoresSettled
    PROVE  Spec /\ []ShipsScore => []PointsAreTransferred
<1>1. ASSUME PointsInv PROVE PointsAreTransferred
  <2>1. ASSUME conf.steal > 0
        PROVE  /\ \A f \in Scorers : score[f] >= 0
               /\ FoldFunctionOnSet(LAMBDA x, y : x + y, 0, score, Scorers) = conf.steal * MaxFreq
    <3>1. (\A f \in Scorers : score[f] \in Nat) /\ Total(0, score, Scorers) = conf.steal * MaxFreq
      BY <1>1, <2>1 DEF PointsInv, Whole
    <3>2. FoldFunctionOnSet(LAMBDA x, y : x + y, 0, score, Scorers) = Total(0, score, Scorers)
      BY DEF FoldFunctionOnSet, Total, MapThenFoldSet
    <3>3. PICK n : n = FoldFunctionOnSet(LAMBDA x, y : x + y, 0, score, Scorers)
      OBVIOUS
    <3>4. n = conf.steal * MaxFreq
      BY <3>1, <3>2, <3>3, Zenon
    <3>5. \A f \in Scorers : score[f] >= 0
      BY <3>1
    <3> QED
      BY <3>3, <3>4, <3>5, Zenon
  <2> QED
    BY <2>1, Zenon DEF PointsAreTransferred
<1> QED
  BY <1>1, PointsInvariant, PTL
=============================================================================
