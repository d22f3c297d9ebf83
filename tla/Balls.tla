-------------------------------- MODULE Balls --------------------------------
(***************************************************************************)
(* The balls of an arena (balls.c) and the scores of soccer games          *)
(* (points_goal.c).  Positions and times are left out: a ball that lies on *)
(* the map may lie on a goal, and a client that asks for it has seen where *)
(* it is.  No module of the repository registers a balls adviser.          *)
(***************************************************************************)
EXTENDS Game

CONSTANTS
    MaxBalls,  \* MAXBALLS
    MaxFreq    \* MAXFREQ of points_goal: the frequencies that have a score

ASSUME BallsAssumption == MaxBalls \in Nat \ {0} /\ MaxFreq \in Nat /\ MaxFreq > 1

VARIABLES
    ball,       \* abd->balls, abd->previous (its carrier) and lastKiller
    ballCount,  \* abd->ballcount
    overridden, \* pbd->ballcountOverridden
    score       \* scores->score; score[-1] is the member before it, winby

ballvars == <<ball, ballCount, overridden, score>>

Balls == 0 .. MaxBalls - 1
InPlay == {b \in Balls : b < ballCount}
Scorers == 0 .. MaxFreq - 1

NoOwner == -1

\* InitBall.
Phased(b) == [b EXCEPT !.state = "onmap", !.carrier = NoPlayer]

\* PlaceBall.
Placed(b, state, p) ==
    [state |-> state, carrier |-> p, freq |-> IF p = NoPlayer THEN NoOwner ELSE freq[p],
     prev |-> b.carrier, killer |-> NoPlayer]

\* SpawnBall.
Spawned(b) == Placed(b, "onmap", NoPlayer)

\* ChangeBallCount.
ChangeBallCount(n) ==
    /\ ballCount' = n
    /\ ball' = [b \in Balls |->
           IF b \in n .. ballCount - 1 THEN Phased(ball[b])
           ELSE IF b \in ballCount .. n - 1 THEN Spawned(ball[b])
           ELSE ball[b]]

\* EndGame, for the balls bs.
Ended(bs) == [b \in Balls |->
                 IF b \in InPlay THEN [Phased(bs[b]) EXCEPT !.state = "waiting"] ELSE bs[b]]

HoldsBall(p) == \E b \in InPlay : ball[b].state = "carried" /\ ball[b].carrier = p

----------------------------------------------------------------------------
(* Goals.                                                                  *)

\* Mistaken variant: as if Soccer:GoalDelay were always 0.
ScoredAtOnce(b) == Spawned(b)

\* HandleGoal, for a ball that is on the map.
Scored(b) ==
    LET before == [b EXCEPT !.prev = b.carrier]
    IN  IF conf.goalDelay THEN [Phased(before) EXCEPT !.state = "waiting"] ELSE Spawned(before)

\* The scores after a goal for f; the tile may belong to any goal g of the map.
\* With halves of the map the goal says who scores.
Credited(f, g) ==
    CASE conf.goals = "all" -> score
      [] conf.goals = "halves" ->
            [score EXCEPT ![g] = @ + 1, ![1 - g] = IF conf.steal > 0 THEN @ - 1 ELSE @]
      [] conf.goals = "corners31" /\ conf.steal > 0 ->
            IF score[g] = 0 THEN score
            ELSE LET up == [score EXCEPT ![f] = @ + 1] IN [up EXCEPT ![g] = @ - 1]
      [] OTHER -> [score EXCEPT ![f] = @ + 1]

Best(s) == CHOOSE f \in Scorers :
               /\ \A g \in Scorers : s[g] <= s[f]
               /\ \A g \in Scorers : g < f => s[g] < s[f]

\* CheckGameOver: is the game over with the scores s?
GameOver(s) ==
    LET best == Best(s)
    IN  CASE conf.steal > 0 /\ conf.goals = "halves" -> s[1 - best] = 0
          [] conf.steal > 0 /\ conf.goals # "halves" -> Cardinality({f \in Scorers : f < 4 /\ s[f] = 0}) = 3
          [] OTHER -> /\ s[best] >= conf.goalsToWin
                      /\ Cardinality({f \in Scorers : s[f] + s[-1] <= s[best]}) = MaxFreq - 1

ResetScores(s) == [f \in DOMAIN s |-> IF f \in Scorers THEN conf.steal ELSE s[f]]

\* HandleGoal with CB_GOAL, for which points_goal has MyGoal.
HandleGoal(bs, b, g) ==
    LET after == [bs EXCEPT ![b] = Scored(@)]
        s == Credited(after[b].freq, g)
        over == conf.goals # "all" /\ GameOver(s)
        balls == IF over THEN Ended(after) ELSE after
    IN  /\ ball' = [balls EXCEPT ![b].freq = NoOwner]
        /\ score' = IF over THEN ResetScores(s) ELSE s

\* The goals of the map there are: which are there depends on the mode.
Goals == IF conf.goals = "halves" THEN {0, 1} ELSE Scorers

\* The ball b of bs is on the map; if his carrier has fired it onto a goal tile
\* the goal is not waited for.
MayScore(bs, b) ==
    \/ ball' = bs /\ UNCHANGED score
    \/ bs[b].carrier # NoPlayer /\ \E g \in Goals : HandleGoal(bs, b, g)

----------------------------------------------------------------------------
(* CleanupAfter.                                                           *)

\* The balls when p no longer has any; defaultbd.freq is not set, and may be anything.
DroppedBy(p, killer, neut, leaving, garbage) ==
    [b \in Balls |->
        LET x == ball[b]
            killed == IF x.killer = p THEN NoPlayer ELSE x.killer
        IN  IF b \notin InPlay THEN x
            ELSE IF x.state = "carried" /\ x.carrier = p
              THEN [state |-> "onmap", carrier |-> IF neut \/ leaving THEN NoPlayer ELSE p,
                    freq |-> garbage, prev |-> p,
                    killer |-> IF conf.killerIgnoresDelay THEN killer ELSE NoPlayer]
              ELSE [x EXCEPT !.killer = killed,
                             !.prev = IF leaving /\ @ = p THEN NoPlayer ELSE @,
                             !.carrier = IF neut /\ @ = p THEN NoPlayer ELSE @]]

CleanupAfter(p, killer, neut, leaving) ==
    \E garbage \in (IF HoldsBall(p) THEN conf.garbage ELSE {NoOwner}) :
        LET bs == DroppedBy(p, killer, neut, leaving, garbage)
            fired == {b \in InPlay : ball[b].state = "carried" /\ ball[b].carrier = p}
        IN  /\ IF fired = {} THEN ball' = bs /\ UNCHANGED score
               ELSE MayScore(bs, CHOOSE b \in fired : TRUE)
            /\ UNCHANGED <<ballCount, overridden>>

BallsLeave(p) == CleanupAfter(p, NoPlayer, TRUE, TRUE)
BallsChange(p) == CleanupAfter(p, NoPlayer, TRUE, FALSE)
BallsKill(killer, killed) == CleanupAfter(killed, killer, ~conf.deathScores, FALSE)

----------------------------------------------------------------------------
(* Packets.                                                                *)

\* PPickupBall, up to the lock.
PPickupBall(p, b) ==
    /\ Attached("balls") /\ MayRun("net")
    /\ p \in Humans \cap Playing /\ InShip(p) /\ b \in InPlay /\ ball[b].state = "onmap"
    /\ Begin("net", <<[do |-> "pickup", p |-> p, ball |-> b]>>)
    /\ UNCHANGED <<conf, status, ship, freq, teamvars, gamevars, flagvars, ballvars, queue, crashed>>

\* Mistaken variant: whether he has a ball is not looked at again.
TakeAnotherBall(t) ==
    /\ At(t, "pickup")
    /\ LET p == Head(doing[t]).p
           held == Head(doing[t]).ball
       IN  ball' = IF held \notin InPlay \/ ball[held].state # "onmap" THEN ball
                   ELSE [ball EXCEPT ![held] = [state |-> "carried", carrier |-> p, freq |-> freq[p],
                                             prev |-> @.carrier, killer |-> NoPlayer]]
    /\ Done(t, <<>>)
    /\ UNCHANGED <<conf, status, ship, freq, teamvars, gamevars, flagvars, ballCount, overridden,
                   score, queue, crashed>>

\* The rest of it.
TakeBall(t) ==
    /\ At(t, "pickup")
    /\ LET p == Head(doing[t]).p
           held == Head(doing[t]).ball
       IN  ball' = IF held \notin InPlay \/ ball[held].state # "onmap" \/ HoldsBall(p) THEN ball
                   ELSE [ball EXCEPT ![held] = [state |-> "carried", carrier |-> p, freq |-> freq[p],
                                             prev |-> @.carrier, killer |-> NoPlayer]]
    /\ Done(t, <<>>)
    /\ UNCHANGED <<conf, status, ship, freq, teamvars, gamevars, flagvars, ballCount, overridden,
                   score, queue, crashed>>

PFireBall(p, b) ==
    /\ Attached("balls") /\ MayRun("net")
    /\ p \in Humans \cap Playing /\ InShip(p)
    /\ b \in InPlay /\ ball[b].state = "carried" /\ ball[b].carrier = p
    /\ MayScore([ball EXCEPT ![b] = [@ EXCEPT !.state = "onmap", !.freq = freq[p],
                                              !.prev = p, !.killer = NoPlayer]], b)
    /\ UNCHANGED <<conf, status, ship, freq, teamvars, gamevars, flagvars, ballCount, overridden,
                   queue, doing, crashed>>

\* The client of whoever fired the ball sees it in a goal.
PGoal(p, b) ==
    /\ Attached("balls") /\ MayRun("net") /\ p \in Humans \cap Playing
    /\ b \in InPlay /\ ball[b].state = "onmap" /\ ball[b].carrier = p
    /\ \E g \in Goals : HandleGoal(ball, b, g)
    /\ UNCHANGED <<conf, status, ship, freq, teamvars, gamevars, flagvars, ballCount, overridden,
                   queue, doing, crashed>>

----------------------------------------------------------------------------
(* The timer, the commands and the settings.                               *)

\* BasicBallTimer: the time of a waiting ball has come.
BasicBallTimer ==
    /\ Attached("balls") /\ MayRun("main")
    /\ \E b \in InPlay : /\ ball[b].state = "waiting"
                         /\ ball' = [ball EXCEPT ![b] = Spawned(@)]
    /\ UNCHANGED <<conf, status, ship, freq, teamvars, gamevars, flagvars, ballCount, overridden,
                   score, queue, doing, crashed>>

\* ?ballcount, ?giveball, ?moveball and ?spawnball (playercmd.c), ?resetgame.
BallCommand ==
    /\ Attached("balls") /\ MayRun("net")
    /\ \/ /\ "ballcount" \in conf.commands
          /\ \E n \in 0 .. MaxBalls : ChangeBallCount(n)
          /\ overridden' = TRUE /\ UNCHANGED score
       \/ /\ "giveball" \in conf.commands
          /\ \E p \in Humans \cap Playing, b \in InPlay :
                /\ InShip(p)
                /\ LET held == {c \in InPlay : ball[c].state = "carried" /\ ball[c].carrier = p}
                       laid == [c \in Balls |-> IF c \in held THEN Spawned(ball[c]) ELSE ball[c]]
                   IN  ball' = [laid EXCEPT ![b] = Placed(@, "carried", p)]
          /\ UNCHANGED <<overridden, ballCount, score>>
       \/ /\ "moveball" \in conf.commands
          /\ \E b \in InPlay : ball' = [ball EXCEPT ![b] = Spawned(@)]
          /\ UNCHANGED <<overridden, ballCount, score>>
       \/ /\ "resetgame" \in conf.commands /\ conf.goals # "all"
          /\ ball' = Ended(ball) /\ score' = ResetScores(score)
          /\ UNCHANGED <<overridden, ballCount>>
    /\ UNCHANGED <<conf, status, ship, freq, teamvars, gamevars, flagvars, queue, doing, crashed>>

\* AABall on AA_CONFCHANGED, with the settings c.
BallsConfChanged(c) ==
    IF c.balls # ballCount /\ ~overridden
      THEN ChangeBallCount(c.balls) /\ UNCHANGED <<overridden, score>>
      ELSE UNCHANGED ballvars

\* AABall and MyAA on AA_CREATE.
BallsInit ==
    /\ ballCount = conf.balls /\ overridden = FALSE
    /\ ball = [b \in Balls |-> [state |-> "onmap", carrier |-> NoPlayer, freq |-> NoOwner,
                                prev |-> NoPlayer, killer |-> NoPlayer]]
    /\ score = [f \in -1 .. MaxFreq - 1 |-> IF f = -1 THEN conf.winBy ELSE conf.steal]
=============================================================================
