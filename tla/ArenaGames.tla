----------------------------- MODULE ArenaGames ------------------------------
(***************************************************************************)
(* An arena with the modules of its configuration: players come and go     *)
(* (core.c), change ship and frequency, kill each other, and the modules   *)
(* follow through CB_PLAYERACTION, CB_SHIPFREQCHANGE and CB_KILL.          *)
(***************************************************************************)
EXTENDS FlagCore, Balls, Koth

----------------------------------------------------------------------------
(* Ownership of private frequencies: freqowners.c.                        *)

VARIABLES
    owns,  \* OWNSFREQ
    kicks  \* the players a kick_timer is set for

ownervars == <<owns, kicks>>

OwnerAllowed(f) == f >= conf.firstPrivate /\ f # SpecFreq

\* count_freq.
Others(p, f) == {q \in InArena \ {p} : freq[q] = f}

\* Cgiveowner.
GiveOwner(p, q) ==
    /\ Attached("freqowners") /\ MayRun("net") /\ p \in owns \cap Humans \cap Playing
    /\ q \in Playing \ owns /\ freq[q] = freq[p]
    /\ owns' = owns \cup {q}
    /\ UNCHANGED <<conf, status, ship, freq, teamvars, gamevars, flagvars, kicks, queue, doing,
                   crashed>>

\* Ctakeownership.
TakeOwnership(p) ==
    /\ Attached("freqowners") /\ MayRun("net") /\ p \in (Humans \cap Playing) \ owns
    /\ OwnerAllowed(freq[p]) /\ Others(p, freq[p]) \cap owns = {}
    /\ owns' = owns \cup {p}
    /\ UNCHANGED <<conf, status, ship, freq, teamvars, gamevars, flagvars, kicks, queue, doing,
                   crashed>>

\* Cfreqkick.
FreqKick(p, q) ==
    /\ Attached("freqowners") /\ MayRun("net") /\ p \in owns \cap Humans \cap Playing
    /\ q \in (Playing \cap Humans) \ owns /\ freq[q] = freq[p]
    /\ kicks' = kicks \cup {q}
    /\ UNCHANGED <<conf, status, ship, freq, teamvars, gamevars, flagvars, owns, queue, doing,
                   crashed>>

\* kick_timer, KICKDELAY later.
KickTimer(p) ==
    /\ p \in kicks /\ Room /\ MayRun("main")
    /\ kicks' = kicks \ {p}
    /\ Begin("main", <<Ask(p, "both", SHIP_SPEC, SpecFreq)>>)
    /\ UNCHANGED <<conf, status, ship, freq, teamvars, gamevars, flagvars, owns, queue, crashed>>

\* Mistaken variant: the timers of who leaves are not cleared.
KicksStay(p) == owns' = owns \ {p} /\ UNCHANGED kicks

\* MyPA.
OwnersEnterLeave(p) == owns' = owns \ {p} /\ kicks' = kicks \ {p}

\* MyShipFreqCh.
OwnersChange(p, f) ==
    /\ owns' = IF Attached("freqowners") /\ OwnerAllowed(f) /\ Others(p, f) = {}
                 THEN owns \cup {p} ELSE owns \ {p}
    /\ kicks' = kicks \ {p}

----------------------------------------------------------------------------
(* The arena.                                                              *)

vars == <<conf, status, ship, freq, teams, team, changing, locked, timed, arenaLock, watching, epd,
          deaths, queue, doing, crashed, flag, carried, current, neuts, winTimer, ball, ballCount,
          overridden, score, crown, hadCrown, crownDeaths, crownKills, owns, kicks>>

Init ==
    /\ conf \in Configs
    /\ status = [p \in Players |-> "away"]
    /\ ship = [p \in Players |-> -1] /\ freq = [p \in Players |-> -1]
    /\ teams = [f \in 0 .. conf.remembered - 1 |-> NewTeam(f, conf)]
    /\ team = [p \in Humans |-> NoTeam]
    /\ changing = {} /\ locked = {} /\ timed = {} /\ arenaLock = {}
    /\ watching = [p \in Humans |-> NoPlayer]
    /\ epd = [p \in Players |-> 0] /\ deaths = [p \in Players |-> 0]
    /\ queue = <<>> /\ doing = [t \in Threads |-> <<>>] /\ crashed = FALSE
    /\ flag = [i \in Flags |-> IF IsTurf THEN OnMap(NoFreq) ELSE None(NoFreq)]
    /\ carried = [p \in Players |-> 0]
    /\ current = 0 /\ neuts = {} /\ winTimer = FALSE
    /\ BallsInit /\ KothInit /\ owns = {} /\ kicks = {}

----------------------------------------------------------------------------
(* The login queue of main, and what starts it.                            *)

\* S_DO_FREQ_AND_ARENA_SYNC: PA_PREENTERARENA, then Initial with the ship asked for.
PreEnter(p) ==
    /\ MayRun("main") /\ p \in Humans /\ status[p] = "away"
    /\ status' = [status EXCEPT ![p] = "entering"]
    /\ GamePreEnter(p) /\ TeamsPreEnter(p)
    /\ \E wanted \in Ships \cup {SHIP_SPEC}, lagged \in BOOLEAN, early \in Early, grace \in Grace :
          LET place == IF "spec" \in arenaLock THEN <<SHIP_SPEC, SpecFreq>>
                       ELSE Initial(p, wanted, CanEnterGame(lagged), early, grace)
          IN  /\ ship' = [ship EXCEPT ![p] = place[1]]
              /\ freq' = [freq EXCEPT ![p] = place[2]]
    /\ UNCHANGED <<conf, flagvars, wzvars, ballvars, kothvars, ownervars, queue, doing, crashed>>

\* The database thread has his data.
Synced(p) ==
    /\ ~crashed /\ status[p] = "entering"
    /\ status' = [status EXCEPT ![p] = "synced"]
    /\ SetData(p)
    /\ UNCHANGED <<conf, teamvars, changing, arenaLock, watching, epd, deaths, flagvars, wzvars,
                   ballvars, kothvars, ownervars, queue, doing, crashed>>

\* S_ARENA_RESP_AND_CBS: the status is S_PLAYING before the callbacks are called.
Enter(p) ==
    /\ MayRun("main") /\ status[p] = "synced"
    /\ status' = [status EXCEPT ![p] = "arriving"]
    /\ Begin("main", <<[do |-> "enter", p |-> p]>>)
    /\ UNCHANGED <<conf, ship, freq, teamvars, gamevars, flagvars, wzvars, ballvars, kothvars,
                   ownervars, queue, crashed>>

\* PA_ENTERARENA.
EnterCallbacks ==
    /\ At("main", "enter")
    /\ LET p == Head(doing["main"]).p
       IN  /\ status' = [status EXCEPT ![p] = IF @ = "arriving" THEN "playing" ELSE @]
           /\ TeamsEnter(p) /\ GameEnter(p) /\ FlagsEnter(p) /\ KothEnterLeave(p)
           /\ OwnersEnterLeave(p)
    /\ Done("main", <<>>)
    /\ UNCHANGED <<conf, ship, freq, ballvars, queue>>

\* LeaveArena, by whatever thread.
Leave(p) ==
    /\ MayRun("net") /\ p \in Humans /\ status[p] = "playing"
    /\ status' = [status EXCEPT ![p] = "leaving"]
    /\ UNCHANGED <<conf, ship, freq, teamvars, gamevars, flagvars, wzvars, ballvars, kothvars,
                   ownervars, queue, doing, crashed>>

\* S_LEAVING_ARENA: PA_LEAVEARENA.
LeaveCallbacks(p) ==
    /\ MayRun("main") /\ status[p] = "leaving"
    /\ status' = [status EXCEPT ![p] = "left"]
    /\ TeamsLeave(p) /\ GameLeave(p) /\ FlagsLeave(p) /\ BallsLeave(p) /\ KothEnterLeave(p)
    /\ OwnersEnterLeave(p)
    /\ UNCHANGED <<conf, ship, freq, queue, doing>>

\* He gives up before he is in: no callbacks.
GiveUp(p) ==
    /\ MayRun("net") /\ status[p] \in {"entering", "synced"}
    /\ status' = [status EXCEPT ![p] = "left"]
    /\ UNCHANGED <<conf, ship, freq, teamvars, gamevars, flagvars, wzvars, ballvars, kothvars,
                   ownervars, queue, doing, crashed>>

\* S_WAIT_ARENA_SYNC2: p->arena is NULL; what was queued for him has been run, main
\* having gone through its loop since.
GoAway(p) ==
    /\ MayRun("main") /\ p \in Humans /\ status[p] = "left"
    /\ \A i \in DOMAIN queue : queue[i].p # p
    /\ status' = [status EXCEPT ![p] = "away"]
    /\ ship' = [ship EXCEPT ![p] = -1] /\ freq' = [freq EXCEPT ![p] = -1]
    /\ changing' = changing \ {p}
    /\ UNCHANGED <<conf, teamvars, locked, timed, arenaLock, watching, epd, deaths, flagvars,
                   wzvars, ballvars, kothvars, ownervars, queue, doing, crashed>>

----------------------------------------------------------------------------
(* What is queued for main.                                                *)

\* run_shipfreqchange_cb.
RunChange ==
    /\ MayRun("main") /\ queue # <<>> /\ Head(queue).do = "change"
    /\ queue' = Tail(queue)
    /\ LET c == Head(queue)
           p == c.p
       IN  IF p \in InArena
             THEN /\ FlagsChange(p) /\ BallsChange(p) /\ OwnersChange(p, c.newfreq)
                  /\ IF c.newship = SHIP_SPEC THEN KothChange(p) ELSE UNCHANGED kothvars
             ELSE UNCHANGED <<flagvars, wzvars, ballvars, ownervars, kothvars>>
    /\ UNCHANGED <<conf, status, ship, freq, teamvars, gamevars, doing, crashed>>

\* end_fake_mainthread: CB_NEWPLAYER is called, PA_LEAVEARENA is not.
EndFakeInMain ==
    /\ MayRun("main") /\ queue # <<>> /\ Head(queue).do = "endfake"
    /\ queue' = Tail(queue)
    /\ LET p == Head(queue).p
       IN  /\ status' = [status EXCEPT ![p] = "away"]
           /\ ship' = [ship EXCEPT ![p] = -1] /\ freq' = [freq EXCEPT ![p] = -1]
           /\ GameFreeFake(p) /\ Cleanup(p, "other") /\ KothNew(p) /\ owns' = owns \ {p}
    /\ UNCHANGED <<conf, teamvars, ballvars, kicks, doing, crashed>>

----------------------------------------------------------------------------
(* Deaths and settings.                                                    *)

PDie(p, killer, fired) ==
    /\ fired \in conf.kills /\ Room /\ MayRun("net")
    /\ p \in Humans \cap Playing /\ killer \in Playing \ {p}
    /\ GameDie(p, fired) /\ FlagsKill(killer, p)
    /\ IF Attached("balls") THEN BallsKill(killer, p) ELSE UNCHANGED ballvars
    /\ IF Attached("koth") THEN KothKill(killer, p) ELSE UNCHANGED kothvars
    /\ UNCHANGED <<conf, status, ship, freq, teamvars, ownervars, queue, crashed>>

\* AA_CONFCHANGED.
ConfChanged ==
    /\ MayRun("main")
    /\ \E c \in Configs :
          /\ c.name = conf.name /\ c # conf
          /\ conf' = c /\ TeamsConfChanged(c) /\ BallsConfChanged(c)
    /\ UNCHANGED <<status, ship, freq, gamevars, flagvars, wzvars, kothvars, ownervars, queue,
                   doing, crashed>>

----------------------------------------------------------------------------

Come == \E p \in Humans : PreEnter(p) \/ Synced(p) \/ Enter(p)
Go == \E p \in Humans : Leave(p) \/ LeaveCallbacks(p) \/ GiveUp(p) \/ GoAway(p)

\* The actions of game, freqman and of the modules that use them.
Play ==
    /\ \/ \E t \in Threads : GameStep(t) \/ Command(t) \/ ArenaLockCommand(t)
       \/ \E p \in Humans :
             \/ \E s \in Ships \cup {SHIP_SPEC} : PSetShip(p, s)
             \/ \E f \in conf.freqs : PSetFreq(p, f)
             \/ \E q \in Players \cup {NoPlayer} : PSpecRequest(p, q)
             \/ Ack(p) \/ PMapRequest(p) \/ SpecForLag(p)
       \/ \E p \in Fakes : CreateFakePlayer(p) \/ EndFaked(p)
    /\ UNCHANGED <<wzvars, ballvars, kothvars, ownervars>>

PlayFlags ==
    /\ \/ \E p \in Humans : PFlagTimer(p) \/ \E i \in Flags : PFlagTouch(p, i)
       \/ \E t \in Threads : TouchFlag(t)
       \/ SpawnTimer \/ CheckWin \/ FlagResetCommand
    /\ UNCHANGED <<ballvars, kothvars, ownervars>>

PlayBalls ==
    /\ \/ \E p \in Humans, b \in Balls : PPickupBall(p, b) \/ PFireBall(p, b) \/ PGoal(p, b)
       \/ \E t \in Threads : TakeBall(t)
       \/ BasicBallTimer \/ BallCommand
    /\ UNCHANGED <<wzvars, kothvars, ownervars>>

PlayKoth ==
    /\ CheckKoth \/ ResetKoth \/ \E p \in Humans : PKothExpired(p)
    /\ UNCHANGED <<wzvars, ballvars, ownervars>>

PlayOwners ==
    /\ \E p \in Humans : \/ TakeOwnership(p) \/ KickTimer(p)
                         \/ \E q \in Players : GiveOwner(p, q) \/ FreqKick(p, q)
    /\ UNCHANGED <<wzvars, ballvars, kothvars>>

Next ==
    \/ Come \/ Go \/ EnterCallbacks \/ RunChange \/ EndFakeInMain \/ ConfChanged
    \/ \E p \in Humans, killer \in Players, fired \in BOOLEAN : PDie(p, killer, fired)
    \/ Play \/ PlayFlags \/ PlayBalls \/ PlayKoth \/ PlayOwners

Spec == Init /\ [][Next]_vars

----------------------------------------------------------------------------
(* Properties.                                                             *)

Settled == \A t \in Threads : doing[t] = <<>>

\* A change of p is queued for main, or some thread is about to queue it.
Changing(p) ==
    \/ \E i \in DOMAIN queue : queue[i].p = p
    \/ \E t \in Threads : \E i \in DOMAIN doing[t] : doing[t][i].p = p

\* The assertion of update_freqs (freqman.c:221) never fails, nor does freqman find
\* p->arena NULL.
NoCrash == ~crashed

\* The lists of freqman and its pointers (freqman.c:56-62) agree with p_freq: whoever
\* plays is once in the list of his frequency and in no other, nobody else is in any,
\* and no list is kept that is empty and need not be remembered.
FreqListsAgree ==
    Settled =>
      /\ \A p \in Humans, f \in DOMAIN teams :
            teams[f].players[p] = IF /\ status[p] \in {"playing", "leaving"}
                                     /\ freq[p] = f /\ f # SpecFreq THEN 1 ELSE 0
      /\ \A p \in Humans : status[p] = "playing" /\ freq[p] # SpecFreq => team[p] = freq[p]
      /\ \A f \in DOMAIN teams : Count(f) > 0 \/ teams[f].remembered

\* p->pkt.flagscarried, which clients, kills and limits go by, is the number of flags
\* that flagcore has him carry.
FlagsCounted == \A p \in InArena : carried[p] = Cardinality(FlagsOf(p))

\* Whoever carries a flag is in the arena, and the flag is owned by the frequency he is
\* on; when he has changed it, CB_SHIPFREQCHANGE is to come and will take it from him.
\* (He may be a spectator, who has killed after he went there: mykill does not look.)
CarriersPlay ==
    \A i \in Flags : flag[i].state = "carried" =>
        LET p == flag[i].carrier
        IN  /\ p \in Playing \/ status[p] = "leaving"
            /\ freq[p] = flag[i].freq \/ Changing(p)

\* What check_consistency checked, before it was disabled (flagcore.c:45-80): flagcore's flags
\* and what players are said to carry agree.
FlagsAgree == FlagsCounted /\ CarriersPlay

\* Nobody carries two balls; the carrier of a ball plays; whoever is named as the last
\* to touch it, or as his killer, is in the arena ("so that the last touched pid
\* always refers to a valid player", balls.c:738).
BallsAreHeldByPlayers ==
    \A b \in InPlay :
        /\ ball[b].carrier # NoPlayer => status[ball[b].carrier] \in {"playing", "leaving"}
        /\ ball[b].killer # NoPlayer => status[ball[b].killer] \in {"playing", "leaving"}
        /\ ball[b].state = "carried" =>
              LET p == ball[b].carrier
              IN  /\ InShip(p) \/ Changing(p)
                  /\ \A c \in InPlay \ {b} : ball[c].state # "carried" \/ ball[c].carrier # p

\* "When you make a goal, the points get transferred to your goal/team"
\* (points_goal.c:177): where points are stolen none is lost, and no score is negative.
PointsAreTransferred ==
    conf.steal > 0 =>
        /\ \A f \in Scorers : score[f] >= 0
        /\ FoldFunctionOnSet(LAMBDA x, y : x + y, 0, score, Scorers) = conf.steal * MaxFreq

\* epd_queries is the number of those who watch p and see his energy.
WatchersCounted ==
    \A p \in InArena \ Fakes :
        status[p] = "playing" =>
            epd[p] = Cardinality({q \in Humans : watching[q] = p /\ SeesExtra(q)})

\* pdat->freq of freqman is never a Freq struct that has been freed, whatever threads
\* change a player at once: the struct is there, and he is in its list.
TeamPointersAlive ==
    \A p \in Humans : team[p] # NoTeam => Exists(team[p]) /\ teams[team[p]].players[p] > 0

\* When a kick_timer runs, and reads t->arena->specfreq, the player is still in the
\* arena, though he may have left in the three seconds since ?freqkick.
KickedPlayersAreHere == \A p \in kicks : status[p] \in {"playing", "leaving"}

\* Crowns do not leave the arena, and who wears one counts among those who had one when
\* he loses it: check_koth would not let him win.
CrownsStayInTheArena ==
    crown \subseteq hadCrown /\ \A p \in hadCrown : status[p] \in {"playing", "leaving"}

\* Balls, kicks and crowns are about players who are in the arena: however the leaving of
\* one, his changes and the timers follow each other, nothing names who is gone.
TheyAreHere == BallsAreHeldByPlayers /\ KickedPlayersAreHere /\ CrownsStayInTheArena
=============================================================================
