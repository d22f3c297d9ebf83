-------------------------------- MODULE Game ---------------------------------
(***************************************************************************)
(* game.c: changes of ship and frequency, locks, spectating.  SetShipAnd-  *)
(* Freq takes three steps of the thread that calls it: it reads the old    *)
(* ship and frequency, sets the new ones (with freqshipmtx), and then has  *)
(* the callbacks called and queued; what a handler has left to do is a     *)
(* sequence of such steps.                                                 *)
(***************************************************************************)
EXTENDS Teams, SequencesExt

CONSTANT MaxQueue  \* bound on the functions queued for main when a handler begins

----------------------------------------------------------------------------
(* Steps.                                                                  *)

Ask(p, how, s, f) == [do |-> "ask", p |-> p, set |-> how, ship |-> s, freq |-> f]
PutInSpec(p) == Ask(p, "spec", SHIP_SPEC, SpecFreq)
ToLock(p, value) == [do |-> "lock", p |-> p, value |-> value]
ToWatch(p, q) == [do |-> "watch", p |-> p, who |-> q]

\* Thread t goes on with these steps when it has returned from its handler so far.
Begin(t, steps) == doing' = [doing EXCEPT ![t] = steps]

\* The first step of t is done; these come in its place.
Done(t, steps) == doing' = [doing EXCEPT ![t] = steps \o Tail(@)]

At(t, what) == ~crashed /\ doing[t] # <<>> /\ Head(doing[t]).do = what

Room == Len(queue) < MaxQueue

SeesExtra(p) == p \in Staff \/ conf.specEpd

\* clear_speccing, for all of S.
ClearSpeccing(S) ==
    LET Fewer(q) == {p \in S : watching[p] = q /\ SeesExtra(p)}
    IN  /\ epd' = [q \in Players |-> LET n == epd[q] - Cardinality(Fewer(q))
                                     IN  IF n < 0 THEN 0 ELSE n]
        /\ watching' = [p \in Humans |-> IF p \in S THEN NoPlayer ELSE watching[p]]

\* SetShipAndFreq and SetFreq up to the lock: oldship and oldfreq are read.
ReadOld(t) ==
    /\ At(t, "ask")
    /\ LET act == Head(doing[t])
       IN  Done(t, IF act.set = "spec" /\ ~InShip(act.p) THEN <<>>
                   ELSE <<[do |-> "set", p |-> act.p, set |-> act.set, ship |-> act.ship,
                           freq |-> IF act.set = "ship" THEN freq[act.p] ELSE act.freq,
                           oldship |-> ship[act.p], oldfreq |-> freq[act.p]]>>)
    /\ UNCHANGED <<conf, status, ship, freq, teamvars, gamevars, flagvars, queue, crashed>>

\* The part under freqshipmtx.  (Bound: where conf.prompt, clients acknowledge at once.)
SetNew(t) ==
    /\ At(t, "set")
    /\ LET act == Head(doing[t])
           p == act.p
           s == IF act.set = "freq" THEN ship[p] ELSE act.ship
       IN  IF ship[p] = s /\ freq[p] = act.freq
             THEN Done(t, <<>>) /\ UNCHANGED <<ship, freq, changing, watching, epd>>
             ELSE /\ ship' = [ship EXCEPT ![p] = s]
                  /\ freq' = [freq EXCEPT ![p] = act.freq]
                  /\ changing' = IF p \in Fakes \/ conf.prompt THEN changing ELSE changing \cup {p}
                  /\ IF act.set = "freq" \/ p \in Fakes THEN UNCHANGED <<watching, epd>>
                     ELSE ClearSpeccing({p})
                  /\ Done(t, <<[do |-> "call", p |-> p, newship |-> s, newfreq |-> act.freq,
                                oldship |-> IF act.set = "freq" THEN s ELSE act.oldship,
                                oldfreq |-> act.oldfreq]>>)
    /\ UNCHANGED <<conf, status, teamvars, locked, timed, arenaLock, deaths, flagvars, queue,
                   crashed>>

\* CB_PRESHIPFREQCHANGE is called (freqman takes p->arena to be there), and
\* CB_SHIPFREQCHANGE is queued.
CallBack(t) ==
    /\ At(t, "call")
    /\ LET c == Head(doing[t])
       IN  IF c.p \in InArena
             THEN /\ UpdateFreqs(c.p, c.newfreq, c.oldfreq)
                  /\ queue' = Append(queue, [c EXCEPT !.do = "change"])
             ELSE crashed' = TRUE /\ UNCHANGED <<teamvars, queue>>
    /\ Done(t, <<>>)
    /\ UNCHANGED <<conf, status, ship, freq, gamevars, flagvars>>

\* lock_work, for one player, after he has been put into spec.
SetLock(t) ==
    /\ At(t, "lock")
    /\ LET act == Head(doing[t])
       IN  /\ locked' = IF act.value = "no" THEN locked \ {act.p} ELSE locked \cup {act.p}
           /\ timed' = IF act.value = "timed" THEN timed \cup {act.p} ELSE timed \ {act.p}
    /\ Done(t, <<>>)
    /\ UNCHANGED <<conf, status, ship, freq, teamvars, changing, arenaLock, watching, epd, deaths,
                   flagvars, queue, crashed>>

\* Mistaken variant: the one watched before is forgotten.
WatchAnother(t) ==
    /\ At(t, "watch")
    /\ LET act == Head(doing[t])
           new == IF act.who \in Playing /\ InShip(act.who) THEN act.who ELSE NoPlayer
       IN  /\ watching' = [watching EXCEPT ![act.p] = new]
           /\ epd' = [q \in Players |-> epd[q] + (IF q = new /\ SeesExtra(act.p) THEN 1 ELSE 0)]
    /\ Done(t, <<>>)
    /\ UNCHANGED <<conf, status, ship, freq, teamvars, changing, locked, timed, arenaLock, deaths,
                   flagvars, queue, crashed>>

\* The part of PSpecRequest under specmtx.
Watch(t) ==
    /\ At(t, "watch")
    /\ LET act == Head(doing[t])
           p == act.p
           old == watching[p]
           new == IF act.who \in Playing /\ InShip(act.who) THEN act.who ELSE NoPlayer
       IN  /\ watching' = [watching EXCEPT ![p] = new]
           /\ epd' = [q \in Players |->
                 epd[q] - (IF q = old /\ SeesExtra(p) /\ epd[q] > 0 THEN 1 ELSE 0)
                        + (IF q = new /\ SeesExtra(p) THEN 1 ELSE 0)]
    /\ Done(t, <<>>)
    /\ UNCHANGED <<conf, status, ship, freq, teamvars, changing, locked, timed, arenaLock, deaths,
                   flagvars, queue, crashed>>

GameStep(t) == ReadOld(t) \/ SetNew(t) \/ CallBack(t) \/ SetLock(t) \/ Watch(t)

----------------------------------------------------------------------------
(* Packets.                                                                *)

\* expire_lock; the time may have come.
Expire(p) ==
    \E over \in {FALSE, (p \in timed)} :
        /\ locked' = IF over THEN locked \ {p} ELSE locked
        /\ timed' = IF over THEN timed \ {p} ELSE timed

Requests(p, calls) ==
    SetToSeq({Ask(p, c.set, c.ship, c.freq) : c \in calls})

PSetShip(p, s) ==
    /\ Room /\ MayRun("net") /\ p \in Humans \cap Playing /\ p \notin changing /\ s # ship[p]
    /\ Expire(p)
    /\ \E lagged \in BOOLEAN, early \in Early, grace \in Grace :
          Begin("net", IF p \in locked' /\ s # SHIP_SPEC /\ p \notin Staff THEN <<>>
                       ELSE Requests(p, ShipChange(p, s, CanEnterGame(lagged), early, grace)))
    /\ UNCHANGED <<conf, status, ship, freq, teamvars, changing, arenaLock, watching, epd, deaths,
                   flagvars, queue, crashed>>

PSetFreq(p, f) ==
    /\ Room /\ MayRun("net") /\ p \in Humans \cap Playing /\ p \notin changing
    /\ Expire(p)
    /\ \E lagged \in BOOLEAN, early \in Early, grace \in Grace :
          Begin("net", IF p \in locked' /\ p \notin Staff THEN <<>>
                       ELSE Requests(p, FreqChange(p, f, CanEnterGame(lagged), early, grace)))
    /\ UNCHANGED <<conf, status, ship, freq, teamvars, changing, arenaLock, watching, epd, deaths,
                   flagvars, queue, crashed>>

\* PSpecRequest, up to the lock.
PSpecRequest(p, q) ==
    /\ conf.watch /\ MayRun("net") /\ p \in Humans \cap Playing /\ ~InShip(p)
    /\ Begin("net", <<ToWatch(p, q)>>)
    /\ UNCHANGED <<conf, status, ship, freq, teamvars, gamevars, flagvars, queue, crashed>>

\* reset_during_change: some acknowledgement has come (there may be older ones).
Ack(p) ==
    /\ MayRun("net") /\ p \in changing
    /\ changing' = changing \ {p}
    /\ UNCHANGED <<conf, status, ship, freq, teamvars, locked, timed, arenaLock, watching, epd,
                   deaths, flagvars, queue, doing, crashed>>

\* mapnewsdl: who asks for the map is put into spec.
PMapRequest(p) ==
    /\ "map" \in conf.commands /\ Room /\ MayRun("net") /\ p \in Humans \cap Playing
    /\ InShip(p) \/ freq[p] # SpecFreq
    /\ Begin("net", <<Ask(p, "both", SHIP_SPEC, SpecFreq)>>)
    /\ UNCHANGED <<conf, status, ship, freq, teamvars, gamevars, flagvars, queue, crashed>>

----------------------------------------------------------------------------
(* Commands and timers of other modules.                                   *)

\* Fakes whose removal is queued.
Ending == {queue[i].p : i \in {j \in DOMAIN queue : queue[j].do = "endfake"}}

\* TargetToSet (bound: nobody changes a fake player who is being removed).
Targets == LET all == Playing \ Ending IN {{p} : p \in all} \cup {all}

OnAll(T, Steps(_)) == FoldSet(LAMBDA p, seq : seq \o Steps(p), <<>>, T)

\* ?setship, ?setfreq, ?specall, ?lock and ?unlock (playercmd.c): the commands of text
\* clients are run by main.
Command(t) ==
    /\ t \in conf.from /\ Room /\ MayRun(t)
    /\ \E T \in Targets :
          \/ /\ "setship" \in conf.commands
             /\ \E s \in Ships : Begin(t, OnAll(T, LAMBDA p : <<Ask(p, "ship", s, SpecFreq)>>))
          \/ /\ "setfreq" \in conf.commands
             /\ \E f \in conf.freqs : Begin(t, OnAll(T, LAMBDA p : <<Ask(p, "freq", SHIP_SPEC, f)>>))
          \/ /\ "specall" \in conf.commands
             /\ Begin(t, OnAll(T, LAMBDA p : <<Ask(p, "both", SHIP_SPEC, SpecFreq)>>))
          \/ /\ "lock" \in conf.commands
             /\ \E v \in {"no", "yes", "timed"}, spec \in BOOLEAN :
                   Begin(t, OnAll(T \ Fakes, LAMBDA p :
                       (IF spec THEN <<PutInSpec(p)>> ELSE <<>>) \o <<ToLock(p, v)>>))
    /\ UNCHANGED <<conf, status, ship, freq, teamvars, gamevars, flagvars, queue, crashed>>

\* ?lockarena and ?unlockarena: LockArena, UnlockArena.
ArenaLockCommand(t) ==
    /\ "arenalock" \in conf.commands /\ t \in conf.from /\ Room /\ MayRun(t)
    /\ \E v \in {"no", "yes"}, initial \in BOOLEAN, spec \in BOOLEAN :
          /\ arenaLock' = IF v = "no" THEN {}
                          ELSE arenaLock \cup {"ship"} \cup (IF initial THEN {} ELSE {"spec"})
          /\ Begin(t, OnAll(Playing \ Fakes, LAMBDA p :
                 (IF v = "yes" /\ spec THEN <<PutInSpec(p)>> ELSE <<>>) \o <<ToLock(p, v)>>))
    /\ UNCHANGED <<conf, status, ship, freq, teamvars, changing, locked, timed, watching, epd,
                   deaths, flagvars, queue, crashed>>

\* lagaction: main puts one who is too lagged into spec.
SpecForLag(p) ==
    /\ "lag" \in conf.commands /\ Room /\ MayRun("main") /\ p \in Humans \cap Playing /\ InShip(p)
    /\ Begin("main", <<PutInSpec(p)>>)
    /\ UNCHANGED <<conf, status, ship, freq, teamvars, gamevars, flagvars, queue, crashed>>

\* CreateFakePlayer.
CreateFakePlayer(p) ==
    /\ "fake" \in conf.commands /\ MayRun("net") /\ p \in Fakes /\ status[p] = "away"
    /\ \E s \in conf.fakeShips, f \in conf.freqs :
          /\ ship' = [ship EXCEPT ![p] = s]
          /\ freq' = [freq EXCEPT ![p] = f]
    /\ status' = [status EXCEPT ![p] = "playing"]
    /\ carried' = [carried EXCEPT ![p] = 0]
    /\ UNCHANGED <<conf, teamvars, gamevars, flag, queue, doing, crashed>>

\* EndFaked; bound: nobody has him removed twice.
EndFaked(p) ==
    /\ "fake" \in conf.commands /\ MayRun("net") /\ p \in Fakes \cap Playing
    /\ Room /\ p \notin Ending
    /\ queue' = Append(queue, [do |-> "endfake", p |-> p])
    /\ UNCHANGED <<conf, status, ship, freq, teamvars, gamevars, flagvars, doing, crashed>>

----------------------------------------------------------------------------
(* PlayerAction, NewPlayer and set_data of game, PDie without the callbacks. *)

GamePreEnter(p) ==
    /\ locked' = IF "ship" \in arenaLock THEN locked \cup {p} ELSE locked \ {p}
    /\ UNCHANGED <<changing, timed, arenaLock, watching, epd, deaths>>

\* The database thread has found an expiry time for him: set_data.
SetData(p) ==
    IF p \notin timed THEN UNCHANGED <<ship, freq, locked, timed>>
    ELSE \/ /\ locked' = locked \ {p} /\ timed' = timed \ {p}
            /\ UNCHANGED <<ship, freq>>
         \/ /\ locked' = locked \cup {p}
            /\ ship' = [ship EXCEPT ![p] = SHIP_SPEC]
            /\ freq' = [freq EXCEPT ![p] = SpecFreq]
            /\ UNCHANGED timed

GameEnter(p) ==
    /\ epd' = [epd EXCEPT ![p] = 0]
    /\ deaths' = [deaths EXCEPT ![p] = 0]
    /\ UNCHANGED <<changing, locked, timed, arenaLock, watching>>

GameLeave(p) ==
    /\ ClearSpeccing({q \in Humans : watching[q] = p} \cup {p})
    /\ UNCHANGED <<changing, locked, timed, arenaLock, deaths>>

GameFreeFake(p) ==
    /\ ClearSpeccing({q \in Humans : watching[q] = p})
    /\ UNCHANGED <<changing, locked, timed, arenaLock, deaths>>

\* PDie counts deaths without firing; at the limit, and only there, he is specced.
GameDie(p, fired) ==
    /\ deaths' = [deaths EXCEPT ![p] =
           IF fired THEN 0 ELSE IF @ <= conf.deathLimit THEN @ + 1 ELSE @]
    /\ Begin("net", IF ~fired /\ deaths[p] = conf.deathLimit
                      THEN <<Ask(p, "both", SHIP_SPEC, SpecFreq)>> ELSE <<>>)
    /\ UNCHANGED <<changing, locked, timed, arenaLock, watching, epd>>
=============================================================================
