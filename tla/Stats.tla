-------------------------------- MODULE Stats ---------------------------------
(***************************************************************************)
(* stats.c and basicstats.c: what the server counts of each player in each *)
(* interval, what persist keeps of it while the player is away, and what   *)
(* clients have been told.  One arena with one stat that is counted and    *)
(* one that is timed; "reset" stands for the intervals that end.  (Bounds: *)
(* no update is lost on its way to a client; the argument that the         *)
(* callback of an ended interval lacks is not a player.)                   *)
(***************************************************************************)
EXTENDS Clients, TLC

VARIABLES
    second,     \* time()
    stat,       \* stat_info by player and interval
    pkt,        \* the score in p->pkt
    scoreboard, \* scoreboard[q][p]: the score of p that q's client has
    saved,      \* the records in the database
    carrying,   \* how many flags each player has
    copied,     \* the players the database thread has put, but not cleared
    ending,     \* those it has not come to yet
    ended,      \* CB_INTERVAL_ENDED is to be called on main
    earned,     \* what each player scored in all, ...
    carried,    \* ... how long he carried flags, ...
    past        \* ... and what of his score is in an interval that is over

statvars == <<second, stat, pkt, scoreboard, saved, carrying, copied, ending, ended, earned, carried, past>>
ghosts == <<earned, carried, past>>

Intervals == {"forever", "reset"}
NoStat == [score |-> 0, time |-> 0, started |-> 0, dirty |-> FALSE]
NoRecord == [score |-> 0, time |-> 0]

\* Who scores is a player.
ASSUME StatsAssumption == \A c \in Configs : c.scorers \subseteq Players

StatsInit ==
    /\ second = 1
    /\ stat = [p \in Players |-> [i \in Intervals |-> NoStat]]
    /\ pkt = [p \in Players |-> 0] /\ scoreboard = [q \in Players |-> [p \in Players |-> 0]]
    /\ saved = [p \in Players |-> [i \in Intervals |-> NoRecord]]
    /\ carrying = [p \in Players |-> 0] /\ copied = {} /\ ending = {} /\ ended = FALSE
    /\ earned = [p \in Players |-> 0] /\ carried = [p \in Players |-> 0] /\ past = [p \in Players |-> 0]

\* update_timer, start_timer, stop_timer.
Updated(s) ==
    IF s.started = 0 THEN s
    ELSE [s EXCEPT !.time = @ + (second - s.started), !.started = second, !.dirty = TRUE]
Started(s) == IF s.started # 0 THEN Updated(s) ELSE [s EXCEPT !.started = second]
Stopped(s) == [Updated(s) EXCEPT !.started = 0]

InAll(p, Change(_)) == stat' = [stat EXCEPT ![p] = [i \in Intervals |-> Change(@[i])]]

StartTimer(p) == InAll(p, Started)
StopTimer(p) == InAll(p, Stopped)

\* IncrementStat, by basicstats when there is a kill.
IncrementStat(p) ==
    /\ p \in Playing /\ earned[p] < conf.maxScore
    /\ InAll(p, LAMBDA s : [s EXCEPT !.score = @ + 1, !.dirty = TRUE])
    /\ earned' = [earned EXCEPT ![p] = @ + 1]
    /\ UNCHANGED <<second, pkt, scoreboard, saved, carrying, copied, ending, ended, carried, past>>

\* CB_FLAGGAIN, and CB_FLAGLOST with what is left.
FlagGain(p) ==
    /\ phase[p] = "playing" /\ carrying[p] < 2 /\ carrying' = [carrying EXCEPT ![p] = @ + 1]
    /\ StartTimer(p)
    /\ UNCHANGED <<second, pkt, scoreboard, saved, copied, ending, ended, ghosts>>
Lost(p, left) ==
    /\ carrying' = [carrying EXCEPT ![p] = left]
    /\ IF left = 0 THEN StopTimer(p) ELSE UNCHANGED stat
FlagLost(p) ==
    /\ phase[p] = "playing" /\ carrying[p] > 0 /\ Lost(p, carrying[p] - 1)
    /\ UNCHANGED <<second, pkt, scoreboard, saved, copied, ending, ended, ghosts>>

Second ==
    /\ second < conf.maxSeconds /\ second' = second + 1
    /\ carried' = [p \in Players |-> carried[p] + IF carrying[p] > 0 THEN 1 ELSE 0]
    /\ UNCHANGED <<stat, pkt, scoreboard, saved, carrying, copied, ending, ended, earned, past>>

\* get_..._data: a stat of zero is not stored, even if its timer runs.
GetData(s) == IF s.time # 0 THEN Updated(s) ELSE s
Record(s) == [score |-> s.score, time |-> GetData(s).time]

\* Mistaken variant of the next: nobody is told of what is cleared.
QuietlyCleared(s) == [s EXCEPT !.score = 0, !.time = 0, !.started = 0]

\* clear_..._data, which stops timers, too.
ClearData(s) ==
    [s EXCEPT !.dirty = @ \/ s.score # 0 \/ s.time # 0, !.score = 0, !.time = 0, !.started = 0]

\* set_..._data.
SetData(s, r) ==
    [s EXCEPT !.score = r.score, !.time = r.time, !.dirty = @ \/ r # NoRecord,
              !.started = IF r.time # 0 THEN 0 ELSE @]

\* SendUpdates, from a state with the stats s and the packets k: those whose stats have
\* changed since are told to all in the arena, but for one who is left out of both.
SendUpdates(s, k, exclude) ==
    LET changed == {p \in Playing \ exclude : s[p]["reset"].dirty}
    IN  /\ stat' = [p \in Players |-> IF p \in changed THEN [s[p] EXCEPT !["reset"].dirty = FALSE] ELSE s[p]]
        /\ pkt' = [p \in Players |-> IF p \in changed THEN s[p]["reset"].score ELSE k[p]]
        /\ scoreboard' = [q \in Players |-> [p \in Players |->
                      IF q \in Playing \ exclude /\ p \in changed THEN s[p]["reset"].score ELSE scoreboard[q][p]]]

\* GetPlayer, before S_PLAYING: the database thread clears the stats and loads them.
StatsArrive(p) ==
    /\ ending = {} /\ copied = {}
    /\ stat' = [stat EXCEPT ![p] = [i \in Intervals |-> SetData(ClearData(@[i]), saved[p][i])]]
    /\ UNCHANGED <<second, pkt, scoreboard, saved, carrying, copied, ending, ended, ghosts>>

\* core.c: his scores are put into his packet, and all others' are updated; then
\* SendArenaResponse tells him of those in the arena, and them of him.
StatsEnter(p) ==
    LET now == stat[p]["reset"].score
        sent == {r \in Playing \ {p} : stat[r]["reset"].dirty}
        Packet1(r) == IF r = p THEN now ELSE IF r \in sent THEN stat[r]["reset"].score ELSE pkt[r]
    IN  /\ stat' = [r \in Players |-> IF r \in sent THEN [stat[r] EXCEPT !["reset"].dirty = FALSE] ELSE stat[r]]
        /\ pkt' = [r \in Players |-> Packet1(r)]
        /\ scoreboard' = [q \in Players |-> [r \in Players |->
                      IF q \in Playing /\ r \in Playing /\ (q = p \/ r = p \/ r \in sent) THEN Packet1(r)
                      ELSE scoreboard[q][r]]]
        /\ UNCHANGED <<second, saved, carrying, copied, ending, ended, ghosts>>

\* PA_LEAVEARENA, where his flags are lost, and PutPlayer.
StatsLeave(p) ==
    /\ ending = {} /\ copied = {}
    /\ IF carrying[p] > 0 THEN Lost(p, 0) ELSE UNCHANGED <<stat, carrying>>
    /\ saved' = [saved EXCEPT ![p] = [i \in Intervals |-> Record(stat'[p][i])]]
    /\ UNCHANGED <<second, pkt, scoreboard, copied, ending, ended, ghosts>>

\* ?scorereset; timers go on.
ScoreReset(p) ==
    /\ p \in Playing
    /\ past' = [past EXCEPT ![p] = @ + IF p \in copied THEN 0 ELSE stat[p]["reset"].score]
    /\ SendUpdates([stat EXCEPT ![p]["reset"] = [Updated(@) EXCEPT !.score = 0, !.time = 0, !.dirty = TRUE]], pkt, {})
    /\ UNCHANGED <<second, saved, carrying, copied, ending, ended, earned, carried>>

\* do_end_interval, by the database thread, while scores are still counted: each player's
\* data are put under the old serial number, then cleared; ...
EndInterval ==
    /\ ending = {} /\ copied = {} /\ ~ended /\ ending' = InArena
    /\ saved' = [p \in Players |-> [saved[p] EXCEPT !["reset"] = NoRecord]]
    /\ past' = [p \in Players |-> past[p] + IF p \in InArena THEN 0 ELSE saved[p]["reset"].score]
    /\ ended' = (InArena = {})
    /\ UNCHANGED <<second, stat, pkt, scoreboard, carrying, copied, earned, carried>>
PutOld(p) ==
    /\ p \in ending /\ copied = {} /\ copied' = {p}
    /\ stat' = [stat EXCEPT ![p]["reset"] = GetData(@)]
    /\ past' = [past EXCEPT ![p] = @ + stat[p]["reset"].score]
    /\ UNCHANGED <<second, pkt, scoreboard, saved, carrying, ending, ended, earned, carried>>
\* ... what was scored in between is lost.
Clear(p) ==
    /\ p \in copied /\ copied' = {} /\ ending' = ending \ {p} /\ ended' = (ending' = {})
    /\ stat' = [stat EXCEPT ![p]["reset"] = ClearData(@)]
    /\ UNCHANGED <<second, pkt, scoreboard, saved, carrying, ghosts>>

\* CB_INTERVAL_ENDED, on main; or whoever gives points.
SendsUpdates ==
    /\ SendUpdates(stat, pkt, {}) /\ ended' = FALSE
    /\ UNCHANGED <<second, saved, carrying, copied, ending, ghosts>>

StatsStep ==
    /\ \/ \E p \in conf.scorers : IncrementStat(p) \/ FlagGain(p) \/ FlagLost(p) \/ ScoreReset(p)
       \/ Second \/ EndInterval \/ SendsUpdates
       \/ \E p \in Players : PutOld(p) \/ Clear(p)
    /\ UNCHANGED <<conf, clientvars>>
-----------------------------------------------------------------------------
\* Who is in the arena has been told everybody's score there, or the next update will tell
\* him, whoever entered, left, was reset or came to the end of an interval meanwhile.
ClientsHaveScores ==
    \A p, q \in {r \in Players : phase[r] = "playing"} :
        stat[p]["reset"].dirty \/ scoreboard[q][p] = stat[p]["reset"].score

\* What a player scored and how long he carried a flag is what the interval that never ends
\* has of it, in the arena or in the database; and nothing that was scored is counted in
\* two of the intervals that end.
CountedOnce ==
    \A p \in Players :
        /\ p \in InArena =>
             /\ stat[p]["forever"].score = earned[p]
             /\ stat[p]["forever"].time + (IF stat[p]["forever"].started = 0 THEN 0
                                          ELSE second - stat[p]["forever"].started) = carried[p]
        /\ p \notin InArena => saved[p]["forever"] = [score |-> earned[p], time |-> carried[p]]
        /\ past[p] + (IF p \in copied THEN 0
                      ELSE IF p \in InArena THEN stat[p]["reset"].score ELSE saved[p]["reset"].score) <= earned[p]

ScoresAgree == Has("stats") => ClientsHaveScores /\ CountedOnce
=============================================================================
