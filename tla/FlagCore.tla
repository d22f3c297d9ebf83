------------------------------ MODULE FlagCore -------------------------------
(***************************************************************************)
(* Flag games: flagcore.c with the warzone (fg_wz.py) and turf             *)
(* (fg_turf.py) games it serves.  Positions are left out; a place to spawn *)
(* a flag at is always found.                                              *)
(***************************************************************************)
EXTENDS Game

VARIABLES
    current,  \* fg_wz: fg_wz_current
    neuts,    \* fg_wz: fg_wz_neuts
    winTimer  \* fg_wz: fg_wz_checkwintmr is set

wzvars == <<current, neuts, winTimer>>

NoFreq == -1

None(f) == [state |-> "none", carrier |-> NoPlayer, freq |-> f]
OnMap(f) == [state |-> "onmap", carrier |-> NoPlayer, freq |-> f]
CarriedBy(p) == [state |-> "carried", carrier |-> p, freq |-> freq[p]]

IsTurf == Attached("flags") /\ conf.carry = 0
IsWarzone == Attached("flags") /\ conf.carry # 0

CanCarry == conf.carry - 1

FlagsOf(p) == {i \in Flags : flag[i].state = "carried" /\ flag[i].carrier = p}

\* What a flag becomes that is spawned or neuted: owned by f, or neutral.
Owned(what, f) == IF what \in conf.owned THEN f ELSE NoFreq

\* Cleanup of fg_wz for a flag of freq f that somebody has lost.
CleanedUp(reason, f) ==
    CASE reason = "dropped" -> OnMap(Owned("drop", f))
      [] reason = "insafe"  -> OnMap(Owned("safe", f))
      [] OTHER              -> None(Owned("neut", f))

\* Mistaken variant: he is taken to have lost one flag.
CleanupOne(p, reason) ==
    LET lost == FlagsOf(p)
    IN  /\ flag' = [i \in Flags |-> IF i \in lost THEN CleanedUp(reason, flag[i].freq) ELSE flag[i]]
        /\ carried' = [carried EXCEPT ![p] = IF lost = {} THEN @ ELSE @ - 1]
        /\ winTimer' = (winTimer \/ reason \in {"dropped", "insafe"})
        /\ UNCHANGED <<current, neuts>>

\* cleanup: what p carries is lost (with its freq left), and given to fg_wz.
Cleanup(p, reason) ==
    LET lost == FlagsOf(p)
    IN  /\ flag' = [i \in Flags |-> IF i \in lost THEN CleanedUp(reason, flag[i].freq) ELSE flag[i]]
        /\ carried' = [carried EXCEPT ![p] = @ - Cardinality(lost)]
        /\ LET onMap == reason \in {"dropped", "insafe"}
           IN  /\ winTimer' = (winTimer \/ (onMap /\ lost # {}))
               /\ neuts' = IF onMap THEN neuts ELSE neuts \cup lost
        /\ UNCHANGED current

----------------------------------------------------------------------------
(* Packets.                                                                *)

\* p_flagtouch, up to the lock.
PFlagTouch(p, i) ==
    /\ Attached("flags") /\ MayRun("net")
    /\ p \in Humans \cap Playing /\ InShip(p) /\ p \notin changing
    /\ flag[i].state = "onmap"
    /\ Begin("net", <<[do |-> "touch", p |-> p, flag |-> i]>>)
    /\ UNCHANGED <<conf, status, ship, freq, teamvars, gamevars, flagvars, wzvars, queue, crashed>>

\* The rest of it: set_flag from FlagTouch of fg_wz or fg_turf.
TouchFlag(t) ==
    /\ At(t, "touch")
    /\ LET p == Head(doing[t]).p
           i == Head(doing[t]).flag
       IN  /\ flag' = [flag EXCEPT ![i] =
                 IF @.state # "onmap" THEN @
                 ELSE IF IsTurf THEN OnMap(freq[p])
                 ELSE IF carried[p] < CanCarry THEN CarriedBy(p) ELSE @]
           /\ carried' = IF flag'[i].state = "carried" /\ flag[i].state = "onmap"
                           THEN [carried EXCEPT ![p] = @ + 1] ELSE carried
    /\ Done(t, <<>>)
    /\ UNCHANGED <<conf, status, ship, freq, teamvars, gamevars, wzvars, queue, crashed>>

\* p_flagtimer: his client says that he drops his flags.
PFlagTimer(p) ==
    /\ IsWarzone /\ MayRun("net") /\ p \in Humans \cap Playing /\ InShip(p)
    /\ \E reason \in {"dropped", "insafe"} : Cleanup(p, reason)
    /\ UNCHANGED <<conf, status, ship, freq, teamvars, gamevars, queue, doing, crashed>>

----------------------------------------------------------------------------
(* mykill: the killer gets the flags he can carry, the first ones; a fake  *)
(* player, and a teammate without Flag:FriendlyTransfer, drops them again; *)
(* the rest of them are dropped by the killed.                             *)

FlagsKill(killer, killed) ==
    LET lost == FlagsOf(killed)
        reason == IF killer \in Fakes THEN "drop"
                  ELSE IF freq[killer] = freq[killed] THEN "tk" ELSE "normal"
        drops == reason = "drop" \/ (reason = "tk" /\ ~conf.friendlyTransfer)
        room == CanCarry - carried[killer]
        moved == IF room <= 0 THEN {}
                 ELSE IF drops THEN lost
                 ELSE {i \in lost : Cardinality({j \in lost : j < i}) < room}
    IN  IF ~IsWarzone \/ carried[killed] = 0 THEN UNCHANGED <<flagvars, wzvars>>
        ELSE
          /\ flag' = [i \in Flags |->
                 IF i \notin lost THEN flag[i]
                 ELSE IF i \notin moved THEN OnMap(Owned("drop", freq[killed]))
                 ELSE IF drops THEN OnMap(Owned(reason, freq[killed]))
                 ELSE CarriedBy(killer)]
          /\ carried' = [carried EXCEPT
                 ![killed] = @ - Cardinality(lost),
                 ![killer] = IF moved = {} THEN @
                             ELSE IF drops THEN Cardinality(FlagsOf(killer))
                             ELSE @ + Cardinality(moved)]
          /\ winTimer' = (winTimer \/ drops \/ moved # lost)
          /\ UNCHANGED <<current, neuts>>

----------------------------------------------------------------------------
(* The callbacks of players.                                               *)

\* With no flag game there is nothing to lose.
\* Mistaken variant: changes of frequency are not noticed.
FlagsChangeUnseen(p) == UNCHANGED <<flagvars, wzvars>>

FlagsEnter(p) == carried' = [carried EXCEPT ![p] = 0] /\ UNCHANGED <<flag, wzvars>>
FlagsLeave(p) == Cleanup(p, "leftarena")
FlagsChange(p) == Cleanup(p, "change")

----------------------------------------------------------------------------
(* Timers and commands.                                                    *)

\* spawn_timer of fg_wz.
SpawnTimer ==
    /\ IsWarzone /\ MayRun("main")
    /\ \E n \in IF current < conf.minFlags THEN conf.minFlags .. Cardinality(Flags) ELSE {current} :
          LET spawned == {i \in Flags : i < n /\ flag[i].state = "none"}
          IN  /\ current' = n
              /\ flag' = [i \in Flags |->
                     IF i \notin spawned THEN flag[i]
                     ELSE OnMap(IF i \in neuts THEN flag[i].freq ELSE NoFreq)]
              /\ neuts' = neuts \ spawned
              /\ winTimer' = (winTimer \/ spawned # {})
    /\ UNCHANGED <<conf, status, ship, freq, teamvars, gamevars, carried, queue, doing, crashed>>

\* FlagReset.
FlagReset ==
    /\ flag' = [i \in Flags |-> IF IsTurf THEN OnMap(NoFreq) ELSE None(NoFreq)]
    /\ carried' = IF IsTurf THEN carried
                  ELSE [p \in Players |-> carried[p] - Cardinality(FlagsOf(p))]

\* check_win of fg_wz.
CheckWin ==
    /\ winTimer /\ MayRun("main")
    /\ winTimer' = FALSE
    /\ LET playing == {i \in Flags : i < current}
           won == \E f \in {flag[i].freq : i \in playing} \ {NoFreq} :
                      \A i \in playing : flag[i].state = "onmap" /\ flag[i].freq = f
       IN  IF won THEN FlagReset /\ current' = 0 ELSE UNCHANGED <<flagvars, current>>
    /\ UNCHANGED <<conf, status, ship, freq, teamvars, gamevars, neuts, queue, doing, crashed>>

\* ?flagreset (playercmd.c).
FlagResetCommand ==
    /\ Attached("flags") /\ "flagreset" \in conf.commands /\ MayRun("net")
    /\ FlagReset
    /\ UNCHANGED <<conf, status, ship, freq, teamvars, gamevars, wzvars, queue, doing, crashed>>
=============================================================================
