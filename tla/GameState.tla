------------------------------ MODULE GameState ------------------------------
(***************************************************************************)
(* What the modules of an arena share: the players in it with their ships  *)
(* and frequencies, the lists of freqman, the flags, and the work that the *)
(* main thread and the network threads have under way (game.c, freqman.c,  *)
(* flagcore.c).                                                            *)
(***************************************************************************)
EXTENDS Integers, FiniteSets, Sequences

CONSTANTS
    Humans,      \* the Player structs of type T_CONT, T_VIE and T_CHAT
    Fakes,       \* the Player structs of type T_FAKE
    Staff,       \* the humans with every capability
    SHIP_SPEC,   \* the number of the spectators' "ship": ships are 0 .. SHIP_SPEC - 1
    SpecFreq,    \* arena->specfreq
    Flags,       \* flag ids
    Configs,     \* the configurations the arena may have (with the modules attached)
    Interleaved, \* do threads run between the two halves of a change?
    NoPlayer, NoTeam

ASSUME GameAssumption ==
    /\ Humans \cap Fakes = {} /\ Staff \subseteq Humans
    /\ SHIP_SPEC \in Nat \ {0} /\ SpecFreq \in Nat
    /\ NoPlayer \notin Humans \cup Fakes /\ NoTeam \notin Int
    /\ Interleaved \in BOOLEAN

\* The lists of players and flags end, and settings are numbers (cfg->GetInt).
ASSUME ArenaAssumption ==
    /\ IsFiniteSet(Humans) /\ IsFiniteSet(Fakes) /\ IsFiniteSet(Flags)
    /\ \A c \in Configs : /\ c.remembered \in Int /\ c.desired \in Int /\ c.number \in Int
                           /\ c.freqs \subseteq Int /\ c.balls \in Int

Players == Humans \cup Fakes
Ships == 0 .. SHIP_SPEC - 1
Threads == {"main", "net"}

VARIABLES
    conf,      \* the settings the modules have read from arena->cfg
    status,    \* p->status and p->arena
    ship,      \* p->p_ship
    freq,      \* p->p_freq
    teams,     \* freqman: ad->freqs, by freqnum
    team,      \* freqman: pdat->freq, as a freqnum
    changing,  \* p->flags.during_change
    locked,    \* game: who has lockship
    timed,     \* game: who has expires (in memory, or in the database)
    arenaLock, \* game: which of initlockship ("ship") and initspec ("spec") are set
    watching,  \* game: speccing
    epd,       \* game: epd_queries
    deaths,    \* game: deathwofiring
    queue,     \* the calls of these modules in runinmain_queue
    doing,     \* what each thread has yet to do of the handler it is in
    crashed,   \* an assertion has failed
    flag,      \* flagcore: ad->fis
    carried    \* p->pkt.flagscarried

teamvars == <<teams, team>>
gamevars == <<changing, locked, timed, arenaLock, watching, epd, deaths>>
flagvars == <<flag, carried>>

\* "entering" and "synced": between PA_PREENTERARENA and PA_ENTERARENA, before and
\* after the database thread has answered; "arriving" and "leaving": the status is
\* set, the callbacks of PA_ENTERARENA and PA_LEAVEARENA are still to run; "left":
\* p->arena is still set.
Statuses == {"away", "entering", "synced", "arriving", "playing", "leaving", "left"}

\* p->arena = arena.
InArena == {p \in Players : status[p] # "away"}

\* p->status = S_PLAYING.
Playing == {p \in Players : status[p] \in {"arriving", "playing"}}

InShip(p) == ship[p] # SHIP_SPEC

Attached(m) == m \in conf.modules

\* Thread t has returned from its last handler (and so have the others, unless
\* threads are interleaved).
MayRun(t) ==
    /\ ~crashed
    /\ doing[t] = <<>>
    /\ Interleaved \/ \A u \in Threads : doing[u] = <<>>

----------------------------------------------------------------------------
(* The queries of flagcore.                                                *)

FlagFreq(i) == IF flag[i].state = "carried" THEN freq[flag[i].carrier] ELSE flag[i].freq

CountFreqFlags(f) ==
    Cardinality({i \in Flags : flag[i].state # "none" /\ FlagFreq(i) = f})

\* ad->count is what the flag game has reserved (or set flags of).
CountFlags == IF Attached("flags") THEN Cardinality(Flags) ELSE 0

IsWinning(f) == CountFlags > 0 /\ CountFlags = CountFreqFlags(f)
=============================================================================
