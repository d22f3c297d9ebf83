------------------------------- MODULE MCGame --------------------------------
(***************************************************************************)
(* Small instances of ArenaGames: each configuration has the modules of    *)
(* one kind of arena, and bounds what is done in it.                       *)
(***************************************************************************)
EXTENDS ArenaGames

CONSTANTS a, b, robot

MCHumans == {a, b}
MCFakes == {robot}
MCStaff == {a}
MCFlags == {0, 1}

Plain == [name |-> "plain", prompt |-> TRUE, modules |-> {}, kills |-> {}, commands |-> {}, from |-> {"net"}, watch |-> FALSE,
          required |-> 0, remembered |-> 0, desired |-> 2, number |-> 3, firstPrivate |-> 2,
          balanced |-> {}, noTeamSpecs |-> FALSE, startInSpec |-> FALSE,
          maxPlaying |-> 10, maxPublic |-> 2, maxPrivate |-> 1, countSpecs |-> FALSE,
          forceEven |-> FALSE, maxDiff |-> 1, legal |-> {0, 1}, limit |-> 1,
          specEpd |-> FALSE, deathLimit |-> 1, freqs |-> {0, SpecFreq}, fakeShips |-> {SHIP_SPEC},
          carry |-> 0, owned |-> {}, friendlyTransfer |-> FALSE, minFlags |-> 1,
          balls |-> 0, goalDelay |-> TRUE, garbage |-> {-1}, deathScores |-> FALSE, killerIgnoresDelay |-> FALSE,
          goals |-> "all", steal |-> 0, goalsToWin |-> 2, winBy |-> 0,
          deathCount |-> 0, recoverKills |-> 0, minPlaying |-> 2]

\* c, but as d has it.
But(c, d) == [k \in DOMAIN c |-> IF k \in DOMAIN d THEN d[k] ELSE c[k]]

\* Teams that are required and remembered, kept even, with the ships limited; the
\* settings are loaded again.
TeamConf == But(Plain, [name |-> "teams", prompt |-> FALSE, modules |-> {"enf_shipcount", "enf_legalship"},
    required |-> 1, remembered |-> 1, balanced |-> {0, 1}, forceEven |-> TRUE,
    commands |-> {"setfreq"}, freqs |-> {0, 2}])
TeamConf2 == But(TeamConf, [required |-> 0, remembered |-> 2, legal |-> {1}])

\* Locks, spectators, lag.
LockConf == But(Plain, [name |-> "locks", from |-> {"main"}, prompt |-> FALSE, modules |-> {"enf_shipchange"},
    commands |-> {"lock", "arenalock", "lag", "map"}, watch |-> TRUE, noTeamSpecs |-> TRUE,
    desired |-> 1, number |-> 1, freqs |-> {0}])

\* A warzone with fakes.
WarConf == But(Plain, [name |-> "war", modules |-> {"flags", "enf_legalship"}, kills |-> {TRUE},
    legal |-> {0}, carry |-> 3, owned |-> {"drop"}, commands |-> {"fake"},
    freqs |-> {0}, number |-> 2, minFlags |-> 2])

\* Turf, where the team that wins may not be joined.
TurfConf == But(Plain, [name |-> "turf", modules |-> {"flags", "enf_flagwin", "enf_legalship"},
    legal |-> {0}, freqs |-> {0, 1}, commands |-> {"flagreset"}])

\* Two balls; they are given to players, too.
BallConf == But(Plain, [name |-> "balls", modules |-> {"balls", "enf_legalship"}, legal |-> {0},
    kills |-> {TRUE}, balls |-> 2, killerIgnoresDelay |-> TRUE, deathScores |-> TRUE, commands |-> {"giveball", "moveball"},
    freqs |-> {0}, desired |-> 1, number |-> 1])

\* The number of balls is changed, by command or in the settings.
FewConf == But(BallConf, [name |-> "few", balls |-> 1, kills |-> {}, commands |-> {"ballcount"}, freqs |-> {}])
FewConf2 == But(FewConf, [balls |-> 2])

\* Goals with which points are stolen, and goals that are counted.
StealConf == But(Plain, [name |-> "steal", modules |-> {"balls", "enf_legalship"}, legal |-> {0},
    balls |-> 1, goals |-> "corners31", steal |-> 1, commands |-> {"resetgame"}, freqs |-> {0},
    desired |-> 1, number |-> 1])
HalvesConf == But(StealConf, [name |-> "halves", goals |-> "halves", steal |-> 2,
    goalDelay |-> FALSE])
CountConf == But(StealConf, [name |-> "count", goals |-> "corners13", steal |-> 0, winBy |-> 1,
    goalsToWin |-> 2, desired |-> 2, number |-> 2])

KothConf == But(Plain, [name |-> "koth", fakeShips |-> {0}, modules |-> {"koth", "enf_legalship"}, legal |-> {0},
    kills |-> {TRUE}, deathCount |-> 1, recoverKills |-> 1, commands |-> {"resetkoth", "fake"},
    freqs |-> {0}, desired |-> 1, number |-> 1])

OwnerConf == But(Plain, [name |-> "owners", modules |-> {"freqowners", "enf_legalship"},
    legal |-> {0}, firstPrivate |-> 1, maxPrivate |-> 2, freqs |-> {0, 1}, number |-> 2,
    commands |-> {"setship", "specall"}])

\* Two threads change one player.
RaceConf == But(Plain, [name |-> "race", prompt |-> TRUE, from |-> {"main"},
    commands |-> {"setfreq"}, freqs |-> {0, 1}])

\* Points of goals without Soccer:GoalDelay.
SoccerConf == But(StealConf, [name |-> "soccer", goalDelay |-> FALSE, commands |-> {}])

CONSTANT Chosen  \* the names of the configurations of an instance

MCConfigs == {c \in {TeamConf, TeamConf2, LockConf, WarConf, TurfConf, BallConf, StealConf,
                     HalvesConf, CountConf, FewConf, FewConf2, KothConf, OwnerConf,
                     RaceConf, SoccerConf} : c.name \in Chosen}
=============================================================================
