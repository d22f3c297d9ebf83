----------------------------- MODULE MCServices ------------------------------
EXTENDS Services
CONSTANTS a, b
MCPlayers == {a, b}
Base == [name |-> "base", on |-> {}, biller |-> "none", loses |-> "never", commands |-> FALSE, chat |-> FALSE,
         lines |-> 2, maxPending |-> 2, requests |-> 1, sends |-> 1, owed |-> 2,
         stay |-> FALSE, events |-> 4, fails |-> "running", restores |-> FALSE, objects |-> 1, diffs |-> 1,
         weights |-> <<1>>, cutoff |-> "dings", recoverDings |-> 1, recoverMax |-> 1, style |-> "weights",
         minPlayers |-> 1, minArena |-> 1,
         width |-> 1, height |-> 1, levels |-> {}, regions |-> {}, maxSets |-> 4,
         brickMode |-> "vie", span |-> 3, brickTime |-> 1, maxBricks |-> 2, maxTicks |-> 4, antiwarp |-> FALSE,
         players |-> MCPlayers, contents |-> {<<>>}, included |-> <<>>, values |-> {}, again |-> FALSE,
         maxDirty |-> 2, maxWrites |-> 2,
         links |-> {}, hosts |-> {}, guests |-> {}, relays |-> {}, messages |-> 0, buckets |-> 2, delay |-> 1,
         stale |-> 1, sweep |-> 1, maxClock |-> 7, maxScore |-> 1, maxSeconds |-> 3, scorers |-> {a},
         arenas |-> {"here"}, staff |-> {}, passwords |-> {}]
But(c, d) == [k \in DOMAIN c |-> IF k \in DOMAIN d THEN d[k] ELSE c[k]]
SscConf == But(Base, [name |-> "ssc", on |-> {"billing"}, biller |-> "ssc", loses |-> "anytime", commands |-> TRUE, chat |-> TRUE])
TextConf == But(SscConf, [name |-> "text", loses |-> "idle", biller |-> "text", chat |-> FALSE])
FilesConf == But(Base, [name |-> "files", on |-> {"files"}])
RecordConf == But(Base, [name |-> "record", on |-> {"record"}, stay |-> TRUE])
ObjectsConf == But(Base, [name |-> "objects", on |-> {"objects"}, stay |-> TRUE, players |-> {a}, objects |-> 2])
CrowdConf == But(Base, [name |-> "crowd", on |-> {"objects"}, stay |-> TRUE])
TurfConf == But(Base, [name |-> "turf", on |-> {"turf"}, stay |-> TRUE, weights |-> <<1, 2>>])
Turf2Conf == But(TurfConf, [name |-> "turf2", cutoff |-> "time", style |-> "standard", minArena |-> 2])
MapConf == But(Base, [name |-> "map", on |-> {"map"}, stay |-> TRUE, width |-> 2, height |-> 2,
    levels |-> {<< <<1, 1, "flag">>, <<1, 0, "asteroid">> >>}, regions |-> {"red", "blue"}])
LimitConf == But(MapConf, [name |-> "limit", maxSets |-> 3])
Walled(w, h) ==
    {SelectSeq([i \in 1 .. w * h |-> <<(i - 1) % w, (i - 1) \div w, "wall">>], LAMBDA t : <<t[1], t[2]>> \in S) :
       S \in SUBSET ((0 .. w - 1) \X (0 .. h - 1))}
TilesConf == But(MapConf, [name |-> "tiles", width |-> 3, height |-> 3, regions |-> {}, levels |-> Walled(3, 3)])
BricksConf == But(Base, [name |-> "bricks", on |-> {"bricks"}, stay |-> TRUE, width |-> 4, height |-> 2,
    levels |-> {<< <<1, 0, "wall">>, <<3, 1, "flag">> >>}, maxTicks |-> 3])
CageConf == But(BricksConf, [name |-> "cage", brickMode |-> "cage", antiwarp |-> TRUE, width |-> 3, maxBricks |-> 1,
    maxTicks |-> 2])
Set(k, v) == [line |-> "set", sec |-> "", key |-> k, val |-> v]
Sec(n) == [line |-> "section", name |-> n]
If(l, n) == [line |-> l, name |-> n]
ConfigConf == But(Base, [name |-> "config", maxDirty |-> 1, on |-> {"config"}, stay |-> TRUE, players |-> {}, values |-> {"1", "2"},
    included |-> <<If("define", "X"), Sec("G")>>,
    contents |-> {<<Sec("G"), Set("a", "1"), [line |-> "key", key |-> "b"]>>,
                  <<[line |-> "include"], If("ifdef", "X"), Set("a", "2"), [line |-> "else"], Set("a", "1"),
                    [line |-> "endif"], If("ifndef", "X"), If("ifndef", "Y"), Set("b", "1"), [line |-> "endif"],
                    [line |-> "endif"]>>}])
OrderConf == But(ConfigConf, [name |-> "order", maxDirty |-> 2, maxWrites |-> 1])
AgainConf == But(ConfigConf, [name |-> "again", again |-> TRUE])
MCKeys == {<<"G", "a">>, <<"G", "b">>}
LinkTo(z, w, kind, m) == [from |-> z, to |-> w, kind |-> kind, messages |-> m, sendOnly |-> FALSE]
PeerConf == But(Base, [name |-> "peer", on |-> {"peer"}, stay |-> TRUE, players |-> {}, hosts |-> {"A"},
    links |-> {LinkTo("A", "B", "list", FALSE), LinkTo("B", "C", "list", FALSE), LinkTo("C", "B", "zero", FALSE),
               LinkTo("B", "A", "list", FALSE)},
    relays |-> {<<"B", "A">>, <<"A", "B">>, <<"B", "C">>}, delay |-> 0, buckets |-> 1, maxClock |-> 6])
CountConf == But(PeerConf, [name |-> "count", messages |-> 1, delay |-> 1, buckets |-> 2,
    relays |-> {<<"B", "A">>, <<"A", "B">>},
    links |-> {LinkTo("A", "B", "list", TRUE), LinkTo("B", "A", "count", TRUE)}, maxClock |-> 4])
StatsConf == But(Base, [name |-> "stats", on |-> {"stats"}, stay |-> TRUE])
GroupsConf == But(Base, [name |-> "groups", on |-> {"groups"}, stay |-> TRUE, arenas |-> {"here", "there"}, staff |-> {b},
    passwords |-> {"mod"}])
CONSTANTS Chosen, f, g
MCRecordings == {"game"}
MCTempFiles == {f, g}
MCConfigs == {c \in {SscConf, TextConf, FilesConf, RecordConf, ObjectsConf, CrowdConf, TurfConf, Turf2Conf, MapConf, LimitConf,
                    TilesConf, BricksConf, CageConf, ConfigConf, OrderConf, PeerConf, CountConf, StatsConf, GroupsConf, AgainConf} : c.name \in Chosen}
=============================================================================
