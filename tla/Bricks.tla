-------------------------------- MODULE Bricks --------------------------------
(***************************************************************************)
(* bricks.c: the bricks that players drop, which snap to the walls of the  *)
(* map and to each other, stand for a while, and are sent to whoever       *)
(* enters.  (Bounds: CountBricksAsWalls is on and the settings stay, which *)
(* bricks.c does not check; bricks come from players only; BrickSpan >= 1.)*)
(***************************************************************************)
EXTENDS MapData

VARIABLES
    bricks,    \* bd->list, in the order of dropping: x1, y1, x2, y2, starttime
    lasttime,  \* the latest start time given out
    now,       \* current_ticks
    shown      \* the start times of the bricks each player has been sent

brickvars == <<bricks, lasttime, now, shown>>

CellsOf(b) == {c \in Cells : b.x1 <= c[1] /\ c[1] <= b.x2 /\ b.y1 <= c[2] /\ c[2] <= b.y2}

\* AA_PRECREATE.
BricksInit ==
    /\ bricks = <<>> /\ lasttime = 0 /\ now = 0 /\ shown = [p \in Players |-> {}]
-----------------------------------------------------------------------------
\* DoBrickModeCallback: the bricks of one drop.
Dirs == {"up", "right", "down", "left"}
Opposite == [up |-> "down", down |-> "up", left |-> "right", right |-> "left"]

Open(map, c) == c \in Cells /\ map[c] = "empty"

\* The number of open cells from c on in direction d, n at most.
Walk(map, c, d, n) ==
    CHOOSE k \in 0 .. n : /\ \A i \in 0 .. k - 1 : Open(map, Plus(c, d, i))
                          /\ k = n \/ ~Open(map, Plus(c, d, k))

Between(c, d) ==
    [x1 |-> IF c[1] < d[1] THEN c[1] ELSE d[1], x2 |-> IF c[1] < d[1] THEN d[1] ELSE c[1],
     y1 |-> IF c[2] < d[2] THEN c[2] ELSE d[2], y2 |-> IF c[2] < d[2] THEN d[2] ELSE c[2]]

\* Mistaken variant: one cell more.
GoTooFar(map, dest, d, span) ==
    LET n == Walk(map, dest, Opposite[d], span + 1)
    IN  Between(dest, IF n = 0 THEN dest ELSE Plus(dest, Opposite[d], n - 1))

\* From the closest point back, against direction d.
GoFrom(map, dest, d, span) ==
    LET n == Walk(map, dest, Opposite[d], span)
    IN  Between(dest, IF n = 0 THEN dest ELSE Plus(dest, Opposite[d], n - 1))

\* BRICK_VIE: at the closest wall, the first of the directions when there are several;
\* without one, lying or standing across the drop.
Order == <<"up", "right", "down", "left">>
Vie(map, drop, span) ==
    LET count(i) == Walk(map, drop, Order[i], span)
        best == CHOOSE i \in 1 .. 4 : /\ \A j \in 1 .. 4 : count(i) <= count(j)
                                      /\ \A j \in 1 .. i - 1 : count(j) > count(i)
    IN  IF count(best) = span
          THEN {GoFrom(map, Plus(drop, d, span \div 2), d, span) : d \in {"left", "up"}}
          ELSE {GoFrom(map, Plus(drop, Order[best], count(best) - 1), Order[best], span)}

\* BRICK_AHEAD and BRICK_LATERAL: as far in direction d as n goes, and back.
OneLine(map, drop, d, n, span) == GoFrom(map, Plus(drop, d, Walk(map, drop, d, n) - 1), d, span)

\* BRICK_CAGE: on each side of a square the first open cells; the drop if there are none.
Side(map, cells, drop) ==
    LET firsts == {i \in DOMAIN cells : Open(map, cells[i])}
        first == CHOOSE i \in firsts : \A j \in firsts : i <= j
        z == CHOOSE k \in first .. Len(cells) :
                /\ \A j \in first .. k : Open(map, cells[j])
                /\ k = Len(cells) \/ ~Open(map, cells[k + 1])
    IN  IF firsts = {} THEN Between(drop, drop) ELSE Between(cells[first], cells[z])

Cage(map, drop, span) ==
    LET At0(n) == IF n < 0 THEN 0 ELSE n
        Upto(n, m) == IF n > m - 1 THEN m - 1 ELSE n
        sx == At0(drop[1] - span \div 2)
        sy == At0(drop[2] - span \div 2)
        ex == Upto(drop[1] + (span + 1) \div 2, conf.width)
        ey == Upto(drop[2] + (span + 1) \div 2, conf.height)
        Row(y) == [i \in 1 .. ex - sx + 1 |-> <<sx + i - 1, y>>]
        Column(x) == [i \in 1 .. ey - sy + 1 |-> <<x, sy + i - 1>>]
    IN  [i \in 1 .. 4 |-> Side(map, <<Row(sy), Row(ey), Column(sx), Column(ex)>>[i], drop)]

\* What a drop in a mode may make.  (Each direction comes from a rotation.)
Drops(map, mode, drop, span) ==
    IF ~Open(map, drop) THEN {<<>>}
    ELSE CASE mode = "vie" -> {<<b>> : b \in Vie(map, drop, span)}
           [] mode = "ahead" -> {<<OneLine(map, drop, d, span, span)>> : d \in Dirs}
           [] mode = "lateral" -> {<<OneLine(map, drop, d, span \div 2 + 1, span)>> : d \in Dirs}
           [] mode = "cage" -> {Cage(map, drop, span)}
-----------------------------------------------------------------------------
\* expire_bricks.
Expired(b) == now > b.starttime + conf.brickTime
Standing == SelectSeq(bricks, LAMBDA b : ~Expired(b))
Cleared == FoldLeft(LAMBDA map, b : IF Expired(b) THEN DoBrick(map, CellsOf(b), FALSE) ELSE map,
                    tiles, bricks)

\* drop_brick, for each of a sequence: no two start at the same time.
StartTime(i) == IF now > lasttime THEN now + i - 1 ELSE lasttime + i
DropAll(new) ==
    LET dated == [i \in DOMAIN new |-> new[i] @@ [starttime |-> StartTime(i)]]
    IN  /\ bricks' = Standing \o dated
        /\ lasttime' = IF new = <<>> THEN lasttime ELSE StartTime(Len(new))
        /\ tiles' = FoldLeft(LAMBDA map, b : DoBrick(map, CellsOf(b), TRUE), Cleared, dated)
        /\ shown' = [p \in Players |-> IF p \in Playing
                                       THEN shown[p] \cup {dated[i].starttime : i \in DOMAIN dated}
                                       ELSE shown[p]]

\* PBrick, all of it under bd->mtx; with AntibrickwarpDistance, bricks at somebody's ship
\* are cancelled.  What has expired is taken from the map before the tiles are looked at.
\* (Bound: at most conf.maxBricks stand before a drop.)
PBrick(p) ==
    /\ p \in Playing /\ Loaded /\ Len(bricks) < conf.maxBricks
    /\ \E drop \in Cells : \E all \in Drops(Cleared, conf.brickMode, drop, conf.span) :
          \E kept \in IF conf.antiwarp THEN SUBSET DOMAIN all ELSE {DOMAIN all} :
             DropAll([i \in 1 .. Cardinality(kept) |->
                 all[CHOOSE k \in kept : Cardinality({j \in kept : j <= k}) = i]])
    /\ UNCHANGED <<flags, regionvars, reading, now>>

\* Mistaken variant: he is told of the first only.
SendFirstBrick(p) ==
    /\ bricks' = Standing /\ tiles' = Cleared
    /\ shown' = [shown EXCEPT ![p] = @ \cup {Standing[i].starttime : i \in 1 .. 1 \cap DOMAIN Standing}]
    /\ UNCHANGED <<flags, regionvars, reading, lasttime, now>>

\* SendOldBricks, of PA_ENTERARENA.
SendOldBricks(p) ==
    /\ bricks' = Standing /\ tiles' = Cleared
    /\ shown' = [shown EXCEPT ![p] = @ \cup {Standing[i].starttime : i \in DOMAIN Standing}]
    /\ UNCHANGED <<flags, regionvars, reading, lasttime, now>>

\* He leaves, and his client forgets the arena.
ForgetBricks(p) == shown' = [shown EXCEPT ![p] = {}] /\ UNCHANGED <<bricks, lasttime, now, mapvars>>

\* Time passes (bound: conf.maxTicks).
Tick ==
    /\ now < conf.maxTicks /\ Loaded /\ now' = now + 1
    /\ UNCHANGED <<mapvars, bricks, lasttime, shown>>

BrickStep == Tick \/ \E p \in Players : PBrick(p)
-----------------------------------------------------------------------------
\* Whatever the map, the place, the direction and the mode, a brick lies in one line of
\* open cells of the map and is no longer than BrickSpan, "the maximum length of a dropped
\* brick" (the sides of a cage have one cell more); but for cages, it covers the place of
\* the drop.
BricksFit ==
    Maps => \A span \in 1 .. conf.span, mode \in {"vie", "ahead", "lateral", "cage"} :
        \A drop \in Cells : \A all \in Drops(tiles, mode, drop, span) : \A i \in DOMAIN all :
            LET brick == all[i]
            IN  /\ brick.x1 = brick.x2 \/ brick.y1 = brick.y2
                /\ CellsOf(brick) # {} /\ <<brick.x1, brick.y1>> \in Cells /\ <<brick.x2, brick.y2>> \in Cells
                /\ \A c \in CellsOf(brick) : Open(tiles, c)
                /\ Cardinality(CellsOf(brick)) <= IF mode = "cage" THEN span + 1 ELSE span
                /\ mode # "cage" => drop \in CellsOf(brick)

\* The list of bricks, the map and the clients agree: who plays has been sent every brick
\* that stands, no two of them start at once (clients drop the second), and the bricks on
\* the map are those of the list.  (The bricks of a cage share corners, where one that
\* expires leaves a hole in its neighbour.)
BricksAgree ==
    /\ \A i, j \in DOMAIN bricks : i < j => bricks[i].starttime < bricks[j].starttime
    /\ \A p \in Players : phase[p] = "playing" => \A i \in DOMAIN bricks : bricks[i].starttime \in shown[p]
    /\ conf.brickMode # "cage" => \A c \in Cells :
           tiles[c] = "brick" <=> \E i \in DOMAIN bricks : c \in CellsOf(bricks[i])

\* Whatever the map, bricks are put where there is room, and everybody knows of them.
BricksStand == (Has("map") => BricksFit) /\ (Has("bricks") => BricksAgree)
=============================================================================
