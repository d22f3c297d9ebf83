------------------------------- MODULE MapData -------------------------------
(***************************************************************************)
(* mapdata.c: the tiles of a map, and its regions.  The worker thread      *)
(* reads a level while the arena is held.  A region is run-length encoded  *)
(* in rows; it is kept twice, as the set of regions each tile is in        *)
(* (rgntiles, rgnsets, setmap: Contains, EnumContaining) and as the runs   *)
(* themselves (rle_data: FindRandomPoint).                                 *)
(***************************************************************************)
EXTENDS Clients, Folds

CONSTANT Regions   \* the regions of a level

VARIABLES
    tiles,      \* what each cell holds
    flags,      \* the number of turf flags read
    rgntiles,   \* the index of the set of regions of each cell; 0 is that of none
    rgnsets,    \* the sets, each as a sequence of regions in the order they came
    setmap,     \* the indices of the sets that each region is in
    rle,        \* the entries of each region: x, y, width, height
    counted,    \* the number of cells each region thinks it has
    lost,       \* the limit of sets has been met
    reading     \* where the worker thread is

mapvars == <<tiles, flags, rgntiles, rgnsets, setmap, rle, counted, lost, reading>>
regionvars == <<rgntiles, rgnsets, setmap, rle, counted, lost>>

Cells == (0 .. conf.width - 1) \X (0 .. conf.height - 1)

\* init_sparse; lookups and insertions wrap around at the edges of the array.
Empty == [c \in Cells |-> "empty"]
Wrapped(c) == <<c[1] % conf.width, c[2] % conf.height>>
IsEmpty(c) == tiles[Wrapped(c)] = "empty"

\* How far a tile reaches: asteroids, stations and wormholes are big.
Size(type) == IF type = "asteroid" THEN 2 ELSE 1

\* read_plain_tile_data, for one tile <<x, y, type>>.
ReadTile(t, map) ==
    LET covered == {Wrapped(<<t[1] + i, t[2] + j>>) : i, j \in 0 .. Size(t[3]) - 1}
    IN  [c \in Cells |-> IF c \in covered THEN t[3] ELSE map[c]]

NoRun == [rgn |-> "none", cx |-> 0, cy |-> 0, lastRow |-> -1, last |-> {}, left |-> {}]

MapInit ==
    /\ tiles = Empty /\ flags = 0 /\ lost = FALSE
    /\ rgntiles = [c \in Cells |-> 0] /\ rgnsets = <<>>
    /\ setmap = [r \in Regions |-> {}] /\ rle = [r \in Regions |-> <<>>]
    /\ counted = [r \in Regions |-> 0]
    /\ reading = [NoRun EXCEPT !.rgn = IF conf.on \cap {"map", "bricks"} # {} THEN "load" ELSE "none"]

\* AA_PRECREATE: aaction_work and load_from_file.  Without a level there is one tile, at
\* the corner.
Load ==
    /\ reading.rgn = "load"
    /\ \E level \in conf.levels \cup {<< <<0, 0, "wall">> >>} :
          /\ tiles' = FoldLeft(LAMBDA map, t : ReadTile(t, map), Empty, level)
          /\ flags' = Len(SelectSeq(level, LAMBDA t : t[3] = "flag"))
    /\ reading' = [NoRun EXCEPT !.left = conf.regions]
    /\ UNCHANGED regionvars

\* process_map_chunk comes to another region.  (Bound: each has a name.)
BeginRegion(r) ==
    /\ reading.rgn = "none" /\ r \in reading.left
    /\ reading' = [NoRun EXCEPT !.rgn = r, !.left = reading.left \ {r}]
    /\ UNCHANGED <<tiles, flags, regionvars>>

SetOf(i) == IF i = 0 THEN <<>> ELSE rgnsets[i]

\* Mistaken variant: only the new region learns of a new set.
OnlyTheNew(r, c, s) ==
    LET old == IF s.rgntiles[c] = 0 THEN <<>> ELSE s.rgnsets[s.rgntiles[c]]
        new == Append(old, r)
        same == {i \in DOMAIN s.rgnsets : s.rgnsets[i] = new}
        fresh == Len(s.rgnsets) + 1
    IN  IF same # {} THEN [s EXCEPT !.rgntiles[c] = CHOOSE i \in same : TRUE]
        ELSE IF fresh >= conf.maxSets THEN [s EXCEPT !.lost = TRUE]
        ELSE [s EXCEPT !.rgntiles[c] = fresh, !.rgnsets = Append(@, new),
                       !.setmap[r] = @ \cup {fresh}]

\* add_rgn_tile, for a cell of region r; s holds the tiles, sets and maps.
AddRgnTile(r, c, s) ==
    LET old == IF s.rgntiles[c] = 0 THEN <<>> ELSE s.rgnsets[s.rgntiles[c]]
        new == Append(old, r)
        same == {i \in DOMAIN s.rgnsets : s.rgnsets[i] = new}
        fresh == Len(s.rgnsets) + 1
    IN  IF same # {} THEN [s EXCEPT !.rgntiles[c] = CHOOSE i \in same : TRUE]
        ELSE IF fresh >= conf.maxSets THEN [s EXCEPT !.lost = TRUE]
        ELSE [s EXCEPT !.rgntiles[c] = fresh, !.rgnsets = Append(@, new),
                       !.setmap = [q \in Regions |-> IF \E i \in DOMAIN new : new[i] = q
                                                     THEN @[q] \cup {fresh} ELSE @[q]]]

\* The cells of a sequence are added to r, one after the other.
AddAll(r, cells) ==
    LET s == FoldLeft(LAMBDA acc, c : AddRgnTile(r, c, acc),
                      [rgntiles |-> rgntiles, rgnsets |-> rgnsets, setmap |-> setmap, lost |-> lost],
                      cells)
    IN  /\ rgntiles' = s.rgntiles /\ rgnsets' = s.rgnsets
        /\ setmap' = s.setmap /\ lost' = s.lost

\* The reader moves on; a full row is followed by the next.
MoveOn(cx, cy) ==
    [reading EXCEPT !.cx = IF cx = conf.width THEN 0 ELSE cx,
                    !.cy = IF cx = conf.width THEN cy + 1 ELSE cy]

Reads(r) == reading.rgn = r /\ r \in Regions /\ reading.cy < conf.height

\* n empty in a row, and n rows of empty.
EmptyRun(r, n) ==
    /\ Reads(r) /\ reading.cx + n <= conf.width
    /\ reading' = MoveOn(reading.cx + n, reading.cy)
    /\ UNCHANGED <<tiles, flags, regionvars>>
EmptyRows(r, n) ==
    /\ Reads(r) /\ reading.cx = 0 /\ reading.cy + n <= conf.height
    /\ reading' = MoveOn(0, reading.cy + n)
    /\ UNCHANGED <<tiles, flags, regionvars>>

\* n present in a row.  (Bound: no run passes the end of a row.)
PresentRun(r, n) ==
    LET cx == reading.cx
        cy == reading.cy
        kept == IF cy = reading.lastRow THEN reading.last ELSE {}
    IN  /\ Reads(r) /\ cx + n <= conf.width
        /\ rle' = [rle EXCEPT ![r] = Append(@, [x |-> cx, y |-> cy, width |-> n, height |-> 1])]
        /\ counted' = [counted EXCEPT ![r] = @ + n]
        /\ AddAll(r, [i \in 1 .. n |-> <<cx + i - 1, cy>>])
        /\ reading' = [MoveOn(cx + n, cy) EXCEPT !.lastRow = cy,
                                                !.last = kept \cup {Len(rle[r]) + 1}]
        /\ UNCHANGED <<tiles, flags>>

RegionContains(r, c) == rgntiles[c] \in setmap[r]

\* The last row is repeated n times.  (Bound: a row without a run is not repeated;
\* last_row_data would then still be those of the row before.)
RepeatRow(r, n) ==
    LET cy == reading.cy
        row == SelectSeq([i \in 1 .. conf.width |-> <<i - 1, cy - 1>>], LAMBDA c : RegionContains(r, c))
        rows == [i \in 1 .. n |-> [j \in DOMAIN row |-> <<row[j][1], cy + i - 1>>]]
    IN  /\ Reads(r) /\ reading.cx = 0 /\ cy # 0 /\ cy + n <= conf.height
        /\ reading.lastRow = cy - 1
        /\ rle' = [rle EXCEPT ![r] = [i \in DOMAIN @ |->
              IF i \in reading.last THEN [@[i] EXCEPT !.height = @ + n] ELSE @[i]]]
        /\ counted' = [counted EXCEPT ![r] =
              @ + n * FoldSet(LAMBDA i, sum : rle[r][i].width + sum, 0, reading.last)]
        /\ AddAll(r, FoldLeft(LAMBDA all, one : all \o one, <<>>, rows))
        /\ reading' = [MoveOn(0, cy + n) EXCEPT !.lastRow = cy + n - 1]
        /\ UNCHANGED <<tiles, flags>>

\* The data end; when they are short a warning is logged, and what was read stays.
EndRegion(r) ==
    /\ reading.rgn = r /\ r \in Regions
    /\ reading' = [NoRun EXCEPT !.left = reading.left]
    /\ UNCHANGED <<tiles, flags, regionvars>>

\* Unhold: the arena has its map.
Loaded == reading.rgn = "none" /\ reading.left = {}

\* DoBrick: a line of cells becomes bricks, or empty.
DoBrick(map, cells, drop) ==
    [c \in Cells |-> IF c \in cells THEN (IF drop THEN "brick" ELSE "empty") ELSE map[c]]

MapStep ==
    \/ Load
    \/ \E r \in Regions :
          \/ BeginRegion(r) \/ EndRegion(r)
          \/ \E n \in 1 .. conf.width : EmptyRun(r, n) \/ PresentRun(r, n)
          \/ \E n \in 1 .. conf.height : EmptyRows(r, n) \/ RepeatRow(r, n)
-----------------------------------------------------------------------------
\* FindEmptyTileNear: a spiral of cells, starting at c: one up, one right, two down, two
\* left, three up...  The k-th cell, the steps left in this line, and its length.
Turn90 == [up |-> "right", right |-> "down", down |-> "left", left |-> "up"]
Step == [up |-> <<0, -1>>, right |-> <<1, 0>>, down |-> <<0, 1>>, left |-> <<-1, 0>>]
Plus(c, d, n) == <<c[1] + n * Step[d][1], c[2] + n * Step[d][2]>>

\* Mistaken variant: the lines grow at the other turns.
GrowsLate(dir) == dir \in {"right", "left"}

\* A line is longer than the one before at every other turn.
Lengthens(dir) == dir \in {"up", "down"}

Spiral(c, limit) ==
    LET s[k \in 0 .. limit] ==
          IF k = 0 THEN [dir |-> "left", upto |-> 0, remaining |-> 1, at |-> <<c[1] + 1, c[2]>>]
          ELSE LET last == s[k - 1]
                   dir == IF last.remaining = 1 THEN Turn90[last.dir] ELSE last.dir
                   upto == IF last.remaining = 1 /\ Lengthens(dir) THEN last.upto + 1 ELSE last.upto
               IN  [dir |-> dir, upto |-> upto, at |-> Plus(last.at, last.dir, 1),
                    remaining |-> IF last.remaining = 1 THEN upto ELSE last.remaining - 1]
    IN  s

\* The cell found, or c itself when there is none.
FindEmptyTileNear(c, limit) ==
    LET s == Spiral(c, limit)
        found == {k \in 1 .. limit : IsEmpty(s[k].at)}
    IN  IF found = {} THEN c ELSE s[CHOOSE k \in found : \A j \in found : k <= j].at

\* The points that FindRandomPoint may choose in r.
RandomPoints(r) ==
    UNION {{<<e.x + i, e.y + j>> : i \in 0 .. e.width - 1, j \in 0 .. e.height - 1} :
             e \in {rle[r][k] : k \in DOMAIN rle[r]}}
-----------------------------------------------------------------------------
\* Where nothing but maps is looked at, as they were loaded.
Maps == Has("map") /\ conf.regions = {} /\ Loaded /\ InArena = {}

Distance(c, d) ==
    LET Abs(n) == IF n < 0 THEN -n ELSE n
    IN  IF Abs(c[1] - d[1]) > Abs(c[2] - d[2]) THEN Abs(c[1] - d[1]) ELSE Abs(c[2] - d[2])

\* The two ways a region is kept agree: a region says that it contains a tile exactly when
\* the tile's set lists it, once, and, unless the limit of 256 sets was met (some region
\* data are lost then, as the log says), exactly when its random points do; it counts its
\* points right, so that a random one is always found.
RegionsAgree ==
    \A r \in Regions :
        /\ \A c \in Cells :
              LET in == {i \in DOMAIN SetOf(rgntiles[c]) : SetOf(rgntiles[c])[i] = r}
              IN  /\ Cardinality(in) <= 1
                  /\ RegionContains(r, c) <=> in # {}
                  /\ RegionContains(r, c) => c \in RandomPoints(r)
                  /\ c \in RandomPoints(r) => RegionContains(r, c) \/ lost
        /\ counted[r] = Cardinality(RandomPoints(r))

\* A flag or ball that is put near a tile gets an empty one, and none is nearer: the spiral
\* of FindEmptyTileNear misses no tile and takes the rings in order.  (At an edge, what it
\* finds may be on the other side of it.)
NearestTile ==
    Maps => \A c \in Cells :
        LET limit == (2 * conf.width + 1) * (2 * conf.width + 1)
            near == FindEmptyTileNear(c, limit)
            around == {d \in ((c[1] - conf.width) .. (c[1] + conf.width))
                             \X ((c[2] - conf.width) .. (c[2] + conf.width)) : IsEmpty(d)}
        IN  around # {} => IsEmpty(near) /\ \A d \in around : Distance(c, near) <= Distance(c, d)

\* What modules ask of a map: its regions, and a free tile to put something on.
MapIsAsDrawn == Has("map") => RegionsAgree /\ NearestTile
=============================================================================
