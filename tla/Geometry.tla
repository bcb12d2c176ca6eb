------------------------------ MODULE Geometry ------------------------------
(***************************************************************************)
(* The geometry endpoints of api/main.py over geom/: boolean operations    *)
(* and offsets of paths (geom/path.py), boxes (geom/box.py) and the        *)
(* step-and-repeat grid (geom/tile.py). Boolean operations of rectangles   *)
(* alone take a shortcut over boxes; every other one, and an offset that   *)
(* is exact, need the optional pyclipr.                                    *)
(*                                                                         *)
(* Paths are rectilinear, on the integer grid: what a path covers is a set *)
(* of unit cells, each named by its lower left corner.                     *)
(***************************************************************************)
EXTENDS Integers, Sequences, FiniteSetsExt, SequencesExt

CONSTANTS
    Polygons,      \* rings, as sequences of points
    PathLists,     \* lists of paths a body may hold, each path a sequence of rings
    Distances,     \* offsets
    TileGrids,     \* bodies of /v1/geom/tile
    MaxTiles       \* 1024, the bound of tile_grid on rows and columns

\* A rectilinear ring: no side is slanted, and no point comes twice but for the first, which
\* may come again at the end.
IsRing(ring) ==
    /\ ring \in Seq(Int \X Int) /\ ring # <<>>
    /\ \A i \in DOMAIN ring : LET q == ring[(i % Len(ring)) + 1]
                             IN  ring[i][1] = q[1] \/ ring[i][2] = q[2]
    /\ \A i, j \in DOMAIN ring : ring[i] = ring[j] => i = j \/ {i, j} = {1, Len(ring)}

IsGrid(g) ==
    g \in [sheet : Int \X Int \X Int \X Int, cellW : Int, cellH : Int, gutterX : Int, gutterY : Int,
          origin : {"bottom-left", "top-left"},
          marks : [top : Int, right : Int, bottom : Int, left : Int]]

ASSUME GeometryAssumption ==
    /\ \A ring \in Polygons : IsRing(ring)
    /\ PathLists \subseteq Seq(Seq(Seq(Int \X Int)))
    /\ \A paths \in PathLists : \A i \in DOMAIN paths : \A k \in DOMAIN paths[i] : IsRing(paths[i][k])
    /\ Distances \subseteq Int /\ MaxTiles \in Nat \ {0}
    /\ \A g \in TileGrids : IsGrid(g)

VARIABLE geom      \* the request, whether pyclipr is installed, and the answer

Lowest(a, b) == IF a < b THEN a ELSE b
Highest(a, b) == IF a > b THEN a ELSE b

-----------------------------------------------------------------------------
(* Box: <<x0, y0, x1, y1>>.                                                *)

Width(b) == Highest(0, b[3] - b[1])
Height(b) == Highest(0, b[4] - b[2])
IsEmptyBox(b) == Width(b) = 0 \/ Height(b) = 0
CellsOf(b) == (b[1] .. b[3] - 1) \X (b[2] .. b[4] - 1)

Intersect(a, b) ==
    LET c == <<Highest(a[1], b[1]), Highest(a[2], b[2]), Lowest(a[3], b[3]), Lowest(a[4], b[4])>>
    IN  IF c[3] < c[1] \/ c[4] < c[2] THEN <<0, 0, 0, 0>> ELSE c

\* The smallest box containing both.
UnionBox(a, b) ==
    IF IsEmptyBox(a) THEN b ELSE IF IsEmptyBox(b) THEN a
    ELSE <<Lowest(a[1], b[1]), Lowest(a[2], b[2]), Highest(a[3], b[3]), Highest(a[4], b[4])>>

\* A mutant: the residue below reaches up to the top of the intersection.
DifferenceTooHigh(a, b) ==
    LET c == Intersect(a, b)
    IN  IF IsEmptyBox(c) THEN {a}
        ELSE {r \in {<<a[1], c[4], a[3], a[4]>>, <<a[1], a[2], a[3], c[4]>>,
                     <<a[1], c[2], c[1], c[4]>>, <<c[3], c[2], a[3], c[4]>>} : ~IsEmptyBox(r)}

\* Above, below, left and right of the intersection; the whole box when they are disjoint.
Difference(a, b) ==
    LET c == Intersect(a, b)
    IN  IF IsEmptyBox(c) THEN {a}
        ELSE {r \in {<<a[1], c[4], a[3], a[4]>>, <<a[1], a[2], a[3], c[2]>>,
                     <<a[1], c[2], c[1], c[4]>>, <<c[3], c[2], a[3], c[4]>>} : ~IsEmptyBox(r)}

-----------------------------------------------------------------------------
(* Path: what it covers, and the box it is when it is one rectangle.       *)

\* Even-odd over the ring's vertical edges to the left of the cell. Clipper's non-zero fill
\* covers the same of simple rings that turn the same way round.
Covered(ring) ==
    LET Next(i) == ring[(i % Len(ring)) + 1]
        xs == {ring[i][1] : i \in DOMAIN ring}
        ys == {ring[i][2] : i \in DOMAIN ring}
        Left(c) == {i \in DOMAIN ring :
                       /\ ring[i][1] = Next(i)[1] /\ ring[i][1] <= c[1]
                       /\ Lowest(ring[i][2], Next(i)[2]) <= c[2]
                       /\ c[2] < Highest(ring[i][2], Next(i)[2])}
    IN  {c \in (Min(xs) .. Max(xs)) \X (Min(ys) .. Max(ys)) : Cardinality(Left(c)) % 2 = 1}

Corners(points) ==
    LET xs == {p[1] : p \in points}
        ys == {p[2] : p \in points}
    IN  IF Cardinality(xs) = 2 /\ Cardinality(ys) = 2
        THEN <<(<<Min(xs), Min(ys), Max(xs), Max(ys)>>)>> ELSE <<>>

\* _polygon_is_axis_aligned_rect.
RectOf(ring) == IF Len(ring) = 4 THEN Corners(ToSet(ring)) ELSE <<>>

\* _try_as_box, of offsets: the first point may come again at the end.
AsBox(ring) ==
    IF Len(ring) = 5 /\ ring[1] = ring[5] THEN RectOf(SubSeq(ring, 1, 4)) ELSE RectOf(ring)

Path(box, cells) == [status |-> 200, box |-> box, cells |-> cells]
Raises(code) == [status |-> code, box |-> <<>>, cells |-> {}]

OfRings(rings) ==
    Path(IF Len(rings) = 1 THEN RectOf(rings[1]) ELSE <<>>,
         UNION {Covered(rings[i]) : i \in DOMAIN rings})

OfBoxes(boxes) ==
    Path(IF Cardinality(boxes) = 1 THEN <<CHOOSE b \in boxes : TRUE>> ELSE <<>>,
         UNION {CellsOf(b) : b \in boxes})

\* Clipper2: the exact area, as one ring when it is a rectangle.
ClipperOp(installed, cells) ==
    LET xs == {c[1] : c \in cells}
        ys == {c[2] : c \in cells}
        around == <<Min(xs), Min(ys), Max(xs) + 1, Max(ys) + 1>>
    IN  IF ~installed THEN Raises(501)
        ELSE Path(IF cells # {} /\ cells = CellsOf(around) THEN <<around>> ELSE <<>>, cells)

AllRects(paths) == \A i \in DOMAIN paths : paths[i].box # <<>>
Boxes(paths) == [i \in DOMAIN paths |-> paths[i].box[1]]
AreaOf(paths) == UNION {paths[i].cells : i \in DOMAIN paths}

\* _rectangle_only: the intersection of the boxes in turn, and the box around them.
BoxesMet(boxes) ==
    LET met[n \in 0 .. Len(boxes) - 1] ==
          IF n = 0 THEN boxes[1] ELSE Intersect(met[n - 1], boxes[n + 1])
    IN  met[Len(boxes) - 1]

BoxesAround(boxes) ==
    LET around[n \in 0 .. Len(boxes) - 1] ==
          IF n = 0 THEN boxes[1] ELSE UnionBox(around[n - 1], boxes[n + 1])
    IN  around[Len(boxes) - 1]

\* polygon_intersect: Clipper intersects the first path with the union of the others.
PolygonIntersect(installed, paths) ==
    IF AllRects(paths)
    THEN OfBoxes({b \in {BoxesMet(Boxes(paths))} : ~IsEmptyBox(b)})
    ELSE ClipperOp(installed, paths[1].cells \cap AreaOf(Tail(paths)))

\* polygon_union: of rectangles, the box around them.
PolygonUnion(installed, paths) ==
    IF AllRects(paths) THEN OfBoxes({BoxesAround(Boxes(paths))})
    ELSE ClipperOp(installed, AreaOf(paths))

PolygonDifference(installed, subject, clip) ==
    IF AllRects(<<subject, clip>>) THEN OfBoxes(Difference(subject.box[1], clip.box[1]))
    ELSE ClipperOp(installed, subject.cells \ clip.cells)

\* One path after the other; what a step raises is the answer.
InTurn(installed, op, first, rest) ==
    LET Step(a, b) == IF op = "intersect" THEN PolygonIntersect(installed, <<a, b>>)
                      ELSE PolygonDifference(installed, a, b)
        done[n \in 0 .. Len(rest)] ==
          IF n = 0 THEN first ELSE IF done[n - 1].status # 200 THEN done[n - 1]
          ELSE Step(done[n - 1], rest[n])
    IN  done[Len(rest)]

\* _run_boolean.
RunBoolean(installed, op, subjects, clips) ==
    IF subjects = <<>> THEN Raises(400)
    ELSE CASE op = "union" -> PolygonUnion(installed, subjects \o clips)
           [] op = "intersect" ->
                IF clips = <<>> THEN PolygonIntersect(installed, subjects)
                ELSE InTurn(installed, op, subjects[1], Tail(subjects) \o clips)
           [] op = "difference" ->
                IF clips = <<>> THEN Raises(400) ELSE InTurn(installed, op, subjects[1], clips)

-----------------------------------------------------------------------------
(* Offset, and the step-and-repeat grid.                                   *)

Near(c, d) == (c[1] - d .. c[1] + d) \X (c[2] - d .. c[2] + d)

\* Every point within d, by the larger of its two distances (a mitred corner).
Grown(cells, d) ==
    IF d >= 0 THEN UNION {Near(c, d) : c \in cells}
    ELSE {c \in cells : Near(c, 0 - d) \subseteq cells}

Expanded(b, d) == {e \in {<<b[1] - d, b[2] - d, b[3] + d, b[4] + d>>} : ~IsEmptyBox(e)}

JoinTypes == {"miter", "round", "square"}

\* The corner Clipper makes: a right one stays sharp only under a miter_limit over the square
\* root of two, else it is squared. The end type does not come into it: of the values a request
\* may carry, "polygon" is the only key of end_map, and the path is always closed.
Corner(join, sharp) == IF join = "miter" /\ ~sharp THEN "square" ELSE join

\* All of the cell k is within d of c, at a corner; all of it is at least d away.
Swept(corner, c, k, d) ==
    LET dx == Highest(k[1] - c[1], c[1] - k[1])
        dy == Highest(k[2] - c[2], c[2] - k[2])
    IN  IF corner = "round" THEN dx * dx + dy * dy <= d * d
        ELSE (dx + dy) * (dx + dy) <= 2 * d * d

Spared(corner, c, k, d) ==
    LET dx == Highest(0, Highest(k[1] - c[1], c[1] - k[1]) - 1)
        dy == Highest(0, Highest(k[2] - c[2], c[2] - k[2]) - 1)
    IN  IF corner = "round" THEN dx * dx + dy * dy >= d * d
        ELSE (dx + dy) * (dx + dy) >= 2 * d * d

\* What Clipper's offset covers, to whole cells.
Offset(corner, cells, d) ==
    IF corner = "miter" THEN Grown(cells, d)
    ELSE IF d >= 0 THEN UNION {{k \in Near(c, d) : Swept(corner, c, k, d)} : c \in cells}
    ELSE {c \in cells : \A k \in Near(c, 0 - d) \ cells : Spared(corner, c, k, d)}

\* polygon_offset: without pyclipr, the boxes are expanded whatever the join.
PolygonOffset(installed, rings, d, join, sharp) ==
    IF rings = <<>> THEN OfBoxes({})
    ELSE IF installed
    THEN ClipperOp(TRUE, UNION {Offset(Corner(join, sharp), Covered(rings[i]), d) :
                                   i \in DOMAIN rings})
    ELSE IF \A i \in DOMAIN rings : AsBox(rings[i]) # <<>>
    THEN OfBoxes(UNION {Expanded(AsBox(rings[i])[1], d) : i \in DOMAIN rings})
    ELSE Raises(501)

\* How many cells fit side by side, MaxTiles at most.
Count(size, gutter, available) ==
    Cardinality({n \in 0 .. MaxTiles - 1 : (n + 1) * size + n * gutter <= available})

Inner(g) == <<g.sheet[1] + g.marks.left, g.sheet[2] + g.marks.bottom,
              g.sheet[3] - g.marks.right, g.sheet[4] - g.marks.top>>

NoTiles == [status |-> 400, rows |-> 0, cols |-> 0, cells |-> {}, used |-> <<>>]

\* The cells of rows and columns counted from the chosen origin.
TileAt(g, row, col) ==
    LET x == Inner(g)[1] + col * (g.cellW + g.gutterX)
        y == IF g.origin = "bottom-left" THEN Inner(g)[2] + row * (g.cellH + g.gutterY)
             ELSE Inner(g)[4] - (row + 1) * g.cellH - row * g.gutterY
    IN  <<x, y, x + g.cellW, y + g.cellH>>

\* geom_tile_endpoint and tile_grid.
TileGrid(g) ==
    LET inner == Inner(g)
        cols == Count(g.cellW, g.gutterX, Width(inner))
        rows == Count(g.cellH, g.gutterY, Height(inner))
        usedW == cols * g.cellW + (cols - 1) * g.gutterX
        usedH == rows * g.cellH + (rows - 1) * g.gutterY
        floor == IF g.origin = "bottom-left" THEN inner[2] ELSE inner[4] - usedH
    IN  IF \/ IsEmptyBox(g.sheet) \/ g.cellW <= 0 \/ g.cellH <= 0
           \/ g.gutterX < 0 \/ g.gutterY < 0 \/ IsEmptyBox(inner) \/ cols < 1 \/ rows < 1
        THEN NoTiles
        ELSE [status |-> 200, rows |-> rows, cols |-> cols,
              cells |-> {TileAt(g, r, c) : r \in 0 .. rows - 1, c \in 0 .. cols - 1},
              used |-> <<inner[1], floor, inner[1] + usedW, floor + usedH>>]

-----------------------------------------------------------------------------
Asked(what, installed, body) ==
    [what |-> what, installed |-> installed, body |-> body, answer |-> <<>>]

GeomInit ==
    \/ \E op \in {"union", "intersect", "difference"}, installed \in BOOLEAN,
          subjects, clips \in PathLists : geom = Asked(op, installed, <<subjects, clips>>)
    \/ \E installed, sharp \in BOOLEAN, p \in Polygons, d \in Distances, join \in JoinTypes :
          geom = Asked("offset", installed, <<(<<p>>), d, join, sharp>>)
    \/ \E g \in TileGrids : geom = Asked("tile", FALSE, g)

OfBody(paths) == [i \in DOMAIN paths |-> OfRings(paths[i])]

\* The answer of the endpoint.
GeomNext ==
    /\ geom.answer = <<>>
    /\ geom' = [geom EXCEPT !.answer = <<
           CASE geom.what = "tile" -> TileGrid(geom.body)
             [] geom.what = "offset" ->
                  PolygonOffset(geom.installed, geom.body[1], geom.body[2], geom.body[3],
                                geom.body[4])
             [] OTHER -> RunBoolean(geom.installed, geom.what,
                                    OfBody(geom.body[1]), OfBody(geom.body[2]))>>]

GeomSpec == GeomInit /\ [][GeomNext]_geom

-----------------------------------------------------------------------------
(* Property.                                                               *)

\* What each path of a request covers, the subjects' first.
Areas(subjects, clips) ==
    [i \in 1 .. Len(subjects) + Len(clips) |-> AreaOf(<<OfRings((subjects \o clips)[i])>>)]

Everywhere(all) == UNION {all[i] : i \in DOMAIN all}
InEach(all) == {c \in Everywhere(all) : \A i \in DOMAIN all : c \in all[i]}

\* The cells of the smallest box that holds some cells.
Around(cells) ==
    LET xs == {c[1] : c \in cells}
        ys == {c[2] : c \in cells}
    IN  (Min(xs) .. Max(xs)) \X (Min(ys) .. Max(ys))

\* A reference for the area, cell by cell: a difference is exact, and so are an intersection of
\* clips, of two subjects or of rectangles, and a union with a path that is no rectangle. The
\* rest is what the code does instead: of rectangles alone, a union
\* is the box around them; without clips Clipper intersects the first subject with the union of
\* the others, or with nothing.
AreaTrue(op, subjects, clips, area) ==
    LET all == Areas(subjects, clips)
    IN  CASE op = "difference" ->
               area = all[1] \ UNION {all[i] : i \in Len(subjects) + 1 .. Len(all)}
          [] op = "intersect" ->
               IF clips # <<>> \/ Len(subjects) = 2 \/ AllRects(OfBody(subjects))
               THEN area = InEach(all)
               ELSE area \subseteq all[1] /\ (Len(subjects) > 1 => InEach(all) \subseteq area)
          [] OTHER ->
               area = IF AllRects(OfBody(subjects \o clips)) THEN Around(Everywhere(all))
                      ELSE Everywhere(all)

\* The cells of a grid keep inside the marks and the gutter away from each other, fill
\* the used box, and leave no room for another row or column under the bound.
TilesFit(g, t) ==
    LET inner == Inner(g)
        Apart(a, b) == \/ a[3] + g.gutterX <= b[1] \/ b[3] + g.gutterX <= a[1]
                       \/ a[4] + g.gutterY <= b[2] \/ b[4] + g.gutterY <= a[2]
    IN  /\ Cardinality(t.cells) = t.rows * t.cols
        /\ \A c \in t.cells : CellsOf(c) \subseteq CellsOf(inner)
        /\ \A c, d \in t.cells : c # d => Apart(c, d)
        /\ \A c \in t.cells : CellsOf(c) \subseteq CellsOf(t.used)
        /\ \E c, d \in t.cells : t.used = <<c[1], c[2], d[3], d[4]>>
        /\ t.cols = MaxTiles \/ Width(inner) - Width(t.used) < g.cellW + g.gutterX
        /\ t.rows = MaxTiles \/ Height(inner) - Height(t.used) < g.cellH + g.gutterY

\* What a geometry endpoint answers with 200, with pyclipr and without it, whichever path through
\* the rectangle shortcuts a list of clips takes: the area the operation names, but for the
\* exceptions AreaTrue states and for the corners of an offset without pyclipr, which are always
\* mitred, whatever join was asked for; a grid fits its sheet.
GeometryTrue ==
    geom.answer # <<>> /\ geom.answer[1].status = 200 =>
        LET answer == geom.answer[1]
            body == geom.body
        IN  CASE geom.what = "tile" -> TilesFit(body, answer)
              [] geom.what = "offset" ->
                   answer.cells = Offset(IF geom.installed THEN Corner(body[3], body[4])
                                         ELSE "miter", Covered(body[1][1]), body[2])
              [] OTHER -> AreaTrue(geom.what, body[1], body[2], answer.cells)
=============================================================================
