--------------------------- MODULE StructuredGrids ---------------------------
(***************************************************************************)
(* Grids whose points have three indices: FVizImageData.c,                 *)
(* FVizRectilinearGrid.c and FVizStructuredGrid.c, the extract filters of  *)
(* the last two and the geometry filters of all.  An extent is a range per *)
(* axis; points and cells are numbered along the first axis first.         *)
(***************************************************************************)
EXTENDS Integers, Sequences, SequencesExt, FiniteSetsExt

CONSTANTS
    Ranges, \* of an axis, as first and last index
    None

VARIABLES
    style,  \* "image", "rectilinear" or "structured"
    extent,
    kept,   \* tuples of an image's arrays, points, or coordinates per axis
    output  \* None or what a filter made of the grid; read before the next edit

structuredVars == <<style, extent, kept, output>>

Axes == 1 .. 3
Empty == <<<<0, -1>>, <<0, -1>>, <<0, -1>>>>

-----------------------------------------------------------------------------
(* Numbers of points and cells *)

IsEmpty(e) == \E a \in Axes : e[a][2] < e[a][1]
Widths(e) == [a \in Axes |-> IF IsEmpty(e) THEN 0 ELSE e[a][2] - e[a][1] + 1]
CellWidths(e) == [a \in Axes |-> IF Widths(e)[a] > 1 THEN Widths(e)[a] - 1 ELSE Widths(e)[a]]
Product(w) == w[1] * w[2] * w[3]
PointCount(e) == Product(Widths(e))
CellCount(e) == Product(CellWidths(e))

Lows(e) == [a \in Axes |-> e[a][1]]
WithinWidths(w, e, place) == \A a \in Axes : place[a] - e[a][1] \in 0 .. w[a] - 1
IdWithin(w, e, place) ==
    (place[3] - e[3][1]) * w[1] * w[2] + (place[2] - e[2][1]) * w[1] + place[1] - e[1][1]
PlaceWithin(w, e, id) ==
    <<e[1][1] + ((id % (w[1] * w[2])) % w[1]), e[2][1] + ((id % (w[1] * w[2])) \div w[1]),
      e[3][1] + (id \div (w[1] * w[2]))>>

PointId(e, place) == IdWithin(Widths(e), e, place)
PointAt(e, id) == PlaceWithin(Widths(e), e, id)
CellId(e, place) == IdWithin(CellWidths(e), e, place)
CellAt(e, id) == PlaceWithin(CellWidths(e), e, id)

\* Corners of a cell go around, the third and the fourth of a binary count swapped.
Active(e) == SelectSeq(<<1, 2, 3>>, LAMBDA a : Widths(e)[a] > 1)
Code(axes, corner) ==
    IF style # "image"
    THEN IF axes >= 2 THEN <<0, 1, 3, 2, 4, 5, 7, 6>>[corner + 1] ELSE corner
    ELSE IF axes < 2 THEN corner
    ELSE CASE corner % 4 = 2 -> corner + 1 [] corner % 4 = 3 -> corner - 1 [] OTHER -> corner
Corner(e, cell, active, code) ==
    [a \in Axes |-> CellAt(e, cell)[a]
        + IF \E b \in DOMAIN active : active[b] = a /\ (code \div 2 ^ (b - 1)) % 2 = 1 THEN 1 ELSE 0]
CornersOver(e, cell, active) ==
    [c \in 1 .. 2 ^ Len(active) |-> PointId(e, Corner(e, cell, active, Code(Len(active), c - 1)))]
CellPointIds(e, cell) == CornersOver(e, cell, Active(e))

-----------------------------------------------------------------------------
(* Sampling of an image at halves of an index, where it holds a value per point *)

Value(place) == (2 + place[1]) * (3 + place[2]) * (4 + place[3])

\* The cell below a place and the way through it; the last of an axis belongs to the cell before.
LowerAt(e, twice, a) ==
    IF Widths(e)[a] <= 1 THEN e[a][1]
    ELSE IF twice[a] >= 2 * e[a][2] THEN e[a][2] - 1 ELSE twice[a] \div 2
WayAt(e, twice, a) ==
    IF Widths(e)[a] <= 1 THEN 0 ELSE IF twice[a] >= 2 * e[a][2] THEN 2 ELSE twice[a] % 2
Upper(active, corner) == {active[b] : b \in {b \in DOMAIN active : (corner \div 2 ^ (b - 1)) % 2 = 1}}
Weight(e, twice, active, upper) ==
    LET Part(w, a) == w * IF a \in upper THEN WayAt(e, twice, a) ELSE 2 - WayAt(e, twice, a)
    IN  FoldLeft(Part, 1, active)

\* In units of a weight, which are halves of every active axis.
Sample(e, twice) ==
    MapThenSumSet(LAMBDA corner :
        LET upper == Upper(Active(e), corner)
            place == [a \in Axes |-> LowerAt(e, twice, a) + (IF a \in upper THEN 1 ELSE 0)]
        IN  Weight(e, twice, Active(e), upper) * Value(PointAt(e, PointId(e, place))),
        0 .. 2 ^ Len(Active(e)) - 1)

-----------------------------------------------------------------------------
(* Grids *)

Init ==
    /\ style \in {"image", "rectilinear", "structured"}
    /\ extent = Empty
    /\ kept = IF style = "rectilinear" THEN <<None, None, None>> ELSE <<0>>
    /\ output = None

\* Arrays, points and coordinates of another number keep an extent out.
Accepts(e) ==
    IF style = "rectilinear" THEN \A a \in Axes : kept[a] \in {None, Widths(e)[a]}
    ELSE kept[1] \in {0, PointCount(e)}

SetExtent(e) ==
    /\ Accepts(e)
    /\ extent' = e /\ output' = None
    /\ UNCHANGED <<style, kept>>

\* fviz_image_data_allocate_point_scalars, fviz_structured_grid_set_points.
SetPoints ==
    /\ style # "rectilinear"
    /\ kept' = <<PointCount(extent)>> /\ output' = None
    /\ UNCHANGED <<style, extent>>

SetCoordinates(a) ==
    /\ style = "rectilinear"
    /\ kept' = [kept EXCEPT ![a] = Widths(extent)[a]]
    /\ output' = None
    /\ UNCHANGED <<style, extent>>

Clear ==
    /\ extent' = Empty /\ output' = None
    /\ kept' = IF style = "rectilinear" THEN <<None, None, None>> ELSE <<0>>
    /\ UNCHANGED style

\* What the filters ask of their input.
Valid ==
    CASE style = "image" -> TRUE
      [] style = "structured" -> kept[1] = PointCount(extent)
      [] style = "rectilinear" ->
            PointCount(extent) # 0 => \A a \in Axes : kept[a] = Widths(extent)[a]

-----------------------------------------------------------------------------
(* The extract filters *)

Intersection(e, f) ==
    LET both == [a \in Axes |-> <<Max({e[a][1], f[a][1]}), Min({e[a][2], f[a][2]})>>]
    IN  IF IsEmpty(both) THEN Empty ELSE both

\* Ghost levels widen what is asked of the input.
Wider(e, levels) == [a \in Axes |-> <<e[a][1] - levels, e[a][2] + levels>>]

\* All places of three ranges, the first axis fastest.
Sweep(r) ==
    FlattenSeq([k \in 1 .. r[3][2] - r[3][1] + 1 |->
        FlattenSeq([j \in 1 .. r[2][2] - r[2][1] + 1 |->
            [i \in 1 .. r[1][2] - r[1][1] + 1 |->
                <<r[1][1] + i - 1, r[2][1] + j - 1, r[3][1] + k - 1>>]])])
CellRanges(r) == [a \in Axes |-> <<r[a][1], IF r[a][2] > r[a][1] THEN r[a][2] - 1 ELSE r[a][1]>>]

\* A plane at the far side of a grid names cells that the grid does not have.
Served(r) ==
    \A place \in ToSet(Sweep(CellRanges(r))) : WithinWidths(CellWidths(extent), extent, place)

Extracted(r, points, cells) ==
    [kind |-> "extract", from |-> extent, extent |-> r,
     points |-> [n \in DOMAIN points |-> PointId(extent, points[n])],
     cells |-> IF IsEmpty(r) THEN <<>> ELSE [n \in DOMAIN cells |-> CellId(extent, cells[n])]]

Extract(wanted, exact) ==
    /\ style # "image" /\ Valid /\ output = None
    /\ exact => \A a \in Axes : wanted[a][1] >= extent[a][1] /\ wanted[a][2] <= extent[a][2]
    /\ \E r \in {Intersection(wanted, extent)} :
        /\ ~IsEmpty(r) => Served(r)
        /\ output' = Extracted(r, Sweep(r), Sweep(CellRanges(r)))
    /\ UNCHANGED <<style, extent, kept>>

-----------------------------------------------------------------------------
(* The geometry filters *)

\* Of a brick: its faces, the axis they are on and whether at its end.
Faces == <<<<1, 5, 8, 4>>, <<2, 3, 7, 6>>, <<1, 2, 6, 5>>, <<4, 8, 7, 3>>, <<1, 4, 3, 2>>, <<5, 6, 7, 8>>>>
OnBoundary(e, cell, face) ==
    LET a == (face + 1) \div 2
    IN  CellAt(e, cell)[a] = IF face % 2 = 1 THEN e[a][1] ELSE e[a][2] - 1

\* A quadrilateral becomes two triangles.
Primitives(ids) ==
    IF Len(ids) < 4 THEN <<ids>> ELSE <<<<ids[1], ids[2], ids[3]>>, <<ids[1], ids[3], ids[4]>>>>
FacesOf(e, cell) == SelectSeq(<<1, 2, 3, 4, 5, 6>>, LAMBDA face : OnBoundary(e, cell, face))
FacePrimitives(ids, faces) ==
    FlattenSeq([n \in DOMAIN faces |-> Primitives([c \in 1 .. 4 |-> ids[Faces[faces[n]][c]]])])
PrimitivesOf(e, cell, ids) ==
    IF Len(ids) < 8 THEN Primitives(ids) ELSE FacePrimitives(ids, FacesOf(e, cell))
Numbered(primitives, cell) ==
    [n \in DOMAIN primitives |-> [points |-> primitives[n], cell |-> cell]]

\* Triangles that the filter of images reserves room for.
EstimatedTriangles(e) ==
    LET w == CellWidths(e)
    IN  CASE Len(Active(e)) = 2 -> 2 * CellCount(e)
          [] Len(Active(e)) = 3 -> 4 * (w[1] * w[2] + w[2] * w[3] + w[3] * w[1])
          [] OTHER -> 0

Surface ==
    /\ Valid /\ output = None
    /\ output' = [kind |-> "surface", from |-> extent,
                  primitives |-> FlattenSeq([i \in 1 .. CellCount(extent) |->
                      Numbered(PrimitivesOf(extent, i - 1, CellPointIds(extent, i - 1)), i - 1)])]
    /\ UNCHANGED <<style, extent, kept>>

Next ==
    \/ \E e \in Ranges \X Ranges \X Ranges :
        \/ SetExtent(e)
        \/ \E exact \in BOOLEAN : Extract(e, exact)
        \/ Extract(Wider(e, 1), FALSE)
    \/ \E a \in Axes : SetCoordinates(a)
    \/ SetPoints \/ Clear \/ Surface

-----------------------------------------------------------------------------
\* Arrays, points and coordinates that a grid has fit its extent.
KeptFits ==
    IF style = "rectilinear" THEN \A a \in Axes : kept[a] \in {None, Widths(extent)[a]}
    ELSE kept[1] \in {0, PointCount(extent)}

\* Numbers and places of points and of cells are inverse to each other; the corners of a cell
\* are those of its box, and neighbours among them differ along one axis.
Numbering ==
    /\ \A id \in 0 .. PointCount(extent) - 1 :
        WithinWidths(Widths(extent), extent, PointAt(extent, id)) /\ PointId(extent, PointAt(extent, id)) = id
    /\ \A id \in 0 .. CellCount(extent) - 1 :
        /\ WithinWidths(CellWidths(extent), extent, CellAt(extent, id))
        /\ CellId(extent, CellAt(extent, id)) = id
        /\ \E ids \in {CellPointIds(extent, id)} :
            /\ Cardinality(ToSet(ids)) = Len(ids)
            /\ \A i \in DOMAIN ids, a \in Axes : PointAt(extent, ids[i])[a] - CellAt(extent, id)[a] \in {0, 1}
            /\ \A i \in DOMAIN ids :
                Len(ids) >= 4 =>
                    Cardinality({a \in Axes : PointAt(extent, ids[i])[a]
                        # PointAt(extent, ids[IF i % 4 = 0 THEN i - 3 ELSE i + 1])[a]}) = 1

\* A function that is linear along every axis is sampled exactly, at and between points.
SamplesExact ==
    (style = "image" /\ ~IsEmpty(extent)) =>
        \A x \in 2 * extent[1][1] .. 2 * extent[1][2], y \in 2 * extent[2][1] .. 2 * extent[2][2],
           z \in 2 * extent[3][1] .. 2 * extent[3][2] :
            8 * Sample(extent, <<x, y, z>>) = 2 ^ Len(Active(extent)) * (4 + x) * (6 + y) * (8 + z)

\* An extract's points and cells are the grid's at the same places.
ExtractsSame ==
    (output # None /\ output.kind = "extract") =>
        /\ Len(output.points) = PointCount(output.extent) /\ Len(output.cells) = CellCount(output.extent)
        /\ \A n \in DOMAIN output.points :
            PointAt(output.from, output.points[n]) = PointAt(output.extent, n - 1)
        /\ \A n \in DOMAIN output.cells :
            CellAt(output.from, output.cells[n]) = CellAt(output.extent, n - 1)

Cross(p, q, a) ==
    LET b == (a % 3) + 1
        c == (b % 3) + 1
    IN  p[b] * q[c] - p[c] * q[b]
From(place, base) == [a \in Axes |-> place[a] - base[a]]
TriangleAt(n) == [i \in 1 .. 3 |-> From(PointAt(output.from, output.primitives[n].points[i]), Lows(output.from))]
Edges(points) == {<<points[i], points[(i % Len(points)) + 1]>> : i \in DOMAIN points}

\* The surface of a volume is closed and encloses all its cells, its triangles as many as were
\* reserved; that of a plane covers every cell, the same way round; and every primitive's cell
\* has its points (docs/performance/PERFORMANCE.md:231).
SurfaceExact ==
    (output # None /\ output.kind = "surface") =>
        /\ \A n \in DOMAIN output.primitives :
            /\ output.primitives[n].cell < CellCount(output.from)
            /\ ToSet(output.primitives[n].points) \subseteq
                 ToSet(CellPointIds(output.from, output.primitives[n].cell))
        /\ Len(Active(output.from)) < 2 => Len(output.primitives) = CellCount(output.from)
        /\ Len(Active(output.from)) >= 2 => Len(output.primitives) = EstimatedTriangles(output.from)
        /\ Len(Active(output.from)) = 2 =>
            \E a \in Axes : \A n \in DOMAIN output.primitives :
                LET t == TriangleAt(n)
                IN  Cross(From(t[2], t[1]), From(t[3], t[1]), a) = IF a = 2 THEN -1 ELSE 1
        /\ Len(Active(output.from)) = 3 =>
            /\ \E edges \in {UNION {Edges(output.primitives[n].points) : n \in DOMAIN output.primitives}} :
                /\ Cardinality(edges) = 3 * Len(output.primitives)
                /\ \A edge \in edges : <<edge[2], edge[1]>> \in edges
            /\ MapThenSumSet(LAMBDA n :
                   LET t == TriangleAt(n)
                   IN  MapThenSumSet(LAMBDA a : t[1][a] * Cross(t[2], t[3], a), Axes),
                   DOMAIN output.primitives)
                 = 6 * CellCount(output.from)

GridsExact == KeptFits /\ Numbering /\ SamplesExact /\ ExtractsSame /\ SurfaceExact
=============================================================================
