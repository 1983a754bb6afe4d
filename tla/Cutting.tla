------------------------------ MODULE Cutting ------------------------------
(***************************************************************************)
(* Cuts of solids and of their surfaces: FVizClipPolyDataFilter.c with its *)
(* caps, FVizContourFilter.c, and the slices and isosurfaces of            *)
(* FVizUnstructuredGrid.c.  Coordinates are integers: lengths are measured *)
(* in parts that divide every edge exactly where a plane can cut it.       *)
(***************************************************************************)
EXTENDS CellTables, TLC

CONSTANTS
    Solids,     \* that are cut
    Normals,    \* of the planes
    MaxOffset   \* of a plane from the origin

VARIABLES
    solid, normal, offset

cuttingVars == <<solid, normal, offset>>

Dot(a, b) == (a[1] * b[1]) + (a[2] * b[2]) + (a[3] * b[3])
Times3(k, a) == <<k * a[1], k * a[2], k * a[3]>>
Plus3(a, b) == <<a[1] + b[1], a[2] + b[2], a[3] + b[3]>>
Minus3(a, b) == Plus3(a, Times3(-1, b))
Cross3(a, b) == <<(a[2] * b[3]) - (a[3] * b[2]), (a[3] * b[1]) - (a[1] * b[3]),
                  (a[1] * b[2]) - (a[2] * b[1])>>
Sum3(ps) == FoldLeft(Plus3, <<0, 0, 0>>, ps)

\* Parts of a unit of length.
Parts == 60

\* Corners of the solids, from zero.
Box == <<<<0, 0, 0>>, <<1, 0, 0>>, <<1, 1, 0>>, <<0, 1, 0>>,
         <<0, 0, 1>>, <<1, 0, 1>>, <<1, 1, 1>>, <<0, 1, 1>>>>
Corner == <<<<0, 0, 0>>, <<1, 0, 0>>, <<0, 1, 0>>, <<0, 0, 1>>>>
PointsOf(s) ==
    CASE s = "tetra" -> Corner
      [] s = "wedge" -> <<Box[1], Box[2], Box[4], Box[5], Box[6], Box[8]>>
      [] s = "tower" -> Box \o <<<<0, 0, 2>>>>
      [] s = "pair" -> Corner \o [i \in 1 .. 4 |-> Plus3(<<2, 0, 0>>, Corner[i])]

Consecutive(first, n) == [i \in 1 .. n |-> first + i - 1]
CellsOf(s) ==
    CASE s \in {"tetra", "wedge"} -> <<[type |-> s, points |-> Consecutive(0, Len(PointsOf(s)))]>>
      [] s = "tower" -> <<[type |-> "hexahedron", points |-> Consecutive(0, 8)],
                          [type |-> "pyramid", points |-> Consecutive(4, 5)]>>
      [] s = "pair" -> <<[type |-> "tetra", points |-> Consecutive(0, 4)],
                         [type |-> "tetra", points |-> Consecutive(4, 4)]>>

FacesOf(c) == LET rows == CornerRows(c.type) IN
    [f \in DOMAIN rows |-> [k \in DOMAIN rows[f] |-> c.points[rows[f][k] + 1]]]
AllFaces(s) == FlattenSeq([i \in DOMAIN CellsOf(s) |-> FacesOf(CellsOf(s)[i])])
Fan(polygon) == [k \in 1 .. Len(polygon) - 2 |-> <<polygon[1], polygon[k + 1], polygon[k + 2]>>]

\* The surface of a solid in triangles, outside up.
SkinOf(s) ==
    LET faces == AllFaces(s)
        outer == SelectSeq(faces, LAMBDA f :
                     Cardinality({i \in DOMAIN faces : ToSet(faces[i]) = ToSet(f)}) = 1)
    IN  FlattenSeq([i \in DOMAIN outer |-> Fan(outer[i])])

Init ==
    /\ \E s \in Solids :
           solid = [points |-> PointsOf(s), cells |-> CellsOf(s), skin |-> SkinOf(s)]
    /\ normal \in Normals
    /\ offset = -MaxOffset

\* The plane sweeps through the solid.
Next == offset < MaxOffset /\ offset' = offset + 1 /\ UNCHANGED <<solid, normal>>

Height(i) == Dot(normal, solid.points[i + 1]) - offset

\* A vertex of a cut is the set of a corner, or of the ends of an edge.
Located(v) ==
    LET low == CHOOSE i \in v : \A j \in v : Height(i) <= Height(j)
        high == CHOOSE i \in v : \A j \in v : Height(i) >= Height(j)
        p == Times3(Parts, solid.points[low + 1])
        way == Minus3(Times3(Parts, solid.points[high + 1]), p)
    IN  IF Height(low) = Height(high) THEN p
        ELSE Plus3(p, [k \in 1 .. 3 |-> (way[k] * (-Height(low))) \div (Height(high) - Height(low))])

-----------------------------------------------------------------------------
\* The clip filter.

Keep(i, insideOut) == IF insideOut THEN Height(i) <= 0 ELSE Height(i) >= 0

\* (As if the plane were met only on the way out.)
ClippedAtExit(s, e, insideOut) ==
    IF Keep(s, insideOut)
    THEN IF Keep(e, insideOut) THEN <<{e}>> ELSE <<{s, e}>>
    ELSE IF Keep(e, insideOut) THEN <<{e}>> ELSE <<>>
\* What an edge leaves of a triangle.
Clipped(s, e, insideOut) ==
    IF Keep(s, insideOut)
    THEN IF Keep(e, insideOut) THEN <<{e}>> ELSE <<{s, e}>>
    ELSE IF Keep(e, insideOut) THEN <<{s, e}, {e}>> ELSE <<>>
Polygon(t, insideOut) ==
    FlattenSeq([k \in 1 .. 3 |-> Clipped(t[k], t[(k % 3) + 1], insideOut)])
IsCut(v) == Cardinality(v) = 2

\* The two cut vertices of a polygon, if it has them.
Segment(polygon) == LET cut == SelectSeq(polygon, IsCut) IN IF Len(cut) = 2 THEN <<cut>> ELSE <<>>

\* Axes in the plane of a cut; what is kept lies behind it.
Outward(insideOut) == IF insideOut THEN normal ELSE Times3(-1, normal)
CapAxes(insideOut) ==
    LET n == Outward(insideOut)
        reference == IF 100 * n[1] * n[1] < 64 * Dot(n, n) THEN <<1, 0, 0>> ELSE <<0, 1, 0>>
        u == Cross3(reference, n)
    IN  <<u, Cross3(n, u)>>
Flat(v, axes) == <<Dot(Located(v), axes[1]), Dot(Located(v), axes[2])>>
Turn(a, b, c) == ((b[1] - a[1]) * (c[2] - a[2])) - ((b[2] - a[2]) * (c[1] - a[1]))

Around(k, n) == ((k - 1) % n) + 1
IsEar(ring, k, at) ==
    \E p \in {at[ring[Around(k + Len(ring) - 1, Len(ring))]]}, n \in {at[ring[Around(k + 1, Len(ring))]]} :
        /\ Turn(p, at[ring[k]], n) > 0
        /\ \A j \in DOMAIN ring \ {k, Around(k + Len(ring) - 1, Len(ring)), Around(k + 1, Len(ring))} :
               LET q == at[ring[j]] IN
               ~(/\ Turn(p, at[ring[k]], q) >= 0
                 /\ Turn(at[ring[k]], n, q) >= 0
                 /\ Turn(n, p, q) >= 0)

\* Ears of a loop, cut off one after the other; none if it is not simple.
RECURSIVE Ears(_, _)
Ears(ring, at) ==
    IF Len(ring) = 3 THEN <<ring>>
    ELSE LET ears == {k \in DOMAIN ring : IsEar(ring, k, at)} IN
         IF ears = {} THEN <<>>
         ELSE \* the first one
              LET k == Min(ears)
                  rest == Ears(RemoveAt(ring, k), at)
              IN  IF rest = <<>> THEN <<>>
                  ELSE <<<<ring[Around(k + Len(ring) - 1, Len(ring))], ring[k],
                           ring[Around(k + 1, Len(ring))]>>>> \o rest

DoubleArea(ring, at) ==
    FoldLeft(LAMBDA sum, k :
                 sum + (at[ring[k]][1] * at[ring[Around(k + 1, Len(ring))]][2])
                     - (at[ring[Around(k + 1, Len(ring))]][1] * at[ring[k]][2]),
             0, Consecutive(1, Len(ring)))

\* A loop that is capped, or the reason that it is not.
Capped(loop, insideOut) ==
    IF Len(loop) < 3 THEN [ok |-> TRUE, triangles |-> <<>>]
    ELSE LET axes == CapAxes(insideOut)
             at == [v \in ToSet(loop) |-> Flat(v, axes)]
             area == DoubleArea(loop, at)
             cap == Ears(IF area < 0 THEN Reverse(loop) ELSE loop, at)
         IN  [ok |-> area # 0 /\ cap # <<>>, triangles |-> cap]

\* Segments are followed from the first one that is left until its loop is closed.
RECURSIVE Follow(_, _, _)
Follow(loop, current, left) ==
    IF current = loop[1] THEN [ok |-> TRUE, loop |-> loop, left |-> left]
    ELSE LET next == {i \in DOMAIN left : current \in ToSet(left[i])} IN
         IF next = {} THEN [ok |-> FALSE, loop |-> loop, left |-> left]
         ELSE LET s == left[Min(next)] IN
              Follow(Append(loop, current), IF s[1] = current THEN s[2] ELSE s[1],
                     RemoveAt(left, Min(next)))

RECURSIVE Caps(_, _)
Caps(segments, insideOut) ==
    IF segments = <<>> THEN [ok |-> TRUE, triangles |-> <<>>]
    ELSE LET found == Follow(<<segments[1][1]>>, segments[1][2], Tail(segments)) IN
         IF ~found.ok THEN [ok |-> FALSE, triangles |-> <<>>]
         ELSE LET cap == Capped(found.loop, insideOut)
                  more == Caps(found.left, insideOut)
              IN  [ok |-> cap.ok /\ more.ok, triangles |-> cap.triangles \o more.triangles]

\* fviz_clip_poly_data_filter_process_request with caps.  The caps come last.
Clip(insideOut) ==
    LET polygons == [i \in DOMAIN solid.skin |-> Polygon(solid.skin[i], insideOut)]
        caps == Caps(FlattenSeq([i \in DOMAIN polygons |-> Segment(polygons[i])]), insideOut)
        kept == FlattenSeq([i \in DOMAIN polygons |-> Fan(polygons[i])])
    IN  [ok |-> caps.ok, triangles |-> kept \o caps.triangles, caps |-> Len(caps.triangles)]

-----------------------------------------------------------------------------
\* The contour filter: segments of one level.  As of a plane that is level higher.

Above(i, level) == Height(i) >= level
Crossed(t, level) ==
    SelectSeq([k \in 1 .. 3 |-> <<t[k], t[(k % 3) + 1]>>],
              LAMBDA e : Above(e[1], level) # Above(e[2], level))
\* Two edges of a triangle are crossed, or none.
ContourSegments(level) ==
    LET crossed == [i \in DOMAIN solid.skin |-> Crossed(solid.skin[i], level)]
        valid == SelectSeq(crossed, LAMBDA es : Len(es) = 2)
    IN  [i \in DOMAIN valid |-> [k \in 1 .. 2 |-> ToSet(valid[i][k])]]

-----------------------------------------------------------------------------
\* Slices of cells: fviz_slice_construct_range, with tables of edges of its own.

SliceEdges(type) ==
    CASE type = "tetra" -> <<<<0, 1>>, <<0, 2>>, <<0, 3>>, <<1, 2>>, <<1, 3>>, <<2, 3>>>>
      [] type = "hexahedron" -> Ring(0, 4) \o Ring(4, 4) \o Risers(4)
      [] type = "wedge" -> Ring(0, 3) \o Ring(3, 3) \o Risers(3)
      [] type = "pyramid" -> Ring(0, 4) \o Spokes(4)

\* Corners in the plane, then edges that it crosses.
SlicePoints(c) ==
    LET edges == [k \in DOMAIN SliceEdges(c.type) |->
                     [j \in 1 .. 2 |-> c.points[SliceEdges(c.type)[k][j] + 1]]]
        on == SelectSeq(c.points, LAMBDA i : Height(i) = 0)
        crossed == SelectSeq(edges, LAMBDA e : Height(e[1]) * Height(e[2]) < 0)
    IN  [k \in DOMAIN on |-> {on[k]}] \o [k \in DOMAIN crossed |-> ToSet(crossed[k])]

SliceAxes ==
    LET up == IF 100 * normal[2] * normal[2] > 81 * Dot(normal, normal)
              THEN <<1, 0, 0>> ELSE <<0, 1, 0>>
        u == Cross3(normal, up)
    IN  <<u, Cross3(normal, u)>>

\* The order of the angles that atan2 gives: below the axis, on it, above it, behind.
Sector(p) == IF p[2] < 0 THEN 1 ELSE IF p[2] > 0 THEN 3 ELSE IF p[1] > 0 THEN 2 ELSE 4
AngleBefore(p, q) ==
    \/ Sector(p) < Sector(q)
    \/ Sector(p) = Sector(q) /\ Turn(<<0, 0>>, p, q) > 0

\* The outline of a cell's slice, sorted by the angles around its centre.
Outline(c) ==
    LET points == SlicePoints(c)
        total == Sum3([k \in DOMAIN points |-> Located(points[k])])
        rel == [v \in ToSet(points) |->
                   LET p == Minus3(Times3(Len(points), Located(v)), total) IN
                   <<Dot(p, SliceAxes[1]), Dot(p, SliceAxes[2])>>]
    IN  IF Len(points) < 3 THEN <<>>
        ELSE SortSeq(points, LAMBDA v, w : AngleBefore(rel[v], rel[w]))

-----------------------------------------------------------------------------
\* Isosurfaces: marching tetrahedra, five in a hexahedron.

Five == <<<<0, 1, 2, 5>>, <<0, 2, 3, 7>>, <<0, 4, 5, 7>>, <<2, 5, 6, 7>>, <<0, 2, 5, 7>>>>
Tetrahedra(c) ==
    CASE Len(c.points) = 4 -> <<c.points>>
      [] Len(c.points) = 8 -> [k \in 1 .. 5 |-> [j \in 1 .. 4 |-> c.points[Five[k][j] + 1]]]
      [] OTHER -> <<>>

\* One corner apart: three edges between the others.  Two and two: a quadrilateral.
March(t) ==
    LET above == SelectSeq(t, LAMBDA i : Height(i) >= 0)
        below == SelectSeq(t, LAMBDA i : Height(i) < 0)
        apart == IF Len(above) = 1 THEN above ELSE below
        o == SelectSeq(t, LAMBDA i : i # apart[1])
        quad(i, j) == {above[i], below[j]}
    IN  CASE Len(above) \in {1, 3} -> <<<<{o[1], o[2]}, {o[1], o[3]}, {o[2], o[3]}>>>>
          [] Len(above) = 2 -> <<<<quad(1, 1), quad(1, 2), quad(2, 2)>>,
                                 <<quad(1, 1), quad(2, 2), quad(2, 1)>>>>
          [] OTHER -> <<>>

-----------------------------------------------------------------------------
EdgeUses(triangles, a, b) ==
    Cardinality({<<i, k>> \in (DOMAIN triangles) \X (1 .. 3) :
                    triangles[i][k] = a /\ triangles[i][(k % 3) + 1] = b})

\* Every edge has one triangle on each side, the other way round.
Closed(triangles) ==
    \A i \in DOMAIN triangles, k \in 1 .. 3 :
        \E a \in {triangles[i][k]}, b \in {triangles[i][(k % 3) + 1]} :
            EdgeUses(triangles, a, b) = 1 /\ EdgeUses(triangles, b, a) = 1

OnPlane == \E i \in 1 .. Len(solid.points) : Height(i - 1) = 0

\* The capped half of a solid is closed again, its caps facing outward; a half fails to
\* be capped only if a corner of the solid lies in the plane.
CapsClose ==
    \A insideOut \in BOOLEAN :
        \E half \in {Clip(insideOut)} :
            IF half.ok THEN Closed(half.triangles) ELSE OnPlane

VectorArea(t) ==
    Cross3(Minus3(Located(t[2]), Located(t[1])), Minus3(Located(t[3]), Located(t[1])))
Share(t, insideOut) ==
    LET fan == Fan(Polygon(t, insideOut)) IN Sum3([k \in DOMAIN fan |-> VectorArea(fan[k])])

\* The two halves share out every triangle that is not in the plane.
HalvesShare ==
    \A i \in DOMAIN solid.skin :
        \E t \in {solid.skin[i]} :
            (\E k \in 1 .. 3 : Height(t[k]) # 0) =>
                Plus3(Share(t, TRUE), Share(t, FALSE))
                    = VectorArea([k \in 1 .. 3 |-> {t[k]}])

\* The contour of the heights at the plane is what the clip cuts.
ContourIsCut ==
    ToSet([i \in DOMAIN ContourSegments(0) |-> ToSet(ContourSegments(0)[i])])
        = UNION {{ToSet(s) : s \in ToSet(Segment(Polygon(solid.skin[i], FALSE)))} :
                     i \in DOMAIN solid.skin}

\* A slice of a cell goes around it from face to face, through each face that it crosses:
\* the slices of neighbours meet.
SlicesMeet ==
    \A i \in DOMAIN solid.cells :
        \E outline \in {Outline(solid.cells[i])}, faces \in {ToSet(FacesOf(solid.cells[i]))} :
            /\ \A k \in DOMAIN outline :
                   \E f \in faces : outline[k] \cup outline[Around(k + 1, Len(outline))] \subseteq ToSet(f)
            /\ \A f \in faces :
                   (\E a, b \in ToSet(f) : Height(a) * Height(b) < 0) =>
                       Cardinality({k \in DOMAIN outline :
                           outline[k] \cup outline[Around(k + 1, Len(outline))] \subseteq ToSet(f)}) = 1

\* Where two corners of a tetrahedron are above, its two triangles are a quadrilateral
\* from face to face.
QuadsMeet ==
    \A i \in DOMAIN solid.cells : \A t \in ToSet(Tetrahedra(solid.cells[i])) :
        \E m \in {March(t)} :
            Len(m) = 2 => \A e \in {<<m[1][1], m[1][2]>>, <<m[1][2], m[1][3]>>,
                                    <<m[2][2], m[2][3]>>, <<m[2][3], m[2][1]>>} :
                              Cardinality(e[1] \cup e[2]) = 3

\* Points of an isosurface lie between corners above and below.  It does not hold
\* (README, section 4).
IsoBetween ==
    \A i \in DOMAIN solid.cells : \A t \in ToSet(Tetrahedra(solid.cells[i])) :
        \A m \in ToSet(March(t)) : \A k \in 1 .. 3 :
            \E a, b \in m[k] : Height(a) >= 0 /\ Height(b) < 0

CutsExact == CapsClose /\ HalvesShare /\ ContourIsCut /\ SlicesMeet /\ QuadsMeet
=============================================================================
