--------------------------- MODULE RegionSelection ---------------------------
(***************************************************************************)
(* The regions of FVizSelection.c: which triangles, edges, points and      *)
(* actors, as they are displayed, a rectangle or a lasso selects; compared *)
(* with the separation of convex figures.  Pixels are exact.               *)
(***************************************************************************)
EXTENDS Integers, Sequences, FiniteSets

CONSTANT LastPixel \* of the display

VARIABLES
    figure, \* a displayed triangle
    lasso   \* a rectangle or a lasso of three corners

regionVars == <<figure, lasso>>

Pixels == (0..LastPixel) \X (0..LastPixel)
Orientation(a, b, c) == ((b[1] - a[1]) * (c[2] - a[2])) - ((b[2] - a[2]) * (c[1] - a[1]))
Before(p, q) == p[1] < q[1] \/ (p[1] = q[1] /\ p[2] < q[2])
Triangles == {t \in Pixels \X Pixels \X Pixels :
    Before(t[1], t[2]) /\ Before(t[1], t[3]) /\ Orientation(t[1], t[2], t[3]) # 0}
Rectangle(p, q) == <<p, <<q[1], p[2]>>, q, <<p[1], q[2]>>>>
Rectangles == {Rectangle(p, q) : p, q \in Pixels}
Lassos == {r \in Rectangles : r[1][1] < r[3][1] /\ r[1][2] < r[3][2]} \cup Triangles

\* The end of edge i of a polygon.
Following(polygon, i) == polygon[(i % Len(polygon)) + 1]

Dot(a, b, c) == ((c[1] - a[1]) * (b[1] - a[1])) + ((c[2] - a[2]) * (b[2] - a[2]))
PointOnSegment(p, a, b) ==
    Orientation(a, b, p) = 0 /\ Dot(a, b, p) >= 0 /\ Dot(a, b, p) <= Dot(a, b, b)

\* An edge that crosses the row of p to its right.
Crosses(p, a, b) ==
    /\ (a[2] > p[2]) # (b[2] > p[2])
    /\ IF b[2] > a[2] THEN Orientation(a, b, p) > 0 ELSE Orientation(a, b, p) < 0
PointInPolygon(p, polygon) ==
    \/ \E i \in DOMAIN polygon : PointOnSegment(p, polygon[i], Following(polygon, i))
    \/ Cardinality({i \in DOMAIN polygon : Crosses(p, polygon[i], Following(polygon, i))}) % 2 = 1

Opposite(x, y) == (x > 0 /\ y < 0) \/ (x < 0 /\ y > 0)
SegmentsIntersect(a, b, c, d) ==
    \/ /\ Opposite(Orientation(a, b, c), Orientation(a, b, d))
       /\ Opposite(Orientation(c, d, a), Orientation(c, d, b))
    \/ PointOnSegment(c, a, b) \/ PointOnSegment(d, a, b)
    \/ PointOnSegment(a, c, d) \/ PointOnSegment(b, c, d)

SegmentIntersectsPolygon(polygon, a, b) ==
    \/ PointInPolygon(a, polygon) \/ PointInPolygon(b, polygon)
    \/ \E i \in DOMAIN polygon : SegmentsIntersect(a, b, polygon[i], Following(polygon, i))

PointInTriangle(p, t) ==
    LET sides == {Orientation(t[i], Following(t, i), p) : i \in DOMAIN t}
    IN  ~((\E s \in sides : s < 0) /\ (\E s \in sides : s > 0))

TriangleIntersectsPolygon(polygon, t) ==
    \/ \E i \in DOMAIN t : PointInPolygon(t[i], polygon)
    \/ \E i \in DOMAIN polygon : PointInTriangle(polygon[i], t)
    \/ \E i \in DOMAIN t : SegmentIntersectsPolygon(polygon, t[i], Following(t, i))

\* Of an actor the corners of its box decide, and the corners of the lasso within the frame
\* around them.
ActorIntersects(polygon, corners) ==
    \/ \E i \in DOMAIN corners : PointInPolygon(corners[i], polygon)
    \/ \E i \in DOMAIN polygon : \A axis \in {1, 2} :
        /\ \E j \in DOMAIN corners : corners[j][axis] <= polygon[i][axis]
        /\ \E j \in DOMAIN corners : corners[j][axis] >= polygon[i][axis]

Init == figure \in Triangles /\ lasso \in Lassos

\* The program selects all.
Next == lasso' = Rectangle(<<0, 0>>, <<LastPixel, LastPixel>>) /\ UNCHANGED figure

-----------------------------------------------------------------------------
(* The reference: convex figures are apart if the line of an edge has one of them on one *)
(* side or on it, and the other strictly on the other side.                             *)

Separates(a, b, one, other) == \E side \in {-1, 1} :
    /\ \A i \in DOMAIN one : side * Orientation(a, b, one[i]) <= 0
    /\ \A j \in DOMAIN other : side * Orientation(a, b, other[j]) > 0
Disjoint(p, q) ==
    \/ \E i \in DOMAIN p : Separates(p[i], Following(p, i), p, q)
    \/ \E i \in DOMAIN q : Separates(q[i], Following(q, i), q, p)

\* A triangle, one of its edges or its corners is selected exactly if it shares a pixel with
\* the region, on the border or within; an actor of a rectangle only if its frame does.
RegionExact ==
    /\ TriangleIntersectsPolygon(lasso, figure) = ~Disjoint(figure, lasso)
    /\ \A i \in DOMAIN figure :
        PointInPolygon(figure[i], lasso) = ~Disjoint(<<figure[i], figure[i]>>, lasso)
    /\ (Len(lasso) = 4 /\ ActorIntersects(lasso, Rectangle(figure[1], figure[2]))) =>
        ~Disjoint(Rectangle(figure[1], figure[2]), lasso)
=============================================================================
