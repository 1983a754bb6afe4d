----------------------------- MODULE CellTables -----------------------------
(***************************************************************************)
(* The tables of FVizCellTypeTraits.c: edges and faces of every cell type  *)
(* in local point numbers (from zero, as in the code) and the nodes of the *)
(* shape functions, which are written down a second time, as polynomials.  *)
(***************************************************************************)
EXTENDS Integers, Sequences, SequencesExt, FiniteSets, FiniteSetsExt

\* The linear type that has the corners of t.
Linear(t) ==
    CASE t \in {"quadratic_edge", "cubic_line"} -> "line"
      [] t \in {"quadratic_triangle", "biquadratic_triangle"} -> "triangle"
      [] t \in {"quadratic_quad", "biquadratic_quad", "quadratic_linear_quad", "pixel"} -> "quad"
      [] t = "quadratic_tetra" -> "tetra"
      [] t \in {"quadratic_hexahedron", "triquadratic_hexahedron",
                "biquadratic_quadratic_hexahedron"} -> "hexahedron"
      [] t \in {"quadratic_wedge", "quadratic_linear_wedge",
                "biquadratic_quadratic_wedge"} -> "wedge"
      [] t = "quadratic_pyramid" -> "pyramid"
      [] OTHER -> t

\* Corners of the base polygon.
Base(l) ==
    CASE l \in {"triangle", "tetra", "wedge"} -> 3
      [] l = "pentagonal_prism" -> 5
      [] l = "hexagonal_prism" -> 6
      [] OTHER -> 4

Ring(first, n) == [i \in 1 .. n |-> <<first + i - 1, first + (i % n)>>]
Risers(n) == [i \in 1 .. n |-> <<i - 1, n + i - 1>>]
Spokes(n) == [i \in 1 .. n |-> <<i - 1, n>>]

\* The rows a type copies into its table of edges.
EdgeRows(l) ==
    LET n == Base(l) IN
    CASE l = "vertex" -> <<>>
      [] l = "line" -> <<<<0, 1>>>>
      [] l \in {"triangle", "quad"} -> Ring(0, n)
      [] l \in {"tetra", "pyramid"} -> Ring(0, n) \o Spokes(n)
      [] l = "voxel" -> <<<<0, 1>>, <<1, 3>>, <<3, 2>>, <<2, 0>>, <<4, 5>>, <<5, 7>>,
                          <<7, 6>>, <<6, 4>>, <<0, 4>>, <<1, 5>>, <<2, 6>>, <<3, 7>>>>
      [] OTHER -> Ring(0, n) \o Ring(n, n) \o Risers(n)

\* Rows of corners.  A prism has its lower face the other way round than a wedge.
CornerRows(l) ==
    LET n == Base(l)
        floor == <<0>> \o [i \in 1 .. n - 1 |-> n - i]
        roof == [i \in 1 .. n |-> n + i - 1]
        walls == [i \in 1 .. n |-> <<i - 1, i % n, n + (i % n), n + i - 1>>]
        fan == [i \in 1 .. n |-> <<i - 1, i % n, n>>]
    IN  CASE l \in {"vertex", "line"} -> <<>>
          [] l \in {"triangle", "quad"} -> <<[i \in 1 .. n |-> i - 1]>>
          [] l \in {"tetra", "pyramid"} -> <<floor>> \o fan
          [] l = "voxel" -> <<<<0, 1, 3, 2>>, <<4, 5, 7, 6>>, <<0, 1, 5, 4>>, <<1, 3, 7, 5>>,
                              <<3, 2, 6, 7>>, <<2, 0, 4, 6>>>>
          [] l \in {"hexahedron", "wedge"} -> <<floor, roof>> \o walls
          [] OTHER -> <<[i \in 1 .. n |-> i - 1], roof>> \o walls

HexahedronMids == <<<<11, 10, 9, 8>>, <<12, 13, 14, 15>>, <<8, 17, 12, 16>>,
                    <<9, 18, 13, 17>>, <<10, 19, 14, 18>>, <<11, 16, 15, 19>>>>

\* What a face of a quadratic type has after its corners: the point of the side from
\* each corner to the next one, then those inside.
MidRows(t) ==
    CASE t = "quadratic_triangle" -> <<<<3, 4, 5>>>>
      [] t = "biquadratic_triangle" -> <<<<3, 4, 5, 6>>>>
      [] t = "quadratic_quad" -> <<<<4, 5, 6, 7>>>>
      [] t = "biquadratic_quad" -> <<<<4, 5, 6, 7, 8>>>>
      [] t = "quadratic_linear_quad" -> <<<<4, 5>>>>
      [] t = "quadratic_tetra" -> <<<<6, 5, 4>>, <<4, 8, 7>>, <<5, 9, 8>>, <<6, 7, 9>>>>
      [] t = "quadratic_hexahedron" -> HexahedronMids
      [] t \in {"triquadratic_hexahedron", "biquadratic_quadratic_hexahedron"} ->
            [i \in 1 .. 6 |-> Append(HexahedronMids[i], <<20, 22, 21, 23, 24, 25>>[i])]
      [] t = "quadratic_wedge" ->
            <<<<8, 7, 6>>, <<9, 10, 11>>, <<6, 13, 9, 12>>, <<7, 14, 10, 13>>, <<8, 12, 11, 14>>>>
      [] t = "quadratic_linear_wedge" -> <<<<8, 7, 6>>, <<9, 10, 11>>, <<>>, <<>>, <<>>>>
      [] t = "biquadratic_quadratic_wedge" ->
            <<<<8, 7, 6>>, <<9, 10, 11>>, <<12, 16, 9, 15>>, <<13, 17, 10, 16>>, <<14, 15, 11, 17>>>>
      [] t = "quadratic_pyramid" ->
            <<<<8, 7, 6, 5>>, <<5, 10, 9>>, <<6, 11, 10>>, <<7, 12, 11>>, <<8, 9, 12>>>>
      [] OTHER -> [i \in DOMAIN CornerRows(Linear(t)) |-> <<>>]

Joined(corners, mids) == [i \in DOMAIN corners |-> corners[i] \o mids[i]]

Faces(t) == Joined(CornerRows(Linear(t)), MidRows(t))

EdgeCount(t) == Len(EdgeRows(Linear(t)))

\* The table has room for twelve edges: the rows of a prism go on into the first face,
\* which is written afterwards.
EdgeRoom == 12
Spilled(rest, face) == [i \in DOMAIN rest |-> IF i <= Len(face) THEN face[i] ELSE rest[i]]

WithSpilled(rows, spilled) ==
    [i \in DOMAIN rows |->
        IF i <= EdgeRoom THEN rows[i]
        ELSE <<spilled[2 * (i - EdgeRoom) - 1], spilled[2 * (i - EdgeRoom)]>>]

EdgesIn(rows, face) ==
    WithSpilled(rows, Spilled(FlattenSeq(SubSeq(rows, EdgeRoom + 1, Len(rows))), face))

Edges(t) ==
    IF EdgeCount(t) <= EdgeRoom THEN EdgeRows(Linear(t))
    ELSE EdgesIn(EdgeRows(Linear(t)), Faces(t)[1])

-----------------------------------------------------------------------------
(* fviz_cell_type_shape_weights: where each weight is one and the others zero,  *)
(* in units of half the reference length (thirds for the cubic line)            *)

SquareCorners == <<<<-2, -2>>, <<2, -2>>, <<2, 2>>, <<-2, 2>>>>
TriangleCorners == <<<<0, 0>>, <<2, 0>>, <<0, 2>>>>
At(points, h) == [i \in DOMAIN points |-> Append(points[i], h)]

QuadEdgeNodes == <<<<0, -2>>, <<2, 0>>, <<0, 2>>, <<-2, 0>>>>
TriangleEdgeNodes == <<<<1, 0>>, <<1, 1>>, <<0, 1>>>>
HexahedronCorners == At(SquareCorners, -2) \o At(SquareCorners, 2)
HexahedronEdgeNodes == At(QuadEdgeNodes, -2) \o At(QuadEdgeNodes, 2) \o At(SquareCorners, 0)
TetraCorners == At(TriangleCorners, 0) \o <<<<0, 0, 2>>>>

Nodes(t) ==
    CASE t = "line" -> <<<<-2>>, <<2>>>>
      [] t = "quadratic_edge" -> <<<<-2>>, <<2>>, <<0>>>>
      [] t = "triangle" -> TriangleCorners
      [] t = "quadratic_triangle" -> TriangleCorners \o TriangleEdgeNodes
      [] t \in {"quad", "pixel"} -> SquareCorners
      [] t = "quadratic_linear_quad" -> SquareCorners \o <<<<0, -2>>, <<0, 2>>>>
      [] t = "quadratic_quad" -> SquareCorners \o QuadEdgeNodes
      [] t = "biquadratic_quad" -> SquareCorners \o QuadEdgeNodes \o <<<<0, 0>>>>
      [] t = "tetra" -> TetraCorners
      [] t = "quadratic_tetra" ->
            TetraCorners \o At(TriangleEdgeNodes, 0) \o <<<<0, 0, 1>>, <<1, 0, 1>>, <<0, 1, 1>>>>
      [] t \in {"hexahedron", "voxel"} -> HexahedronCorners
      [] t = "quadratic_hexahedron" -> HexahedronCorners \o HexahedronEdgeNodes
      [] t \in {"triquadratic_hexahedron", "biquadratic_quadratic_hexahedron"} ->
            HexahedronCorners \o HexahedronEdgeNodes
            \o <<<<0, 0, -2>>, <<0, -2, 0>>, <<0, 0, 2>>, <<2, 0, 0>>, <<0, 2, 0>>, <<-2, 0, 0>>,
                 <<0, 0, 0>>>>
      [] t = "wedge" -> At(TriangleCorners, -2) \o At(TriangleCorners, 2)
      [] t = "quadratic_wedge" ->
            At(TriangleCorners, 0) \o At(TriangleCorners, 2)
            \o At(TriangleEdgeNodes, 0) \o At(TriangleEdgeNodes, 2) \o At(TriangleCorners, 1)
      [] t = "quadratic_linear_wedge" ->
            LET rotated == <<TriangleEdgeNodes[2], TriangleEdgeNodes[3], TriangleEdgeNodes[1]>>
            IN  At(TriangleCorners, -2) \o At(TriangleCorners, 2)
                \o At(rotated, -2) \o At(rotated, 2)
      [] OTHER -> <<>>
=============================================================================
