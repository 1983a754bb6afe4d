---------------------------- MODULE CellTopology ----------------------------
(***************************************************************************)
(* What the tables of the cell types must have in common: one type after   *)
(* another is looked up.                                                   *)
(***************************************************************************)
EXTENDS CellTables

CONSTANTS CellTypes, None

VARIABLE type      \* the cell type whose tables are read

Init == type = None
Next == type' \in CellTypes /\ type' # type
Spec == Init /\ [][Next]_type

Corners(t) == CornerRows(Linear(t))
\* Side j of face i, from corner to corner.
Side(t, i, j) == LET f == Corners(t)[i] IN <<f[j], f[(j % Len(f)) + 1]>>
SidesOf(t) == {<<i, j>> \in (DOMAIN Corners(t)) \X (1 .. 6) : j <= Len(Corners(t)[i])}
Ends(e) == {e[1], e[2]}

\* Each edge the table gives is a side of a face and different from the others, and
\* each side of a face is an edge, of two faces if the cell is solid.
EdgesBoundFaces ==
    (type # None /\ Corners(type) # <<>>) =>
        LET edges == {Ends(e) : e \in ToSet(Edges(type))}
            sides == {Ends(Side(type, s[1], s[2])) : s \in SidesOf(type)}
        IN  /\ edges = sides
            /\ \A i, j \in 1 .. EdgeCount(type) :
                    Ends(Edges(type)[i]) = Ends(Edges(type)[j]) => i = j
            /\ Len(Corners(type)) > 1 =>
                    \A e \in edges :
                        {i \in DOMAIN Corners(type) : e \subseteq ToSet(Corners(type)[i])}
                            \in {{i, j} : i, j \in DOMAIN Corners(type)}
                            \ {{i} : i \in DOMAIN Corners(type)}

\* The point a face has for a side is, in the shape functions, between its ends and
\* the same for both faces of the side; the ends of an edge are, on a square or a
\* cube, neighbours.
NodesFitEdges ==
    LET MidOf(s) == MidRows(type)[s[1]][s[2]]
        ends(s) == Ends(Side(type, s[1], s[2]))
        withMid == {s \in SidesOf(type) :
                        Len(MidRows(type)[s[1]]) >= Len(Corners(type)[s[1]])}
        point(n) == Nodes(type)[n + 1]
    IN  type # None =>
            /\ \A s, u \in withMid : ends(s) = ends(u) => MidOf(s) = MidOf(u)
            /\ Nodes(type) # <<>> =>
                \A s \in withMid : \A k \in DOMAIN point(0) :
                    2 * point(MidOf(s))[k] = FoldSet(LAMBDA p, sum : sum + point(p)[k], 0, ends(s))
            /\ (Nodes(type) # <<>> /\ Linear(type) \in {"quad", "hexahedron", "voxel"}) =>
                \A e \in ToSet(Edges(type)) :
                    Cardinality({k \in DOMAIN point(0) : point(e[1])[k] # point(e[2])[k]}) = 1

\* Two faces pass through their common side in opposite directions.
FacesOriented ==
    type # None =>
        \A s, u \in SidesOf(type) :
            s # u => Side(type, s[1], s[2]) # Side(type, u[1], u[2])
=============================================================================
