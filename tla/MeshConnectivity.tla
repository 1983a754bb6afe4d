-------------------------- MODULE MeshConnectivity --------------------------
(***************************************************************************)
(* FVizCellLinks.c and FVizCellAdjacency.c: from the cells of a mesh to    *)
(* the cells of each point and the neighbours of each cell, in compressed  *)
(* rows.  A mesh is a sequence of cells [type, points]; points and cells   *)
(* are numbered from zero.                                                 *)
(***************************************************************************)
EXTENDS CellTables, TLC

CONSTANT HashSize    \* facets have this many different hash values

CellIds(m) == 0 .. Len(m) - 1
Cell(m, c) == m[c + 1]

-----------------------------------------------------------------------------
\* Rows filled in the order of the entries <<row, value>>: counted, summed up to
\* offsets, scattered.
Offsets(rows, entries) ==
    [r \in 0 .. rows |-> Cardinality({i \in DOMAIN entries : entries[i][1] < r})]

\* Each entry goes to where the cursor of its row stands when its turn comes.
Scatter(rows, entries) ==
    LET offsets == Offsets(rows, entries)
        position == [i \in DOMAIN entries |->
            1 + offsets[entries[i][1]]
            + Cardinality({j \in 1 .. i - 1 : entries[j][1] = entries[i][1]})]
    IN  [k \in DOMAIN entries |-> entries[CHOOSE i \in DOMAIN entries : position[i] = k][2]]

\* The rows, each from its offset to the next.
Filled(rows, entries) ==
    LET offsets == Offsets(rows, entries)
        scattered == Scatter(rows, entries)
    IN  [r \in 0 .. rows - 1 |-> SubSeq(scattered, offsets[r] + 1, offsets[r + 1])]

\* fviz_cell_links_build
Incidences(m) ==
    FlattenSeq([i \in DOMAIN m |-> [j \in DOMAIN m[i].points |-> <<m[i].points[j], i - 1>>]])

\* The cells of each point: a points-long table.
Links(m, points) == Filled(points, Incidences(m))

CellsForPoint(links, p) == IF p \in DOMAIN links THEN links[p] ELSE <<>>

-----------------------------------------------------------------------------
Dimension(t) ==
    CASE Linear(t) = "vertex" -> 0
      [] Linear(t) \in {"line", "poly_line"} -> 1
      [] Linear(t) \in {"triangle", "quad", "polygon", "triangle_strip"} -> 2
      [] OTHER -> 3

\* fviz_boundary_entity: ends, edges or faces of a cell, their points sorted.
Facets(cell) ==
    LET n == Len(cell.points)
        d == Dimension(cell.type)
        local ==
            CASE d = 0 -> <<>>
              [] cell.type = "poly_line" -> <<<<0>>, <<n - 1>>>>
              [] d = 1 /\ cell.type # "poly_line" -> <<<<0>>, <<1>>>>
              [] cell.type = "polygon" -> Ring(0, n)
              [] d = 2 /\ cell.type # "polygon" -> Edges(cell.type)
              [] OTHER -> Faces(cell.type)
    IN  [i \in DOMAIN local |->
            SortSeq([j \in DOMAIN local[i] |-> cell.points[local[i][j] + 1]], <)]

FacetHash(facet) == (FoldLeft(LAMBDA sum, p : 2 * sum + p, Len(facet), facet)) % HashSize

\* Facets with the same hash form a chain, the last one added first.
Find(records, heads, facet) ==
    LET Along[i \in 0 .. Len(records)] ==
            IF i = 0 \/ records[i].facet = facet THEN i ELSE Along[records[i].next]
    IN  Along[heads[FacetHash(facet)]]

Pair(a, b) == IF a < b THEN <<a, b>> ELSE <<b, a>>

\* Facet e of cell c: a new record, or a pair with each cell on the record's list.
NewRecordAlone(heads, facet, c) == [facet |-> facet, cells |-> <<c>>, next |-> 0]
NewRecord(heads, facet, c) == [facet |-> facet, cells |-> <<c>>, next |-> heads[FacetHash(facet)]]

AddFacet(s, e) ==
    LET found == Find(s.records, s.heads, e.facet) IN
    IF found = 0
    THEN [s EXCEPT !.records = Append(@, NewRecord(s.heads, e.facet, e.cell)),
                   !.heads[FacetHash(e.facet)] = Len(s.records) + 1]
    ELSE [s EXCEPT !.records[found].cells = Append(@, e.cell),
                   !.pairs = @ \cup {Pair(x, e.cell) : x \in ToSet(s.records[found].cells) \ {e.cell}}]

Labelled(c, facets) == [j \in DOMAIN facets |-> [cell |-> c, facet |-> facets[j]]]
CellFacets(m) == FlattenSeq([i \in DOMAIN m |-> Labelled(i - 1, Facets(m[i]))])

\* The pairs of neighbours, sorted and without duplicates.
Pairs(m) ==
    LET start == [records |-> <<>>, heads |-> [h \in 0 .. HashSize - 1 |-> 0], pairs |-> {}]
    IN  SetToSortSeq(FoldLeft(AddFacet, start, CellFacets(m)).pairs,
                     LAMBDA p, q : p[1] < q[1] \/ (p[1] = q[1] /\ p[2] < q[2]))

\* fviz_cell_adjacency_build: each pair is an entry of the row of either cell.
BothWays(pairs) ==
    FlattenSeq([i \in DOMAIN pairs |-> <<pairs[i], <<pairs[i][2], pairs[i][1]>>>>])

Sorted(rows) == [c \in DOMAIN rows |-> SortSeq(rows[c], <)]
Rows(m, entries) == Sorted(Filled(Len(m), entries))

Neighbors(m) == Rows(m, BothWays(Pairs(m)))

-----------------------------------------------------------------------------
\* A point has the cells that use it, in their order, once for each use; the
\* neighbours of a cell are the others with one of its facets, each once, however
\* many cells share the facet and whichever facets share a hash value.
RowsExact(m, points) ==
    /\ \A p \in 0 .. points - 1 :
        CellsForPoint(Links(m, points), p) =
            FlattenSeq([i \in DOMAIN m |->
                [k \in 1 .. Cardinality({j \in DOMAIN m[i].points : m[i].points[j] = p}) |->
                    i - 1]])
    /\ \A c \in CellIds(m) :
        Neighbors(m)[c] =
            SetToSortSeq({d \in CellIds(m) \ {c} :
                ToSet(Facets(Cell(m, c))) \cap ToSet(Facets(Cell(m, d))) # {}}, <)
=============================================================================
