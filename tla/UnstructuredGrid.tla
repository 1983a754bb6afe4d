-------------------------- MODULE UnstructuredGrid --------------------------
(***************************************************************************)
(* FVizUnstructuredGridPieceFilter.c cuts a grid into pieces with layers   *)
(* of ghost cells; FVizUnstructuredGrid.c takes the visible geometry out   *)
(* of a grid.  The program edits the grid between the requests of the      *)
(* filter, which keeps the adjacency, the links and the owners of points   *)
(* for the cells it saw last.                                              *)
(***************************************************************************)
EXTENDS MeshConnectivity

CONSTANT LevelMax    \* marks a cell that was not reached: 65535 in the code

\* The first cell of a piece, and the piece of a cell, by two formulas of their own.
Boundary(count, piece, pieces) ==
    (count \div pieces) * piece
    + (IF piece < count % pieces THEN piece ELSE count % pieces)

OwnerForCell(count, c, pieces) ==
    LET quotient == count \div pieces
        large == (quotient + 1) * (count % pieces)
    IN  CASE c < large -> c \div (quotient + 1)
          [] c >= large /\ quotient = 0 -> c
          [] OTHER -> (count % pieces) + (c - large) \div quotient

\* A point belongs to the lowest piece among those of its cells.
PointOwners(count, points, links, pieces) ==
    [p \in 0 .. points - 1 |->
        LET owners == {OwnerForCell(count, c, pieces) : c \in ToSet(CellsForPoint(links, p))}
        IN  IF owners = {} THEN 0 ELSE Min(owners)]

-----------------------------------------------------------------------------
\* One more layer: the cells from s.begin on are those reached last.
ReachAgain(s, level, c) == [s EXCEPT !.ids = Append(@, c), !.level[c] = level]

Reach(s, level, c) ==
    IF s.level[c] # LevelMax THEN s
    ELSE [s EXCEPT !.ids = Append(@, c), !.level[c] = level]

Layer(neighbors, s, level) ==
    LET frontier == SubSeq(s.ids, s.begin + 1, Len(s.ids))
        next == FlattenSeq([i \in DOMAIN frontier |-> neighbors[frontier[i]]])
    IN  FoldLeft(LAMBDA t, c : Reach(t, level, c), [s EXCEPT !.begin = Len(s.ids)], next)

\* The cells of a piece, its own first, with their levels.
SelectCells(m, neighbors, piece, pieces, ghosts) ==
    LET first == Boundary(Len(m), piece, pieces)
        end == Boundary(Len(m), piece + 1, pieces)
        own == [ids |-> [i \in 1 .. end - first |-> first + i - 1], begin |-> 0,
                level |-> [c \in CellIds(m) |-> IF c \in first .. end - 1 THEN 0 ELSE LevelMax]]
    IN  IF own.ids = <<>> THEN own
        ELSE FoldLeft(LAMBDA s, level : Layer(neighbors, s, level), own,
                      [i \in 1 .. ghosts |-> i])

\* The points of the cells in the order of their first use.
UsedPoints(m, ids) ==
    LET used == FlattenSeq([i \in DOMAIN ids |-> Cell(m, ids[i]).points])
    IN  FoldLeft(LAMBDA s, p : IF p \in ToSet(s) THEN s ELSE Append(s, p), <<>>, used)

\* What the filter publishes: cells in local numbers, where cells and points come
\* from, which of them are ghosts.
Piece(m, neighbors, owners, piece, pieces, ghosts) ==
    LET selected == SelectCells(m, neighbors, piece, pieces, ghosts)
        source == UsedPoints(m, selected.ids)
        local(p) == SelectInSeq(source, LAMBDA q : q = p) - 1
    IN  [cells |-> [i \in DOMAIN selected.ids |->
                        LET cell == Cell(m, selected.ids[i])
                        IN  [type |-> cell.type,
                             points |-> [j \in DOMAIN cell.points |-> local(cell.points[j])]]],
         points |-> source, ids |-> selected.ids,
         ghost |-> [i \in DOMAIN selected.ids |-> selected.level[selected.ids[i]]],
         duplicate |-> {p \in ToSet(source) : owners[p] # piece}]

-----------------------------------------------------------------------------
\* Faces by their points, sorted; a face found again is counted.
InsertFace(table, face) ==
    LET key == SortSeq(face.ids, <)
        at == SelectInSeq(table, LAMBDA f : SortSeq(f.ids, <) = key)
    IN  IF at = 0 THEN Append(table, face)
        ELSE [table EXCEPT ![at].occurrences = @ + 1]

FacesOf(c, points, faces) ==
    [i \in DOMAIN faces |->
        [ids |-> [j \in DOMAIN faces[i] |-> points[faces[i][j] + 1]],
         cell |-> c, face |-> i, occurrences |-> 1]]

FaceTable(m) ==
    LET faces(t) == IF Dimension(t) = 3 THEN Faces(t) ELSE <<>>
        all == [i \in DOMAIN m |-> FacesOf(i - 1, m[i].points, faces(m[i].type))]
    IN  FoldLeft(InsertFace, <<>>, FlattenSeq(all))

Fan(s) == [i \in 1 .. Len(s) - 2 |-> <<s[1], s[i + 1], s[i + 2]>>]
Cycle(p) == <<p[1], p[5], p[2], p[6], p[3], p[7], p[4], p[8]>>

\* fviz_tessellate_high_order_face, fviz_geometry_emit_surface_cell: by the number of
\* points alone.
Tessellate(p) ==
    CASE Len(p) \in {3, 4} -> Fan(p)
      [] Len(p) = 6 -> <<<<p[1], p[4], p[6]>>, <<p[4], p[2], p[5]>>, <<p[6], p[5], p[3]>>,
                         <<p[4], p[5], p[6]>>>>
      [] Len(p) = 8 -> Fan(Cycle(p))
      [] Len(p) = 9 -> LET ring == Cycle(p)
                       IN  [i \in 1 .. 8 |-> <<p[9], ring[i], ring[(i % 8) + 1]>>]
      [] OTHER -> <<>>

Strip(p) == [i \in 1 .. Len(p) - 2 |->
                IF i % 2 = 1 THEN <<p[i], p[i + 1], p[i + 2]>> ELSE <<p[i + 1], p[i], p[i + 2]>>]

Primitives(cell) ==
    LET p == cell.points IN
    CASE Dimension(cell.type) = 0 -> [i \in DOMAIN p |-> <<p[i]>>]
      [] cell.type = "quadratic_edge" -> <<<<p[1], p[3]>>, <<p[3], p[2]>>>>
      [] cell.type \in {"line", "poly_line"} -> [i \in 1 .. Len(p) - 1 |-> <<p[i], p[i + 1]>>]
      [] cell.type = "polygon" -> Fan(p)
      [] cell.type = "triangle_strip" -> Strip(p)
      [] OTHER -> Tessellate(p)

\* Faces of one cell that is no ghost.
Outside(f, ghosts) == f.occurrences = 1 /\ f.cell \notin ghosts

From(c, primitives) == [i \in DOMAIN primitives |-> [ids |-> primitives[i], cell |-> c]]

CellsOf(m, d, ghosts) ==
    SelectSeq([i \in DOMAIN m |-> i - 1],
              LAMBDA c : c \notin ghosts /\ Dimension(Cell(m, c).type) = d)

Emitted(m, cells) ==
    FlattenSeq([i \in DOMAIN cells |-> From(cells[i], Primitives(Cell(m, cells[i])))])

Tessellated(faces) ==
    FlattenSeq([i \in DOMAIN faces |-> From(faces[i].cell, Tessellate(faces[i].ids))])

Skin(m, ghosts) == Tessellated(SelectSeq(FaceTable(m), LAMBDA f : Outside(f, ghosts)))

\* fviz_unstructured_grid_extract_geometry: vertices, lines, surface cells, then the
\* faces of solids, each with the cell it comes from.
ExtractGeometry(m, ghosts) ==
    FlattenSeq([d \in 1 .. 3 |-> Emitted(m, CellsOf(m, d - 1, ghosts))]) \o Skin(m, ghosts)

\* fviz_unstructured_grid_extract_surface, for grids of solids
Ids(primitives) == [i \in DOMAIN primitives |-> primitives[i].ids]
ExtractSurface(m, ghosts) == Ids(Skin(m, ghosts))

-----------------------------------------------------------------------------
CONSTANTS
    Cells,           \* what can be added
    Points, MorePoints,   \* points added before the first cell, and later at most
    MaxPieces, MaxGhosts,
    MaxChanges, None

VARIABLES
    mesh,            \* the cells
    points,          \* number of points
    cellsTime,       \* modification time of the cell array, unique to array and time
    clock,
    adjacency,       \* cache: [time, rows]
    links,           \* cache: [time, rows]
    owners           \* cache: [time, count, pieces, of]

gridVars == <<mesh, points, cellsTime, clock>>
cacheVars == <<adjacency, links, owners>>

Requests ==
    {r \in [piece : 0 .. MaxPieces - 1, pieces : 1 .. MaxPieces, ghosts : {0, MaxGhosts}] :
        r.piece < r.pieces}

Init ==
    /\ mesh = <<>> /\ points = 0
    /\ cellsTime = 0 /\ clock = 0
    /\ adjacency = None /\ links = None /\ owners = None

Change == clock < MaxChanges /\ clock' = clock + 1 /\ UNCHANGED cacheVars

\* Points have no part in the time of the cells.
AddPoints ==
    /\ Change
    /\ points' = IF points = 0 THEN Points ELSE points + 1
    /\ points' <= Points + MorePoints
    /\ UNCHANGED <<mesh, cellsTime>>

AddCell(cell) ==
    /\ Change
    /\ \A p \in ToSet(cell.points) : p < points
    /\ mesh' = Append(mesh, cell)
    /\ cellsTime' = clock + 1
    /\ UNCHANGED points

\* fviz_unstructured_grid_threshold_cells: a grid with some of the cells and all
\* points takes the place of this one.
Threshold(keep) ==
    /\ Change
    /\ LET kept == SelectSeq([i \in DOMAIN mesh |-> i], LAMBDA i : i \in keep)
       IN  mesh' = [i \in DOMAIN kept |-> mesh[kept[i]]]
    /\ cellsTime' = clock + 1
    /\ UNCHANGED points

Clear ==
    /\ Change
    /\ mesh # <<>> \/ points # 0
    /\ mesh' = <<>> /\ points' = 0
    /\ cellsTime' = IF mesh = <<>> THEN cellsTime ELSE clock + 1

Adjacency ==
    IF adjacency # None /\ adjacency.time = cellsTime THEN adjacency
    ELSE [time |-> cellsTime, rows |-> Neighbors(mesh)]

\* Points added since the links were built have no row: the key knows only the cells.
GetLinks ==
    IF links # None /\ links.time = cellsTime THEN links
    ELSE [time |-> cellsTime, rows |-> Links(mesh, points)]

OwnersValidByCells(pieces) ==
    /\ owners # None /\ links # None
    /\ owners.time = cellsTime /\ owners.pieces = pieces

OwnersValid(pieces) ==
    /\ owners # None /\ links # None
    /\ owners.time = cellsTime /\ owners.count = points /\ owners.pieces = pieces

OwnersBy(pieces, linked) ==
    IF OwnersValid(pieces) THEN owners
    ELSE [time |-> cellsTime, count |-> points, pieces |-> pieces,
          of |-> PointOwners(Len(mesh), points, linked.rows, pieces)]
Owners(pieces) == OwnersBy(pieces, GetLinks)

ProcessRequest(r) ==
    /\ adjacency' = IF r.ghosts # 0 /\ Boundary(Len(mesh), r.piece, r.pieces)
                                       # Boundary(Len(mesh), r.piece + 1, r.pieces)
                    THEN Adjacency ELSE adjacency
    /\ IF (r.pieces > 1 \/ r.ghosts # 0) /\ points # 0
       THEN \E linked \in {GetLinks} :
                /\ owners' = OwnersBy(r.pieces, linked)
                /\ links' = IF OwnersValid(r.pieces) THEN links ELSE linked
       ELSE UNCHANGED <<owners, links>>
    /\ UNCHANGED gridVars

Next ==
    \/ AddPoints \/ Clear
    \/ \E cell \in Cells : AddCell(cell)
    \/ \E keep \in SUBSET DOMAIN mesh : Threshold(keep)
    \/ \E r \in Requests : ProcessRequest(r)

-----------------------------------------------------------------------------
\* What is about the mesh alone is evaluated where no cache is filled: each mesh is
\* reached with none.
Uncached == adjacency = None /\ links = None /\ owners = None

Fresh(r) ==
    Piece(mesh, Neighbors(mesh), PointOwners(Len(mesh), points, Links(mesh, points), r.pieces),
          r.piece, r.pieces, r.ghosts)

\* Whatever was changed since the filter built its tables, a request finds the
\* neighbours and the owners that it would find in tables built now.
CachesTransparent ==
    LET fresh == Links(mesh, points) IN
    /\ Adjacency.rows = Neighbors(mesh)
    /\ \A pieces \in 1 .. MaxPieces :
        Owners(pieces).of = PointOwners(Len(mesh), points, fresh, pieces)

\* The cells at most n steps, from neighbour to neighbour, away from a set of cells.
Around(neighbors, cells) ==
    LET Near[n \in -1 .. MaxGhosts] ==
            CASE n = -1 -> {}
              [] n = 0 -> cells
              [] OTHER -> Near[n - 1] \cup UNION {ToSet(neighbors[c]) : c \in Near[n - 1]}
    IN  Near

Shown(pieces, ghosts) ==
    [i \in 0 .. pieces - 1 |-> Fresh([piece |-> i, pieces |-> pieces, ghosts |-> ghosts])]

ExactGhosts(piece, near, ghosts) ==
    /\ IsInjective(piece.ids)
    /\ ToSet(piece.ids) = near[ghosts]
    /\ \A j \in DOMAIN piece.ids :
            piece.ids[j] \in near[piece.ghost[j]] \ near[piece.ghost[j] - 1]

OwnedByOne(p, shown) ==
    Cardinality({i \in DOMAIN shown : p \in ToSet(shown[i].points) \ shown[i].duplicate}) = 1

Partition(neighbors, shown, ghosts) ==
    /\ \A i \in DOMAIN shown :
            LET own == {c \in CellIds(mesh) : OwnerForCell(Len(mesh), c, Cardinality(DOMAIN shown)) = i}
            IN  ExactGhosts(shown[i], Around(neighbors, own), ghosts)
    /\ \A p \in UNION {ToSet(cell.points) : cell \in ToSet(mesh)} : OwnedByOne(p, shown)

\* The pieces share out the cells, and each brings its ghosts with their exact level;
\* a point that cells use is owned by one piece and is a duplicate in the others.
PiecesPartition == Uncached =>
    \A pieces \in 1 .. MaxPieces : \A ghosts \in 0 .. MaxGhosts :
        Partition(Neighbors(mesh), Shown(pieces, ghosts), ghosts)

\* A piece's geometry, in the numbers of the grid.
InGrid(piece, geometry) ==
    [i \in DOMAIN geometry |->
        [ids |-> [k \in DOMAIN geometry[i].ids |-> piece.points[geometry[i].ids[k] + 1]],
         cell |-> piece.ids[geometry[i].cell + 1]]]

PieceGeometry(p) ==
    InGrid(p, ExtractGeometry(p.cells, {i - 1 : i \in {j \in DOMAIN p.ghost : p.ghost[j] # 0}}))

\* With at least one layer of ghosts, the geometry of the pieces together is the
\* geometry of the grid: no face between two pieces shows, no other is missing.
PiecesShowWhole == Uncached =>
    \A pieces \in 2 .. MaxPieces : \A ghosts \in 1 .. MaxGhosts :
        ToBag(FlattenSeq([i \in 1 .. pieces |->
                PieceGeometry(Fresh([piece |-> i - 1, pieces |-> pieces, ghosts |-> ghosts]))]))
        = ToBag(ExtractGeometry(mesh, {}))

Sides(triangles) ==
    FlattenSeq([i \in DOMAIN triangles |->
        [j \in 1 .. 3 |-> <<triangles[i][j], triangles[i][(j % 3) + 1]>>]])

Closed(sides) ==
    \A i \in DOMAIN sides :
        Cardinality({j \in DOMAIN sides : sides[j] = sides[i]})
        = Cardinality({j \in DOMAIN sides : sides[j] = <<sides[i][2], sides[i][1]>>})

ClosedIfFitting(solids) == IsInjective(solids) => Closed(Sides(ExtractSurface(solids, {})))

\* The surface of solids that fit together (Cells do, each added once) is closed: each
\* edge is passed as often one way as the other.
SurfaceClosed ==
    Uncached => ClosedIfFitting(SelectSeq(mesh, LAMBDA cell : Dimension(cell.type) = 3))

GridTables == Uncached => RowsExact(mesh, points)
=============================================================================
