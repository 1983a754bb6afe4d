--------------------------- MODULE SurfaceFilters ---------------------------
(***************************************************************************)
(* Filters of poly data: FVizGeometryFilters.c (triangles, regions, edges),*)
(* FVizPolyDataFilters.c (clean, append) and FVizMeshProcessingFilters.c   *)
(* (smooth, decimate).  Poly data is a sequence of cells, vertices before  *)
(* lines before polygons before strips, over points with integer           *)
(* coordinates; points and cells are numbered from one.                    *)
(***************************************************************************)
EXTENDS Integers, Sequences, SequencesExt, FiniteSets, FiniteSetsExt, TLC

CONSTANTS
    Locations,  \* of the points
    PatchCells, \* the cells there can be
    MaxPatchCells,
    Tolerances, \* of the clean filter
    Resolution  \* of the decimation along each axis

VARIABLES
    surface,    \* the cells
    tolerance,
    merged,     \* the point that each is cleaned to
    clusters    \* the point that stands for its cluster

surfaceVars == <<surface, tolerance, merged, clusters>>

Kinds == <<"vert", "line", "poly", "strip">>
Rank(kind) == CHOOSE k \in 1 .. 4 : Kinds[k] = kind
Sorted(cells) == \A i \in 1 .. Len(cells) - 1 : Rank(cells[i].kind) <= Rank(cells[i + 1].kind)

-----------------------------------------------------------------------------
\* The triangle filter: fans of polygons; every other triangle of a strip turned over.

Fan(ids) == [k \in 1 .. Len(ids) - 2 |-> <<ids[1], ids[k + 1], ids[k + 2]>>]
Stripe(ids) ==
    [k \in 1 .. Len(ids) - 2 |->
        IF k % 2 = 1 THEN <<ids[k], ids[k + 1], ids[k + 2]>> ELSE <<ids[k + 1], ids[k], ids[k + 2]>>]
Pieces(c) ==
    CASE c.kind = "vert" -> [k \in DOMAIN c.ids |-> <<c.ids[k]>>]
      [] c.kind = "line" -> [k \in 1 .. Len(c.ids) - 1 |-> <<c.ids[k], c.ids[k + 1]>>]
      [] c.kind = "poly" -> Fan(c.ids)
      [] OTHER -> Stripe(c.ids)

\* With the cell that each comes from, which gives it its data.
Triangulated(cells) ==
    FlattenSeq([i \in DOMAIN cells |->
        LET pieces == Pieces(cells[i]) IN
        [k \in DOMAIN pieces |->
            [kind |-> IF cells[i].kind = "strip" THEN "poly" ELSE cells[i].kind,
             ids |-> pieces[k], source |-> i]]])

-----------------------------------------------------------------------------
\* Regions: fviz_connectivity_union over the first cell that has each point.

RECURSIVE Root(_, _)
Root(parent, i) == IF parent[i] = i THEN i ELSE Root(parent, parent[i])

\* Ranks decide which root stays.  (Paths that are shortened keep their roots.)
Joined(f, a, b) ==
    LET ra == Root(f.parent, a)
        rb == Root(f.parent, b)
    IN  IF ra = rb THEN f
        ELSE IF f.rank[ra] < f.rank[rb] THEN [f EXCEPT !.parent[ra] = rb]
        ELSE IF f.rank[ra] > f.rank[rb] THEN [f EXCEPT !.parent[rb] = ra]
        ELSE [f EXCEPT !.parent[rb] = ra, !.rank[ra] = @ + 1]

Seen(f, cell, p) ==
    IF f.first[p] = 0 THEN [f EXCEPT !.first[p] = cell] ELSE Joined(f, cell, f.first[p])

Forest(cells) ==
    FoldLeft(LAMBDA f, i : FoldLeft(LAMBDA g, p : Seen(g, i, p), f, cells[i].ids),
             [parent |-> [i \in DOMAIN cells |-> i], rank |-> [i \in DOMAIN cells |-> 0],
              first |-> [p \in DOMAIN Locations |-> 0]],
             [i \in DOMAIN cells |-> i])

\* Regions are numbered in the order of their first cells.
RegionsOf(roots) ==
    [i \in DOMAIN roots |-> Cardinality({roots[j] : j \in 1 .. Min({k \in DOMAIN roots : roots[k] = roots[i]})})]
Regions(cells) == LET f == Forest(cells) IN RegionsOf([i \in DOMAIN cells |-> Root(f.parent, i)])

SizeOf(regions, r) == Cardinality({i \in DOMAIN regions : regions[i] = r})
\* The first of the largest.
LargestRegion(regions) ==
    CHOOSE r \in ToSet(regions) :
        \A s \in ToSet(regions) :
            SizeOf(regions, r) > SizeOf(regions, s) \/ (SizeOf(regions, r) = SizeOf(regions, s) /\ r <= s)

Extracted(cells, regions) ==
    LET largest == LargestRegion(regions) IN {i \in DOMAIN cells : regions[i] = largest}

-----------------------------------------------------------------------------
\* Edges of polygons and strips, and how many cells have them.

RingOf(ids) == [k \in DOMAIN ids |-> {ids[k], ids[(k % Len(ids)) + 1]}]
EdgesOf(c) ==
    CASE c.kind = "poly" -> SelectSeq(RingOf(c.ids), LAMBDA e : Cardinality(e) = 2)
      [] c.kind = "strip" -> FlattenSeq([k \in DOMAIN Stripe(c.ids) |-> RingOf(Stripe(c.ids)[k])])
      [] OTHER -> <<>>
AllEdges(cells) == FlattenSeq([i \in DOMAIN cells |-> EdgesOf(cells[i])])
Uses(edges, e) == Cardinality({i \in DOMAIN edges : edges[i] = e})
BoundaryEdges(edges) == {e \in ToSet(edges) : Uses(edges, e) = 1}
-----------------------------------------------------------------------------
\* The clean filter: points in cells of the size of the tolerance.

Quantize(x, t) == IF t = 0 THEN x ELSE x \div t
BinOf(p, t) == [k \in 1 .. 3 |-> Quantize(Locations[p][k], t)]
Matches(p, q, t) ==
    LET d == [k \in 1 .. 3 |-> Locations[p][k] - Locations[q][k]] IN
    (d[1] * d[1]) + (d[2] * d[2]) + (d[3] * d[3]) <= t * t

\* The cells around a point's, z outermost.
Around3(p, t) ==
    IF t = 0 THEN <<BinOf(p, t)>>
    ELSE [i \in 1 .. 27 |->
            <<BinOf(p, t)[1] + ((i - 1) % 3) - 1, BinOf(p, t)[2] + (((i - 1) \div 3) % 3) - 1,
              BinOf(p, t)[3] + ((i - 1) \div 9) - 1>>]

\* Kept points that match one, in the first cell that has any.
Found(p, kept, t) ==
    LET matching == {q \in ToSet(kept) : Matches(p, q, t)}
        bins == {BinOf(q, t) : q \in matching}
        first == SelectInSeq(Around3(p, t), LAMBDA b : b \in bins)
    IN  IF first = 0 THEN {} ELSE {q \in matching : BinOf(q, t) = Around3(p, t)[first]}

\* The newest is at the head of its list.
Merged(map, p, t) == Append(map, IF Found(p, map, t) = {} THEN p ELSE Max(Found(p, map, t)))
PointMap(t) == FoldLeft(LAMBDA map, p : Merged(map, p, t), <<>>, [p \in DOMAIN Locations |-> p])

NewPoint(ids, id) == IF id \in ToSet(ids) THEN ids ELSE Append(ids, id)
NewNeighbour(ids, id) == IF ids # <<>> /\ Last(ids) = id THEN ids ELSE Append(ids, id)
MappedIds(c, ids) ==
    CASE c.kind = "vert" /\ Len(ids) > 1 -> FoldLeft(NewPoint, <<>>, ids)
      [] c.kind = "line" /\ Len(ids) > 2 -> FoldLeft(NewNeighbour, <<>>, ids)
      [] c.kind = "poly" /\ Len(ids) > 3 -> FoldLeft(NewPoint, <<>>, ids)
      [] c.kind = "strip" -> FoldLeft(NewNeighbour, <<>>, ids)
      [] OTHER -> ids
Whole(kind, ids) ==
    /\ Len(ids) >= CASE kind = "vert" -> 1 [] kind = "line" -> 2 [] OTHER -> 3
    /\ kind = "line" /\ Len(ids) = 2 => ids[1] # ids[2]
    /\ kind = "poly" /\ Len(ids) = 3 => Cardinality(ToSet(ids)) = 3

Clean(cells) ==
    LET all == [i \in DOMAIN cells |->
                  [kind |-> cells[i].kind, source |-> i,
                   ids |-> MappedIds(cells[i], [k \in DOMAIN cells[i].ids |-> merged[cells[i].ids[k]]])]]
    IN  SelectSeq(all, LAMBDA c : Whole(c.kind, c.ids))

-----------------------------------------------------------------------------
\* The append filter: cells go into their category, the data of cells behind each other.

OfKind(cells, kind) == SelectSeq(cells, LAMBDA c : c.kind = kind)
Moved(cells, by) == [i \in DOMAIN cells |-> [cells[i] EXCEPT !.ids = [k \in DOMAIN @ |-> @[k] + by]]]
AppendedCells(a, b) ==
    FlattenSeq([k \in 1 .. 4 |->
        OfKind(a, Kinds[k]) \o OfKind(Moved(b, Len(Locations)), Kinds[k])])
AppendedData(a, b) == a \o Moved(b, Len(Locations))

-----------------------------------------------------------------------------
\* Smoothing and decimation work on triangles.

TrianglesOf(cells) ==
    LET t == SelectSeq(Triangulated(cells), LAMBDA c : c.kind = "poly") IN [i \in DOMAIN t |-> t[i].ids]
\* Both other corners of every triangle of a point.
NeighboursOf(triangles, p) ==
    FlattenSeq([i \in DOMAIN triangles |->
        LET k == SelectInSeq(triangles[i], LAMBDA q : q = p) IN
        IF k = 0 THEN <<>> ELSE RemoveAt(triangles[i], k)])
BoundaryPoints(triangles) ==
    UNION BoundaryEdges(FlattenSeq([i \in DOMAIN triangles |-> RingOf(triangles[i])]))

Lowest(k) == Min({Locations[p][k] : p \in DOMAIN Locations})
Extent == Max({Locations[p][k] - Lowest(k) : p \in DOMAIN Locations, k \in 1 .. 3})
ClusterOf(p) ==
    [k \in 1 .. 3 |-> Min({Resolution - 1, ((Locations[p][k] - Lowest(k)) * Resolution) \div Extent})]
\* A cluster is known by its first point.
Clustered(p) == Min({q \in DOMAIN Locations : ClusterOf(q) = ClusterOf(p)})
Decimated(triangles) ==
    LET all == [i \in DOMAIN triangles |-> [ids |-> [k \in 1 .. 3 |-> clusters[triangles[i][k]]], source |-> i]]
        whole == SelectSeq(all, LAMBDA t : Cardinality(ToSet(t.ids)) = 3)
    IN  SelectSeq(whole, LAMBDA t :
            \A j \in DOMAIN whole : ToSet(whole[j].ids) = ToSet(t.ids) => t.source <= whole[j].source)

-----------------------------------------------------------------------------
Init ==
    /\ surface = <<>>
    /\ tolerance \in Tolerances
    /\ merged = PointMap(tolerance)
    /\ clusters = [p \in DOMAIN Locations |-> Clustered(p)]

\* A cell comes after the others of its category.
AddCell ==
    /\ Len(surface) < MaxPatchCells
    /\ \E c \in PatchCells : surface' = Append(surface, c) /\ Sorted(surface')
    /\ UNCHANGED <<tolerance, merged, clusters>>

Next == AddCell

-----------------------------------------------------------------------------
Directed(ring) == [k \in DOMAIN ring |-> <<ring[k], ring[(k % Len(ring)) + 1]>>]
\* The outline of a strip goes up one side and down the other.
Outline(c) ==
    IF c.kind = "poly" THEN c.ids
    ELSE SelectSeq(c.ids, LAMBDA p : SelectInSeq(c.ids, LAMBDA q : q = p) \in {1} \cup {2 * k : k \in 1 .. 9})
         \o Reverse(SelectSeq(c.ids, LAMBDA p : SelectInSeq(c.ids, LAMBDA q : q = p) \in {(2 * k) + 1 : k \in 1 .. 9}))

\* The triangles of a cell are turned the same way and leave its outline over.
OutlinesKept ==
    \A i \in DOMAIN surface :
        surface[i].kind \in {"poly", "strip"} =>
            \E sides \in {FlattenSeq([k \in DOMAIN Pieces(surface[i]) |-> Directed(Pieces(surface[i])[k])])} :
                /\ IsInjective(sides)
                /\ {s \in ToSet(sides) : <<s[2], s[1]>> \notin ToSet(sides)} = ToSet(Directed(Outline(surface[i])))

Touched(is) == UNION {ToSet(surface[i].ids) : i \in is}
\* Cells have the same region exactly if a chain of cells that share points joins them; the
\* region that is extracted shares no point with the rest.
RegionsConnect ==
    \E regions \in {Regions(surface)} :
        /\ surface # <<>> => \E is \in {Extracted(surface, regions)} :
               Touched(is) \cap Touched(DOMAIN surface \ is) = {}
        /\ \A i, j \in DOMAIN surface :
            (regions[i] = regions[j]) <=>
                \E n \in DOMAIN surface : \E chain \in [1 .. n -> DOMAIN surface] :
                    /\ chain[1] = i /\ chain[n] = j
                    /\ \A k \in 1 .. n - 1 :
                           ToSet(surface[chain[k]].ids) \cap ToSet(surface[chain[k + 1]].ids) # {}

\* The outline of a surface, modulo two, is that of its triangles and ends nowhere.
OddEdges(edges) == {e \in ToSet(edges) : Uses(edges, e) % 2 = 1}
OutlineCloses ==
    \E odd \in {OddEdges(AllEdges(surface))} :
        /\ odd = OddEdges(AllEdges(Triangulated(surface)))
        /\ \A p \in DOMAIN Locations : Cardinality({e \in odd : p \in e}) % 2 = 0

\* A point goes to one within the tolerance, and those that stay lie farther apart.
CleanMerges ==
    /\ \A p \in DOMAIN merged : Matches(p, merged[p], tolerance) /\ merged[merged[p]] = merged[p]
    /\ \A p, q \in ToSet(merged) : p # q => ~Matches(p, q, tolerance)

\* Strips that lose a point and polygons that meet themselves are given other triangles
\* (README, section 4).
Pinched(c, ids) ==
    \/ c.kind = "strip" /\ \E k \in 1 .. Len(ids) - 1 : ids[k] = ids[k + 1]
    \/ c.kind = "poly" /\ \E j, k \in DOMAIN ids : ids[j] = ids[k] /\ k - j \in 2 .. Len(ids) - 2
CleanKeeps ==
    \E moved \in {[i \in DOMAIN surface |->
                      [surface[i] EXCEPT !.ids = [k \in DOMAIN @ |-> merged[@[k]]]]]} :
        (\A i \in DOMAIN moved : ~Pinched(moved[i], moved[i].ids)) =>
            \E cleaned \in {Clean(surface)} :
                {<<t.ids, cleaned[t.source].source>> : t \in ToSet(Triangulated(cleaned))}
                    = {<<t.ids, t.source>> :
                          t \in {u \in ToSet(Triangulated(moved)) : IsInjective(u.ids)}}

\* The data of cells stay with them unless an earlier input has cells of a later category
\* (README, section 4).
AppendAligned ==
    \A k \in 0 .. Len(surface) :
        \E a \in {SubSeq(surface, 1, k)}, b \in {SubSeq(surface, k + 1, Len(surface))} :
            AppendedCells(a, b) = AppendedData(a, b)

\* A point on the boundary has a neighbour on one side only; an edge inside pulls it twice.
SmoothWeights ==
    \E triangles \in {TrianglesOf(surface)} :
        BoundaryPoints(triangles) =
            {p \in DOMAIN Locations :
                \E ns \in {NeighboursOf(triangles, p)} :
                    \E q \in ToSet(ns) : Cardinality({i \in DOMAIN ns : ns[i] = q}) = 1}

\* A decimated surface has every triangle once, each where one was, turned as that was.
DecimateKeeps ==
    \E triangles \in {TrianglesOf(surface)} :
        \E decimated \in {Decimated(triangles)} :
            /\ \A i, j \in DOMAIN decimated : ToSet(decimated[i].ids) = ToSet(decimated[j].ids) => i = j
            /\ \A i \in DOMAIN triangles :
                   \/ \E j, k \in 1 .. 3 : j < k /\ clusters[triangles[i][j]] = clusters[triangles[i][k]]
                   \/ \E d \in ToSet(decimated) :
                          ToSet(d.ids) = {clusters[p] : p \in ToSet(triangles[i])}

SurfacesExact ==
    /\ OutlinesKept /\ RegionsConnect /\ OutlineCloses
    /\ CleanMerges /\ CleanKeeps /\ AppendAligned /\ SmoothWeights /\ DecimateKeeps
=============================================================================
