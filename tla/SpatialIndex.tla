---------------------------- MODULE SpatialIndex ----------------------------
(***************************************************************************)
(* FVizBVH.c and FVizPointLocator.c: hierarchies of boxes over the cells   *)
(* of a data set, kept while its points move and rebuilt when its cells    *)
(* change, and what they answer.  A cell is the set of lattice points of a *)
(* plane that it covers; a ray runs along an axis.                         *)
(***************************************************************************)
EXTENDS Integers, Sequences, SequencesExt, FiniteSetsExt

CONSTANTS
    Shapes,    \* that cells take
    Lattice,   \* points that are asked for
    LeafCells, \* FVIZ_BVH_LEAF_SIZE, and twelve in the locator
    MaxDepth, MaxCells, None

VARIABLES
    style,  \* "bvh" or "locator"
    cells,  \* of the data set, in order
    moved, recelled, \* its points, its cells changed since the index was made
    index   \* None or [nodes, items, root]

spatialVars == <<style, cells, moved, recelled, index>>

-----------------------------------------------------------------------------
(* Boxes *)

Hull(points) ==
    [x0 |-> Min({p[1] : p \in points}), x1 |-> Max({p[1] : p \in points}),
     y0 |-> Min({p[2] : p \in points}), y1 |-> Max({p[2] : p \in points})]
HullOf(boxes) ==
    [x0 |-> Min({b.x0 : b \in boxes}), x1 |-> Max({b.x1 : b \in boxes}),
     y0 |-> Min({b.y0 : b \in boxes}), y1 |-> Max({b.y1 : b \in boxes})]
InBox(box, p) == p[1] \in box.x0 .. box.x1 /\ p[2] \in box.y0 .. box.y1
Overlap(a, b) == a.x0 <= b.x1 /\ b.x0 <= a.x1 /\ a.y0 <= b.y1 /\ b.y0 <= a.y1
Outside(low, high, v) == IF v < low THEN low - v ELSE IF v > high THEN v - high ELSE 0
BoxDistance(box, p) ==
    Outside(box.x0, box.x1, p[1]) * Outside(box.x0, box.x1, p[1])
    + Outside(box.y0, box.y1, p[2]) * Outside(box.y0, box.y1, p[2])

\* The longer side, and twice the middle of a cell along it.
Axis(box) == IF box.x1 - box.x0 >= box.y1 - box.y0 THEN 1 ELSE 2
Middle(cell, axis) == Min({p[axis] : p \in cell}) + Max({p[axis] : p \in cell})
BoxOf(ids) == HullOf({Hull(cells[i]) : i \in ToSet(ids)})

-----------------------------------------------------------------------------
(* Selection of the median, in place *)

Swapped(s, i, j) == [s EXCEPT ![i] = s[j], ![j] = s[i]]

\* For rays the pivot is the entry in the middle, and equal ones are ordered by number.
Below(a, b, axis) ==
    \/ Middle(cells[a], axis) < Middle(cells[b], axis)
    \/ Middle(cells[a], axis) = Middle(cells[b], axis) /\ a < b
BvhPartition(ids, axis) ==
    LET n == Len(ids)
        hint == n \div 2 + 1
        Step(acc, i) ==
            IF Below(acc.ids[i], ids[hint], axis)
            THEN [ids |-> Swapped(acc.ids, i, acc.at), at |-> acc.at + 1] ELSE acc
        swept == FoldLeft(Step, [ids |-> Swapped(ids, hint, n), at |-> 1], [i \in 1 .. n - 1 |-> i])
    IN  [ids |-> Swapped(swept.ids, swept.at, n), at |-> swept.at]

\* For points it is the first, and two cursors meet.
RECURSIVE Meet(_, _, _, _)
Meet(ids, i, j, axis) ==
    LET Above(k) == Middle(cells[ids[k]], axis) > Middle(cells[ids[1]], axis)
        up == Min({k \in i .. j : Above(k)} \cup {j + 1})
        down == Max({k \in up .. j : ~Above(k)} \cup {up - 1})
    IN  IF up < down THEN Meet(Swapped(ids, up, down), up, down, axis)
        ELSE [ids |-> Swapped(ids, 1, down), at |-> down]
Partition(ids, axis) ==
    IF style = "bvh" THEN BvhPartition(ids, axis) ELSE Meet(ids, 2, Len(ids), axis)

\* Entries from begin to end, so that the one at target is where an order has it.
RECURSIVE Quickselect(_, _, _, _, _)
Quickselect(ids, begin, end, target, axis) ==
    IF end <= begin THEN ids
    ELSE \* the part between is taken apart at the pivot
         LET part == Partition(SubSeq(ids, begin, end), axis)
             next == SubSeq(ids, 1, begin - 1) \o part.ids \o SubSeq(ids, end + 1, Len(ids))
             pivot == begin + part.at - 1
         IN  IF pivot = target THEN next
             ELSE IF target < pivot THEN Quickselect(next, begin, pivot - 1, target, axis)
             ELSE Quickselect(next, pivot + 1, end, target, axis)

-----------------------------------------------------------------------------
(* The hierarchy *)

Node(box, left, right, begin, end) ==
    [box |-> box, left |-> left, right |-> right, begin |-> begin, end |-> end]
Leaf(ids, made) == Node(BoxOf(ids), 0, 0, Len(made.items) + 1, Len(made.items) + Len(ids))
IsLeaf(node) == node.left = 0 /\ node.right = 0

\* Children come before their parent in a hierarchy for rays, behind it in one for points.
RECURSIVE BuildUnder(_, _, _), BuildHalves(_, _, _)
BuildHalves(sorted, made, depth) ==
    LET middle == Len(sorted) \div 2
        inner == Node(BoxOf(sorted), 0, 0, 0, 0)
        start == IF style = "bvh" THEN made ELSE [made EXCEPT !.nodes = Append(@, inner)]
        left == BuildUnder(SubSeq(sorted, 1, middle), start, depth + 1)
        right == BuildUnder(SubSeq(sorted, middle + 1, Len(sorted)), left, depth + 1)
        joined == [inner EXCEPT !.left = left.root, !.right = right.root]
    IN  IF style = "bvh"
        THEN [right EXCEPT !.nodes = Append(@, joined), !.root = Len(right.nodes) + 1]
        ELSE [right EXCEPT !.nodes[Len(start.nodes)] = joined, !.root = Len(start.nodes)]
BuildUnder(ids, made, depth) ==
    IF Len(ids) <= LeafCells \/ depth >= MaxDepth
    THEN [nodes |-> Append(made.nodes, Leaf(ids, made)), items |-> made.items \o ids,
          root |-> Len(made.nodes) + 1]
    ELSE BuildHalves(Quickselect(ids, 1, Len(ids), (Len(ids) \div 2) + 1, Axis(BoxOf(ids))), made, depth)

Built ==
    IF cells = <<>> THEN None
    ELSE BuildUnder([i \in DOMAIN cells |-> i], [nodes |-> <<>>, items |-> <<>>, root |-> 0], 0)

\* From the leaves up.
Upwards(nodes) ==
    IF style = "bvh" THEN [k \in DOMAIN nodes |-> k] ELSE Reverse([k \in DOMAIN nodes |-> k])
RefitNode(nodes, k) ==
    [nodes EXCEPT ![k].box =
        IF IsLeaf(nodes[k]) THEN BoxOf(SubSeq(index.items, nodes[k].begin, nodes[k].end))
        ELSE HullOf({nodes[nodes[k].left].box, nodes[nodes[k].right].box})]
RefitDownwards == FoldLeft(RefitNode, index.nodes, Reverse(Upwards(index.nodes)))
Refitted == FoldLeft(RefitNode, index.nodes, Upwards(index.nodes))

Current == ~moved /\ ~recelled

-----------------------------------------------------------------------------
(* Operations *)

Init ==
    /\ style \in {"bvh", "locator"}
    /\ cells = <<>>
    /\ moved = TRUE /\ recelled = TRUE
    /\ index = None

Move(i, shape) ==
    /\ cells' = [cells EXCEPT ![i] = shape]
    /\ moved' = TRUE
    /\ UNCHANGED <<style, recelled, index>>

\* A point that no cell has.
AddPoint ==
    /\ moved' = TRUE
    /\ UNCHANGED <<style, cells, recelled, index>>

AddCell(shape) ==
    /\ Len(cells) < MaxCells
    /\ cells' = Append(cells, shape)
    /\ moved' = TRUE /\ recelled' = TRUE
    /\ UNCHANGED <<style, index>>

ClearCells ==
    /\ cells' = <<>>
    /\ moved' = TRUE /\ recelled' = TRUE
    /\ UNCHANGED <<style, index>>

\* A hierarchy for rays forgets a surface without triangles; a locator keeps its grid.
Build ==
    /\ index' = Built
    /\ moved' = (style = "bvh" /\ cells = <<>>)
    /\ recelled' = (style = "bvh" /\ cells = <<>>)
    /\ UNCHANGED <<style, cells>>

Refit ==
    /\ index # None /\ ~recelled
    /\ index' = [index EXCEPT !.nodes = Refitted]
    /\ moved' = FALSE
    /\ UNCHANGED <<style, cells, recelled>>

\* Rebuilt for new cells, refitted to moved points.
Update ==
    /\ style = "bvh" => index # None
    /\ ~Current
    /\ \/ recelled /\ Build
       \/ ~recelled /\ Refit
       \/ ~recelled /\ index = None /\ moved' = FALSE /\ UNCHANGED <<style, cells, recelled, index>>

Next ==
    \/ \E i \in DOMAIN cells, s \in Shapes : Move(i, s)
    \/ \E s \in Shapes : AddCell(s)
    \/ AddPoint \/ ClearCells \/ Build \/ Update

-----------------------------------------------------------------------------
(* Answers *)

Far == 1000

\* Along the first axis, or in the square of the distance; None when not at all.
BoxAway(query, box, p) ==
    IF query = "closest" THEN BoxDistance(box, p)
    ELSE IF p[2] \in box.y0 .. box.y1 /\ p[1] <= box.x1 THEN Max({box.x0 - p[1], 0}) ELSE None
DistancesOf(query, cell, p) ==
    IF query = "closest" THEN {BoxDistance(Hull({q}), p) : q \in cell}
    ELSE {q[1] - p[1] : q \in {r \in cell : r[2] = p[2] /\ r[1] >= p[1]}}
Away(query, cell, p) ==
    IF DistancesOf(query, cell, p) = {} THEN None ELSE Min(DistancesOf(query, cell, p))

\* Of two cells at one distance a ray keeps the first it met, a point that of the lower number.
Improved(query, best, id, away) ==
    IF away # None /\ (away < best.away \/ (query = "closest" /\ away = best.away /\ id < best.id))
    THEN [id |-> id, away |-> away] ELSE best

\* Nodes that may hold a better cell than the one found, the nearer one first.
Entry(query, k, p) == [node |-> k, away |-> BoxAway(query, index.nodes[k].box, p)]
Children(query, node, best, p) ==
    LET near == SelectSeq(<<Entry(query, node.left, p), Entry(query, node.right, p)>>,
                          LAMBDA e : e.away # None /\ e.away <= best.away)
    IN  IF Len(near) = 2 /\ near[1].away > near[2].away THEN Reverse(near) ELSE near

RECURSIVE Traverse(_, _, _, _)
Traverse(query, stack, best, p) ==
    IF stack = <<>> THEN best
    ELSE LET node == index.nodes[Last(stack).node]
             ids == SubSeq(index.items, node.begin, node.end)
             Test(found, id) == Improved(query, found, id, Away(query, cells[id], p))
         IN  IF Last(stack).away > best.away THEN Traverse(query, Front(stack), best, p)
             ELSE IF IsLeaf(node) THEN Traverse(query, Front(stack), FoldLeft(Test, best, ids), p)
             ELSE Traverse(query, Front(stack) \o Reverse(Children(query, node, best, p)), best, p)

\* Nothing is farther than the limit.
Nearest(query, p, limit) ==
    LET root == Entry(query, index.root, p)
        start == [id |-> Far, away |-> limit]
    IN  IF root.away = None THEN start ELSE Traverse(query, <<root>>, start, p)
RayCast(p) == Nearest("ray", p, Far)
ClosestPoint(p, limit) == Nearest("closest", p, limit)

\* Cells of the leaves that are reached through boxes of the set.
Descend(passing) ==
    LET Step(seen, k) ==
            IF k \in seen \cap passing
            THEN seen \cup {index.nodes[k].left, index.nodes[k].right} ELSE seen
        reached == FoldLeft(Step, {index.root}, Reverse(Upwards(index.nodes)))
    IN  UNION {ToSet(SubSeq(index.items, index.nodes[k].begin, index.nodes[k].end)) :
                 k \in {k \in reached \cap passing : IsLeaf(index.nodes[k])}}

IntersectsBounds(box) ==
    \E id \in Descend({k \in DOMAIN index.nodes : Overlap(index.nodes[k].box, box)}) :
        Overlap(Hull(cells[id]), box)

\* The cell of the lowest number; without a current hierarchy all are tried in turn.
LocatePoint(p) ==
    LET tried == IF Current /\ cells # <<>>
                 THEN {id \in Descend({k \in DOMAIN index.nodes : InBox(index.nodes[k].box, p)}) :
                          InBox(Hull(cells[id]), p)}
                 ELSE DOMAIN cells
        found == {id \in tried : p \in cells[id]}
    IN  IF found = {} THEN None ELSE Min(found)

-----------------------------------------------------------------------------
Lowest(query, p) ==
    Min({Far} \cup {Away(query, cells[i], p) : i \in {i \in DOMAIN cells : Away(query, cells[i], p) # None}})

\* What a current hierarchy answers is what all cells answer, whatever moves, refits and
\* rebuilds were before: the nearest cell along a ray and around a point, within a limit,
\* whether any meets a box, and the cell around a point (FVizBVH.h, FVizPointLocator.h).
AnswersOfAll ==
    /\ (style = "bvh" /\ Current) =>
        \A p \in Lattice :
            /\ RayCast(p).away = Lowest("ray", p)
            /\ \A limit \in {1, Far} :
                LET near == {i \in DOMAIN cells : Away("closest", cells[i], p) = Lowest("closest", p)}
                IN  ClosestPoint(p, limit).id = IF Lowest("closest", p) > limit THEN Far ELSE Min(near)
            /\ IntersectsBounds(Hull({p})) = (\E i \in DOMAIN cells : InBox(Hull(cells[i]), p))
    /\ style = "locator" =>
        \A p \in Lattice :
            LocatePoint(p) = LET around == {i \in DOMAIN cells : p \in cells[i]}
                             IN  IF around = {} THEN None ELSE Min(around)

\* Every cell is in one leaf, and no leaf holds more than it may.
LeavesPartition ==
    (index # None /\ ~recelled) =>
        /\ Len(index.items) = Len(cells) /\ ToSet(index.items) = DOMAIN cells
        /\ \A i \in DOMAIN cells :
            Cardinality({k \in DOMAIN index.nodes :
                IsLeaf(index.nodes[k]) /\ i \in index.nodes[k].begin .. index.nodes[k].end}) = 1
=============================================================================
