------------------------------ MODULE Selection ------------------------------
(***************************************************************************)
(* FVizSelection.c with FVizProvenance.c and FVizSelectionModel.c: records *)
(* of the cells of an actor that are selected, and of what they show of a  *)
(* model whose surface is computed again and again.                        *)
(***************************************************************************)
EXTENDS Integers, Sequences, SequencesExt, FiniteSets

CONSTANTS
    Originals,   \* cells of the model
    MaxRendered, \* most triangles of a surface
    MaxTime,     \* most surfaces
    None

VARIABLES
    surface,   \* of what each triangle is a part, in the order they are rendered
    tagged,    \* the surface has an array of the original cells
    mtime,     \* of the surface
    selection  \* its records

selectionVars == <<surface, tagged, mtime, selection>>

Surfaces == {s \in SeqOf(Originals, MaxRendered) : s # <<>>}
Rendered == DOMAIN surface

Init ==
    /\ surface \in Surfaces /\ tagged \in BOOLEAN /\ mtime = 1
    /\ selection = <<>>

-----------------------------------------------------------------------------
(* Records *)

\* The array of original cells, read both ways; 0 when a cell is not found.
Resolved(id) == IF tagged THEN surface[id] ELSE None
Located(original) == IF tagged THEN SelectInSeq(surface, LAMBDA o : o = original) ELSE 0

Record(id) ==
    [id |-> id, of |-> Resolved(id), persistent |-> tagged, valid |-> TRUE, mtime |-> mtime]

FindIdentity(list, id) == SelectInSeq(list, LAMBDA r : r.id = id)
Has(list, id) == FindIdentity(list, id) # 0
AddRecord(list, r) == IF Has(list, r.id) THEN list ELSE Append(list, r)
RemoveRecord(list, id) == RemoveAt(list, FindIdentity(list, id))

\* Where its cell is rendered now, if it is and can be found.
Refreshed(r) ==
    LET found == r.persistent /\ Located(r.of) # 0
    IN  IF r.mtime = mtime THEN r
        ELSE [r EXCEPT !.mtime = mtime, !.valid = found, !.id = IF found THEN Located(r.of) ELSE @]

-----------------------------------------------------------------------------
(* Combining *)

Modifiers == {"replace", "add", "subtract", "toggle"}
Combined(list, r, modifier) ==
    LET contains == Has(list, r.id)
    IN  IF modifier = "subtract" \/ (modifier = "toggle" /\ contains)
        THEN IF contains THEN RemoveRecord(list, r.id) ELSE list
        ELSE AddRecord(list, r)

Applied(list, incoming, modifier) ==
    FoldLeft(LAMBDA l, r : Combined(l, r, modifier),
             IF modifier = "replace" THEN <<>> ELSE list, incoming)

-----------------------------------------------------------------------------
(* What is made of a selection *)

\* Triangle i of a strip has the points i, i + 1 and i + 2.
Corners(i) == <<i, i + 1, i + 2>>

Chosen(list) == SelectSeq(list, LAMBDA r : r.valid /\ r.id \in Rendered)
Mask(list) == [i \in Rendered |-> \E r \in ToSet(Chosen(list)) : r.id = i]

Noted(map, points) == FoldLeft(LAMBDA m, p : IF Has(m, p) THEN m ELSE Append(m, [id |-> p]), map, points)
Extracted(list) ==
    LET chosen == Chosen(list)
        points == FoldLeft(LAMBDA m, r : Noted(m, Corners(r.id)), <<>>, chosen)
    IN  [points |-> [i \in DOMAIN points |-> points[i].id],
         cells |-> [i \in DOMAIN chosen |-> chosen[i].id],
         triangles |-> [i \in DOMAIN chosen |->
             [c \in 1..3 |-> FindIdentity(points, Corners(chosen[i].id)[c])]]]

-----------------------------------------------------------------------------
(* Operations *)

Recompute ==
    /\ mtime < MaxTime
    /\ mtime' = mtime + 1
    /\ surface' \in Surfaces /\ tagged' \in BOOLEAN
    /\ UNCHANGED selection

Refresh ==
    /\ selection' = [i \in DOMAIN selection |-> Refreshed(selection[i])]
    /\ UNCHANGED <<surface, tagged, mtime>>

\* What is under the pointer, or in a rectangle, lasso or frustum.
Picked == {SetToSortSeq(ids, <) : ids \in SUBSET Rendered}
Select(ids, modifier) ==
    /\ selection' = Applied(selection, [i \in DOMAIN ids |-> Record(ids[i])], modifier)
    /\ UNCHANGED <<surface, tagged, mtime>>

\* A selection is applied to itself from a copy, in which no identity is twice.
ApplySelf(modifier) ==
    /\ selection' = Applied(selection, FoldLeft(AddRecord, <<>>, selection), modifier)
    /\ UNCHANGED <<surface, tagged, mtime>>

Next ==
    \/ Recompute \/ Refresh
    \/ \E m \in Modifiers :
        ApplySelf(m) \/ \E ids \in Picked : Select(ids, m)

-----------------------------------------------------------------------------
\* After a refresh a record shows what it was made of, and is invalid only if that is gone
\* (docs/design/INTERACTION_SELECTION_WIDGETS.md:23).
StillTheSame ==
    \A i \in DOMAIN selection : \E r \in {selection[i]} :
        r.mtime = mtime =>
            /\ (r.valid /\ tagged /\ r.persistent) => r.id \in Rendered /\ surface[r.id] = r.of
            /\ (~r.valid /\ tagged /\ r.persistent) => r.of \notin ToSet(surface)

\* Records that are up to date and valid, of different cells, are combined as sets of
\* triangles are.
Current(list) == \A r \in ToSet(list) : r.valid /\ r.mtime = mtime
OneEach(list) == \A i, j \in DOMAIN list :
    (list[i].persistent /\ list[i].of = list[j].of) => i = j
Ids(list) == {r.id : r \in ToSet(list)}
Union(modifier, a, b) ==
    CASE modifier = "replace" -> b
      [] modifier = "add" -> a \cup b
      [] modifier = "subtract" -> a \ b
      [] OTHER -> (a \ b) \cup (b \ a)
CombinedAsSets ==
    (Current(selection) /\ OneEach(selection)) =>
        /\ Cardinality(Ids(selection)) = Len(selection)
        /\ \A m \in Modifiers, ids \in Picked :
            \E result \in {Applied(selection, [i \in DOMAIN ids |-> Record(ids[i])], m)} :
                /\ Ids(result) = Union(m, Ids(selection), ToSet(ids))
                /\ Current(result)

\* What is extracted of a selection has its triangles, with their corners, and no point twice.
ExtractedTrue ==
    \E x \in {Extracted(selection)} :
        /\ IsInjective(x.points)
        /\ \A i \in DOMAIN x.cells, c \in 1..3 :
            x.points[x.triangles[i][c]] = Corners(x.cells[i])[c]
        /\ {i \in Rendered : Mask(selection)[i]} = ToSet(x.cells)
        /\ ToSet(x.points) = UNION {ToSet(Corners(i)) : i \in ToSet(x.cells)}
=============================================================================
