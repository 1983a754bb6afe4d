--------------------------- MODULE ResultDisplay ---------------------------
(***************************************************************************)
(* A result field shown on its mesh: FVizResultField.c (blocks of samples),*)
(* FVizPrimaryVariable.c (the display values of a position),               *)
(* FVizIntegrationPointData.c (extrapolation), FVizDeformedShape.c and     *)
(* FVizDeformation.c (the displaced mesh), FVizDisplayGroup.c (masks).     *)
(* The mesh is of triangles, points and cells are numbered from one, and   *)
(* values are multiples of three; a vector is its first component.         *)
(***************************************************************************)
EXTENDS Integers, Sequences, SequencesExt, FiniteSets, FiniteSetsExt, TLC

CONSTANTS
    Corners,        \* the points of each cell
    Places,         \* of the points, on a line
    FieldBlocks,    \* [position, instance, section, labelled, numbered, tuples]
    MaxFieldBlocks,
    Numberings,     \* [points, cells]: active GlobalIds, or none
    Requests,       \* primary variables
    ShapeOptions,   \* of the deformed shape: instance, complete, scale (None: automatic), undeformed
    NotFinite,      \* a value
    None

VARIABLES
    field,          \* its blocks
    names,          \* the mesh's GlobalIds
    cached,         \* of the evaluator: a request and its result
    shape           \* of the deformed-shape controller: options and result

displayVars == <<field, names, cached, shape>>

PointCount == Len(Places)
CellCount == Len(Corners)

-----------------------------------------------------------------------------
\* Labels and samples.

Resolve(label, numbering, last) ==
    IF numbering = <<>> THEN IF label \in 1 .. last THEN label ELSE 0
    ELSE SelectInSeq(numbering, LAMBDA l : l = label)

\* fviz_fea_block_basic_match.
Matches(b, v) ==
    /\ v.instance # None => b.instance = v.instance
    /\ v.section # None => b.section = v.section

HasPosition(blocks, v, p) == \E k \in DOMAIN blocks : Matches(blocks[k], v) /\ blocks[k].position = p

Priority(target) ==
    CASE target = "element_nodal" -> <<"element_nodal", "ip", "centroid", "whole">>
      [] target \in {"centroid", "whole"} -> <<"centroid", "whole", "ip", "element_nodal">>
      [] OTHER -> <<"nodal", "element_nodal", "ip", "centroid", "whole">>

\* fviz_fea_choose_source_position: what is asked for, the target, the first of a list that is
\* there, or the position of the first block; None if there is no block.
Source(blocks, v) ==
    LET wanted == IF v.source # None THEN <<v.source>>
                  ELSE <<v.target>> \o Priority(v.target) \o [k \in DOMAIN blocks |-> blocks[k].position]
        at == SelectInSeq(wanted, LAMBDA p : HasPosition(blocks, v, p))
    IN  IF at = 0 THEN None ELSE wanted[at]

Target(source, v) ==
    IF v.target # None THEN v.target
    ELSE IF source \in {"nodal", "element_nodal", "ip"} THEN "nodal" ELSE source

LabelOf(b, i) == IF b.labelled THEN b.tuples[i].entity ELSE i
\* Those of a block that pass the filter.
Taken(b, v) ==
    SelectSeq([i \in DOMAIN b.tuples |-> i], LAMBDA i : v.filter = None \/ LabelOf(b, i) \in v.filter)

\* fviz_fea_detect_local_base.
Base(b, v) ==
    IF v.base # "auto" THEN v.base
    ELSE IF ~b.numbered \/ \E i \in DOMAIN b.tuples : b.tuples[i].local = 0 THEN "zero" ELSE "one"

\* The node of its cell that a sample is of: as it says, or how many of the cell came before.
Node(b, v, i) ==
    IF b.numbered THEN b.tuples[i].local - (IF Base(b, v) = "one" THEN 1 ELSE 0)
    ELSE Cardinality({j \in 1 .. i - 1 : LabelOf(b, j) = LabelOf(b, i)})

Sample(at, k, label, local, value) ==
    [at |-> at, block |-> k, label |-> label, local |-> local, value |-> value]

-----------------------------------------------------------------------------
\* fviz_ip_extrapolate_component: three integration points of a triangle give its corners;
\* fewer give their mean, if that is allowed.

Extrapolated(values) ==
    IF Len(values) = 1 THEN [n \in 1 .. 3 |-> values[1]]
    ELSE IF \E n \in 1 .. 3 : values[n] = NotFinite THEN [n \in 1 .. 3 |-> NotFinite]
    ELSE [n \in 1 .. 3 |-> (2 * values[n]) - ((values[1] + values[2] + values[3]) \div 3)]

\* fviz_integration_point_standard_coordinates has no other number for a triangle.
Extrapolates(count, v) == count \in {0, 3} \/ (count = 1 /\ v.fallback = "mean")

\* The samples of a cell, ordered by fviz_fea_ip_tuple_compare.
PointsOf(b, taken, at, cell) ==
    LET key == [i \in DOMAIN b.tuples |-> IF b.numbered THEN b.tuples[i].local ELSE i] IN
    SortSeq(SelectSeq(taken, LAMBDA i : at[i] = cell),
            LAMBDA i, j : key[i] < key[j] \/ (key[i] = key[j] /\ i < j))

-----------------------------------------------------------------------------
\* fviz_fea_primary_process_block: what block k gives: as it is, to points, to cells and to
\* the nodes of cells.

\* The node or the integration point that a sample is of.
LocalOf(b, v, i) ==
    CASE b.position = "element_nodal" -> Node(b, v, i)
      [] b.position = "ip" -> IF b.numbered THEN b.tuples[i].local ELSE i
      [] b.position \notin {"nodal", "centroid", "whole"} /\ b.numbered -> b.tuples[i].local
      [] OTHER -> None
Samples(b, k, v, at, taken) ==
    [t \in DOMAIN taken |->
        Sample(at[taken[t]], k, LabelOf(b, taken[t]), LocalOf(b, v, taken[t]), b.tuples[taken[t]].value)]

Gives(raw, points, cells, corners) ==
    [ok |-> TRUE, raw |-> raw, points |-> points, cells |-> cells, corners |-> corners]
Unresolved == [ok |-> FALSE, raw |-> <<>>, points |-> <<>>, cells |-> <<>>, corners |-> <<>>]

CornerOf(sample, n) == [sample EXCEPT !.at = Corners[@][n], !.local = n - 1]
ElementNodalPart(b, samples, corners) ==
    IF b.labelled /\ \A t \in DOMAIN samples : samples[t].local \in 0 .. 2
    THEN Gives(samples, corners, samples, corners) ELSE Unresolved

\* A value of a cell goes to each of its nodes where the target has nodes.
CellPart(samples, target, spread) ==
    IF target \in {"nodal", "element_nodal"} THEN Gives(samples, spread, samples, spread)
    ELSE Gives(samples, <<>>, samples, <<>>)

\* fviz_unstructured_grid_extrapolate_integration_point_data_element_nodal for a cell.
NodesOf(c, k, label, values) ==
    SelectSeq([n \in DOMAIN values |-> Sample(Corners[c][n], k, label, n - 1, values[n])],
              LAMBDA s : s.value # NotFinite)
ExtrapolatedNodes(b, k, of) ==
    FlattenSeq([c \in DOMAIN of |->
        IF of[c] = <<>> THEN <<>>
        ELSE NodesOf(c, k, LabelOf(b, of[c][1]), Extrapolated([n \in DOMAIN of[c] |-> b.tuples[of[c][n]].value]))])

IntegrationPart(b, v, target, samples, of, nodes) ==
    CASE ~b.labelled -> Unresolved
      [] target \in {"centroid", "whole"} -> Gives(samples, <<>>, samples, <<>>)
      [] \A c \in DOMAIN of : Extrapolates(Len(of[c]), v) -> Gives(samples, nodes, samples, nodes)
      [] OTHER -> Unresolved

IntegrationOf(b, k, v, target, samples, of) ==
    IntegrationPart(b, v, target, samples, of, ExtrapolatedNodes(b, k, of))

Positions == {"nodal", "element_nodal", "centroid", "whole", "ip"}
\* The points or cells that the samples of a block are of, zero if none.
Located(b, numbering) ==
    [i \in DOMAIN b.tuples |->
        CASE b.position = "nodal" -> Resolve(LabelOf(b, i), numbering.points, PointCount)
          [] b.position \in Positions -> Resolve(LabelOf(b, i), numbering.cells, CellCount)
          [] OTHER -> 0]

PartOf(b, k, v, target, at, taken, samples) ==
    CASE b.position \notin Positions -> IF target = b.position THEN Gives(samples, <<>>, <<>>, <<>>) ELSE Unresolved
      [] \E i \in Range(taken) : at[i] = 0 -> Unresolved
      [] b.position = "nodal" -> Gives(samples, samples, <<>>, <<>>)
      [] b.position = "element_nodal" ->
             ElementNodalPart(b, samples, [t \in DOMAIN samples |-> CornerOf(samples[t], samples[t].local + 1)])
      [] b.position = "ip" ->
             IntegrationOf(b, k, v, target, samples, [c \in 1 .. CellCount |-> PointsOf(b, taken, at, c)])
      [] OTHER ->
             CellPart(samples, target, FlattenSeq([t \in DOMAIN samples |-> [n \in 1 .. 3 |-> CornerOf(samples[t], n)]]))
Part(b, k, v, target, at, taken) == PartOf(b, k, v, target, at, taken, Samples(b, k, v, at, taken))

-----------------------------------------------------------------------------
\* Display values.

Size(x) == IF x < 0 THEN -x ELSE x
\* Values that are averaged, as their sum and number; none is not finite.
Nothing == [sum |-> NotFinite, of |-> 0]

\* fviz_fea_build_nodal_display and fviz_fea_build_cell_display: the average of what is finite,
\* unless that is not to be averaged: then the value is not finite and the mask is set.
Display(samples, last, v) ==
    [i \in 1 .. last |->
        LET here == {t \in DOMAIN samples : samples[t].at = i /\ samples[t].value # NotFinite}
            given == {samples[t].value : t \in here}
            several == Cardinality(here) > 1
            jumps == 100 * (Max(given) - Min(given)) > v.threshold * Max({Size(Min(given)), Size(Max(given))})
            apart == \/ ~v.averaging /\ several
                     \/ v.averaging /\ ~v.across /\ Cardinality({samples[t].block : t \in here}) > 1
                     \/ v.averaging /\ v.threshold >= 0 /\ several /\ jumps
        IN  IF here = {} THEN [value |-> Nothing, mask |-> FALSE]
            ELSE IF apart THEN [value |-> Nothing, mask |-> TRUE]
            ELSE [value |-> [sum |-> FoldSet(LAMBDA t, a : a + samples[t].value, 0, here), of |-> Cardinality(here)],
                  mask |-> FALSE]]

NodalDisplay(samples, v) == Display(samples, PointCount, v)
CellDisplay(samples, v) == Display(samples, CellCount, v)
AsIs(samples) ==
    [t \in DOMAIN samples |->
        [value |-> IF samples[t].value = NotFinite THEN Nothing ELSE [sum |-> samples[t].value, of |-> 1],
         mask |-> FALSE]]

NotShown == [ok |-> FALSE]
Shown(source, target, raw, display, samples) ==
    [ok |-> TRUE, source |-> source, target |-> target, raw |-> raw, display |-> display,
     labels |-> [t \in DOMAIN samples |-> samples[t].label], locals |-> [t \in DOMAIN samples |-> samples[t].local]]
\* All that the parts give of a kind.
Together(rows) == FlattenSeq(rows)

AsElements(source, target, raw, samples) == Shown(source, target, raw, AsIs(samples), samples)
DisplayOf(v, source, target, parts, raw) ==
    CASE \E n \in DOMAIN parts : ~parts[n].ok -> NotShown
      [] target = "nodal" /\ source \in Positions ->
             Shown(source, target, raw, NodalDisplay(Together([n \in DOMAIN parts |-> parts[n].points]), v), <<>>)
      [] target = "element_nodal" -> AsElements(source, target, raw, Together([n \in DOMAIN parts |-> parts[n].corners]))
      [] target \in {"centroid", "whole"} /\ source # "nodal" ->
             Shown(source, target, raw, CellDisplay(Together([n \in DOMAIN parts |-> parts[n].cells]), v), <<>>)
      [] target \notin {"nodal", "centroid", "whole"} /\ target = source -> AsElements(source, target, raw, raw)
      [] OTHER -> NotShown
OfParts(v, source, target, parts) == DisplayOf(v, source, target, parts, Together([n \in DOMAIN parts |-> parts[n].raw]))

Parts(blocks, chosen, numbering, v, target) ==
    [n \in DOMAIN chosen |->
        Part(blocks[chosen[n]], chosen[n], v, target, Located(blocks[chosen[n]], numbering), Taken(blocks[chosen[n]], v))]
Chosen(blocks, v, source) ==
    SelectSeq([k \in DOMAIN blocks |-> k], LAMBDA k : Matches(blocks[k], v) /\ blocks[k].position = source)
EvaluatedFrom(blocks, numbering, v, source, target) ==
    IF source = None \/ ~IsInjective(numbering.points) \/ ~IsInjective(numbering.cells) THEN NotShown
    ELSE OfParts(v, source, target, Parts(blocks, Chosen(blocks, v, source), numbering, v, target))

\* fviz_fea_primary_variable_evaluate, without the cache.
EvaluatedAt(blocks, numbering, v, source) == EvaluatedFrom(blocks, numbering, v, source, Target(source, v))
Evaluated(blocks, numbering, v) == EvaluatedAt(blocks, numbering, v, Source(blocks, v))

\* fviz_fea_primary_cache_matches: the options; a field or a mesh that was modified since never
\* matches again.
Same(v, w) == v = w

-----------------------------------------------------------------------------
\* The deformed shape.

\* fviz_fea_deformed_map_displacements, tuple by tuple.
Place(m, b, i, numbering) ==
    LET p == IF b.labelled THEN Resolve(b.tuples[i].entity, numbering.points, PointCount) ELSE i IN
    IF p = 0 THEN m
    ELSE [m EXCEPT !.ok = @ /\ ~m.covered[p], !.vectors[p] = b.tuples[i].value, !.covered[p] = TRUE]

MapBlock(m, b, numbering) ==
    FoldLeft(LAMBDA n, i : Place(n, b, i, numbering),
             [m EXCEPT !.found = TRUE,
                       !.ok = @ /\ IF b.labelled THEN numbering.points # <<>> /\ IsInjective(numbering.points)
                                   ELSE Len(b.tuples) = PointCount /\ ~m.found],
             [i \in 1 .. IF ~b.labelled /\ Len(b.tuples) # PointCount THEN 0 ELSE Len(b.tuples) |-> i])

Displacements(blocks, numbering, o) ==
    LET chosen == SelectSeq(blocks, LAMBDA b : b.position = "nodal" /\ (o.instance = None \/ b.instance = o.instance))
        none == [ok |-> TRUE, found |-> FALSE, vectors |-> [p \in 1 .. PointCount |-> 0],
                 covered |-> [p \in 1 .. PointCount |-> FALSE]]
        m == FoldLeft(LAMBDA n, b : MapBlock(n, b, numbering), none, chosen)
    IN  [m EXCEPT !.ok = /\ m.ok /\ m.found
                         /\ Cardinality({b.instance : b \in Range(chosen)} \ {None}) <= 1
                         /\ o.complete => \A p \in DOMAIN m.covered : m.covered[p]]

\* fviz_deformation_compute_auto_scale: a tenth of the model for the largest displacement; as a
\* fraction.
Largest(vectors) == Max({Size(vectors[p]) : p \in DOMAIN vectors})
Scale(o, vectors) ==
    LET largest == Largest(vectors)
        extent == Max(Range(Places)) - Min(Range(Places))
    IN  IF o.scale # None THEN [n |-> o.scale, d |-> 1]
        ELSE IF largest = 0 \/ extent = 0 THEN [n |-> 1, d |-> 1]
        ELSE [n |-> extent, d |-> 10 * largest]

\* fviz_deformation_update_points.
Displaced(vectors, scale) == [p \in 1 .. PointCount |-> (scale.d * Places[p]) + (scale.n * vectors[p])]

MovedBy(m, scale) ==
    [ok |-> TRUE, scale |-> scale, covered |-> m.covered, places |-> Displaced(m.vectors, scale)]
Moved(o, m) ==
    IF ~m.ok \/ \E p \in DOMAIN m.vectors : m.vectors[p] = NotFinite THEN NotShown
    ELSE MovedBy(m, Scale(o, m.vectors))

\* fviz_fea_deformed_shape_evaluate, without the cache; places times the scale's denominator.
Deformed(blocks, numbering, o) ==
    IF o.undeformed
    THEN [ok |-> TRUE, scale |-> [n |-> 0, d |-> 1], places |-> Places, covered |-> [p \in 1 .. PointCount |-> FALSE]]
    ELSE Moved(o, Displacements(blocks, numbering, o))

-----------------------------------------------------------------------------
\* Display groups: labels, and the mask of what has them.

Combined(group, source, operation) ==
    CASE operation = "intersect" -> group \cap source
      [] operation \in {"add", "replace"} -> group \cup source
      [] OTHER -> group \ source

\* fviz_fea_display_group_build_mask; without labels everything is in an empty group.
GroupMask(group, labels, last) ==
    [i \in 1 .. last |-> IF Len(labels) # last THEN group = {} ELSE labels[i] \in group]

-----------------------------------------------------------------------------
Init ==
    /\ field = <<>>
    /\ names \in Numberings
    /\ cached = None /\ shape = None

\* A modification of the field, of an array of it or of the mesh is one of the field's or mesh's
\* time, and the field's is one of the frame's.
Modified == cached' = None /\ shape' = None

AddBlock(b) == Len(field) < MaxFieldBlocks /\ field' = Append(field, b) /\ Modified /\ UNCHANGED names
RemoveBlock(k) == field' = RemoveAt(field, k) /\ Modified /\ UNCHANGED names

\* Someone writes to the array of a block, and says so.
WriteValues(k) ==
    /\ field' = [field EXCEPT ![k].tuples = [i \in DOMAIN @ |-> [@[i] EXCEPT !.value = 3]]]
    /\ Modified /\ UNCHANGED names

Renumber(n) == n # names /\ names' = n /\ Modified /\ UNCHANGED field

Evaluate(v) ==
    /\ \E r \in {Evaluated(field, names, v)} :
          cached' = IF (cached # None /\ Same(cached.variable, v)) \/ ~r.ok THEN cached
                    ELSE [variable |-> v, result |-> r]
    /\ UNCHANGED <<field, names, shape>>

Deform(o) ==
    /\ \E r \in {Deformed(field, names, o)} :
          shape' = IF (shape # None /\ Same(shape.options, o)) \/ ~r.ok THEN shape
                   ELSE [options |-> o, result |-> r]
    /\ UNCHANGED <<field, names, cached>>

Next ==
    \/ \E b \in FieldBlocks : AddBlock(b)
    \/ \E k \in DOMAIN field : RemoveBlock(k) \/ WriteValues(k)
    \/ \E n \in Numberings : Renumber(n)
    \/ \E v \in Requests : Evaluate(v)
    \/ \E o \in ShapeOptions : Deform(o)

-----------------------------------------------------------------------------
\* What an evaluator or a controller returns is what it would compute now.
ResultsFresh ==
    /\ cached # None => \A v \in Requests :
          Same(cached.variable, v) => cached.result = Evaluated(field, names, v)
    /\ shape # None => \A o \in ShapeOptions :
          Same(shape.options, o) => shape.result = Deformed(field, names, o)

SameDisplay(r, s) == r.ok = s.ok /\ (r.ok => r.display = s.display)
PerEntity(r) == r.ok /\ r.target \in {"nodal", "centroid", "whole"}

\* Neither the order of the blocks nor that of the samples in them shows, where samples say
\* which they are of.
Backwards(blocks) == Reverse([k \in DOMAIN blocks |-> [blocks[k] EXCEPT !.tuples = Reverse(@)]])
SaysWhich(b) == b.labelled /\ (b.position \in {"element_nodal", "ip"} => b.numbered)
OrderIrrelevant(v, r) ==
    (PerEntity(r) /\ \A k \in DOMAIN field : SaysWhich(field[k])) =>
        SameDisplay(r, Evaluated(Backwards(field), names, [v EXCEPT !.source = r.source]))

\* Labels only say which point or cell is meant: with indices for labels the display is the same.
Indices(b) ==
    [b EXCEPT !.labelled = TRUE,
              !.tuples = [i \in DOMAIN @ |-> [@[i] EXCEPT !.entity =
                  IF b.position = "nodal" THEN Resolve(LabelOf(b, i), names.points, PointCount)
                  ELSE Resolve(LabelOf(b, i), names.cells, CellCount)]]]
LabelsIrrelevant(v, r) ==
    (PerEntity(r) /\ v.filter = None) =>
        SameDisplay(r, Evaluated([k \in DOMAIN field |-> Indices(field[k])], [points |-> <<>>, cells |-> <<>>], v))

\* A field that is the same everywhere is shown as that, from every position.
ConstantShown(v, r) ==
    LET of == IF r.ok THEN {r.raw[t].value : t \in DOMAIN r.raw} ELSE {}
    IN  \A c \in of : (of = {c} /\ c # NotFinite /\ v.averaging /\ v.across) =>
            /\ \A i \in DOMAIN r.display :
                  ~r.display[i].mask /\ r.display[i].value.sum \in {NotFinite, c * r.display[i].value.of}
            /\ r.source # "nodal" \/ r.target = "nodal" => \E i \in DOMAIN r.display : r.display[i].value.of > 0

\* What the filter leaves out might as well not be there.
OnlyThose(b, accepted) ==
    [b EXCEPT !.tuples = SelectSeq(@, LAMBDA t : t.entity \in accepted)]
FilterForgets(v, r) ==
    (v.filter # None /\ v.base # "auto" /\ \A k \in DOMAIN field : SaysWhich(field[k])) =>
        SameDisplay(r, Evaluated([k \in DOMAIN field |-> OnlyThose(field[k], v.filter)], names, [v EXCEPT !.filter = None]))

\* Averages lie between the samples, and a display value is missing only where nothing is or
\* where the samples disagree.
AveragesBetween(v, r) ==
    LET finite == {r.raw[t].value : t \in DOMAIN r.raw} \ {NotFinite}
    IN  (PerEntity(r) /\ ~(r.source = "ip" /\ r.target = "nodal")) => \A i \in DOMAIN r.display :
            LET d == r.display[i] IN
            /\ d.value.of > 0 => d.value.sum \in (d.value.of * Min(finite)) .. (d.value.of * Max(finite))
            /\ d.mask => Cardinality(DOMAIN r.raw) > 1 /\ d.value.of = 0

\* The displaced mesh: points move by what is shown of the displacements there, the others stay.
\* (Without labels they are taken point by point, and shown as if indices were labels.)
Shows(d, u) ==
    d.ok => \A p \in 1 .. PointCount :
        /\ ~d.covered[p] => d.places[p] = d.scale.d * Places[p]
        /\ (d.covered[p] /\ u.ok /\ (names.points = <<>> \/ \A b \in Range(field) : b.labelled)) =>
              u.display[p].value.of = 1 /\ d.places[p] = (d.scale.d * Places[p]) + (d.scale.n * u.display[p].value.sum)
Undeformed(o) ==
    [instance |-> o.instance, section |-> None, source |-> "nodal", target |-> "nodal", filter |-> None,
     averaging |-> TRUE, across |-> TRUE, threshold |-> -1, base |-> "auto", fallback |-> "mean"]
ShapeShows(o) == Shows(Deformed(field, names, o), Evaluated(field, names, Undeformed(o)))

\* Where points have labels, masks of combined groups are the combined masks.
GroupsShow ==
    names.points # <<>> =>
        \A g, h \in SUBSET {1, 2} : \A p \in 1 .. PointCount :
            LET mask(group) == GroupMask(group, names.points, PointCount)[p] IN
            /\ mask(Combined(g, h, "add")) = (mask(g) \/ mask(h))
            /\ mask(Combined(g, h, "remove")) = (mask(g) /\ ~mask(h))
            /\ mask(Combined(g, h, "intersect")) = (mask(g) /\ mask(h))

\* What is computed does not depend on what is cached: it is checked where nothing is.
ResultsExact ==
    /\ ResultsFresh
    /\ (cached = None /\ shape = None) =>
          /\ \A v \in Requests : \E r \in {Evaluated(field, names, v)} :
                /\ OrderIrrelevant(v, r) /\ LabelsIrrelevant(v, r) /\ ConstantShown(v, r)
                /\ FilterForgets(v, r) /\ AveragesBetween(v, r)
          /\ \A o \in ShapeOptions : ShapeShows(o)
          /\ GroupsShow
=============================================================================
