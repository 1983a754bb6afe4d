---------------------------- MODULE GpuResources ----------------------------
(***************************************************************************)
(* What FVizGLDevice.c keeps on the GPU of a surface: of the mesh that a   *)
(* mapper colours (FVizMapper.c) and of the glyphs that a glyph mapper     *)
(* draws with it (FVizGlyphMapper.c).  Every item of FVizPolyData.c and    *)
(* FVizDataArray.c is abstracted to the time it was written.               *)
(***************************************************************************)
EXTENDS Integers, Sequences, SequencesExt, FiniteSets, FiniteSetsExt

CONSTANTS
    HistoryLength,  \* records that a history has room for
    MaxPoints, MaxClock,
    ExternalArrays, \* whether arrays over the program's own memory colour the mesh
    None

VARIABLES
    clock,      \* the process-wide modification counter
    points,     \* coordinates with their history; its time is geometry_mtime
    normals,    \* when they were computed, 0 while dirty
    bounds,     \* the points that the cached bounds enclose, or None while dirty
    cells, topology, attributes,
    scalars,    \* the array that colours, or None; arrays are known by address
    opacities,  \* when the opacity array was written
    look,       \* how the mapper colours; its time is color_data_mtime
    instances,  \* of the glyph mapper, with their history
    mesh, glyphs, \* the resources of the device, or None
    drawn,      \* whether it has been made ready since the last change
    surface     \* which resource draws the surface: "mesh" or "glyphs"

gpuVars == <<clock, points, normals, bounds, cells, topology, attributes, scalars, opacities,
             look, instances, mesh, glyphs, drawn, surface>>

GpuGiven == HistoryLength \in Nat \ {0} /\ MaxPoints \in Nat \ {0}

-----------------------------------------------------------------------------
(* The bounded history of changes to an array: FVizDataArray.c,            *)
(* FVizPolyData.c and FVizGlyphMapper.c hold the same ring of records,     *)
(* from which a consumer learns what changed since it last looked.         *)

New(items, time) == [items |-> items, time |-> time, history |-> <<>>]

\* A change of the items after the first-th; the oldest record makes room.
Recorded(x, items, time, first, count, full) ==
    [items |-> items, time |-> time,
     history |-> Append(IF Len(x.history) < HistoryLength THEN x.history ELSE Tail(x.history),
                        [time |-> time, first |-> first, count |-> count, full |-> full])]

\* The time moves on and no record says why.
Touched(x, time) == [x EXCEPT !.time = time]

Newer(x, since) == {r \in ToSet(x.history) : r.time > since}

\* The history does not tell what changed since.
UnprovenButNewest(x, since) ==
    \/ since = 0 \/ x.history = <<>>
    \/ Len(x.history) = HistoryLength /\ since < Head(x.history).time
    \/ Newer(x, since) = {}
    \/ \E r \in Newer(x, since) : r.full
Unproven(x, since) ==
    \/ UnprovenButNewest(x, since)
    \/ Last(x.history).time # x.time

Hull(records) ==
    LET first == Min({r.first : r \in records})
    IN  [first |-> first, count |-> Max({r.first + r.count : r \in records}) - first,
         full |-> FALSE]

DirtySince(x, since) ==
    IF since >= x.time THEN [first |-> 0, count |-> 0, full |-> FALSE]
    ELSE IF Unproven(x, since) THEN [first |-> 0, count |-> Len(x.items), full |-> TRUE]
    ELSE Hull(Newer(x, since))

\* A consumer of n items can take the range alone.
Usable(range, n) == ~range.full /\ range.first <= n /\ range.count <= n - range.first

\* buffer after an upload of that range of items.
Patched(buffer, items, range) ==
    [i \in DOMAIN buffer |->
        IF i - 1 \in range.first .. range.first + range.count - 1 THEN items[i] ELSE buffer[i]]

-----------------------------------------------------------------------------
Ranges(n) == {r \in (0 .. n - 1) \X (1 .. n) : r[1] + r[2] <= n}
Written(items, r, t) ==
    [i \in DOMAIN items |-> IF i - 1 \in r[1] .. r[1] + r[2] - 1 THEN t ELSE items[i]]
Stamps(n, t) == [i \in 1 .. n |-> t]
MTime == Max({points.time, topology, attributes})

Full(n, t) == Recorded(New(<<>>, t), Stamps(n, t), t, 0, n, TRUE)

\* A surface with a cell, an array that colours and a glyph on every point.
Init ==
    /\ clock = 1
    /\ points = Full(MaxPoints, 1) /\ normals = 0 /\ bounds = {1}
    /\ cells = 1 /\ topology = 1 /\ attributes = 1
    /\ scalars = [address |-> 1, data |-> Full(MaxPoints, 1)] /\ opacities = 1
    /\ look = [visible |-> TRUE, field |-> FALSE, opacity |-> FALSE, range |-> FALSE, time |-> 1]
    /\ instances = Full(MaxPoints, 1)
    /\ mesh = None /\ glyphs = None /\ drawn = FALSE
    /\ surface \in {"mesh", "glyphs"}

-----------------------------------------------------------------------------
(* The data *)

Change ==
    /\ clock < MaxClock /\ clock' = clock + 1
    /\ drawn' = FALSE
    /\ UNCHANGED <<mesh, glyphs, surface>>

geometryOnly == <<cells, topology, attributes, scalars, opacities, look, instances>>

AddPoint ==
    /\ Change
    /\ Len(points.items) < MaxPoints
    /\ points' = Recorded(points, Append(points.items, clock'), clock', 0,
                          Len(points.items) + 1, TRUE)
    /\ normals' = 0
    /\ bounds' = IF bounds = None THEN None ELSE bounds \cup {clock'}
    /\ UNCHANGED geometryOnly

SetPoints(n) ==
    /\ Change
    /\ cells > 0 => n = Len(points.items)
    /\ points' = Recorded(points, Stamps(n, clock'), clock', 0, n, TRUE)
    /\ normals' = 0
    /\ bounds' = IF n = 0 THEN {} ELSE {clock'}
    /\ UNCHANGED geometryOnly

SetPointsRange(r) ==
    /\ Change
    /\ points' = Recorded(points, Written(points.items, r, clock'), clock', r[1], r[2], FALSE)
    /\ normals' = 0
    /\ bounds' = None
    /\ UNCHANGED geometryOnly

AskBounds ==
    /\ bounds = None
    /\ bounds' = ToSet(points.items)
    /\ UNCHANGED <<clock, points, normals, geometryOnly, mesh, glyphs, drawn,
                   surface>>

ComputeNormals ==
    /\ Change
    /\ points' = Touched(points, clock')
    /\ normals' = clock'
    /\ UNCHANGED <<bounds, geometryOnly>>

\* A triangle, or a line, which has no normals.
AddCell(polygon) ==
    /\ Change
    /\ cells = 0 /\ points.items # <<>>
    /\ cells' = 1
    /\ topology' = clock'
    /\ points' = IF polygon THEN Touched(points, clock') ELSE points
    /\ normals' = IF polygon THEN 0 ELSE normals
    /\ UNCHANGED <<bounds, attributes, scalars, opacities, look, instances>>

Clear ==
    /\ Change
    /\ points' = Touched([points EXCEPT !.items = <<>>], clock')
    /\ normals' = 0 /\ bounds' = {} /\ cells' = 0
    /\ topology' = clock' /\ attributes' = clock'
    /\ scalars' = None
    /\ UNCHANGED <<opacities, look, instances>>

\* An array is sized with a record, unless its memory is the program's.
SetScalars(address, external) ==
    /\ Change
    /\ scalars # None => scalars.address # address
    /\ scalars' = [address |-> address,
                   data |-> IF external THEN New(Stamps(Len(points.items), clock'), clock')
                            ELSE Full(Len(points.items), clock')]
    /\ attributes' = clock'
    /\ UNCHANGED <<points, normals, bounds, cells, topology, opacities, look, instances>>

SetTuples(r) ==
    /\ Change
    /\ scalars' = [scalars EXCEPT !.data = Recorded(@, Written(@.items, r, clock'), clock',
                                                    r[1], r[2], FALSE)]
    /\ attributes' = clock'
    /\ UNCHANGED <<points, normals, bounds, cells, topology, opacities, look, instances>>

ResizeScalars(n) ==
    /\ Change
    /\ n # Len(scalars.data.items)
    /\ scalars' = [scalars EXCEPT !.data = Recorded(@, Stamps(n, clock'), clock', 0, n, TRUE)]
    /\ attributes' = clock'
    /\ UNCHANGED <<points, normals, bounds, cells, topology, opacities, look, instances>>

\* Another array of the attributes.
SetOpacities ==
    /\ Change
    /\ opacities' = clock' /\ attributes' = clock'
    /\ UNCHANGED <<points, normals, bounds, cells, topology, scalars, look, instances>>

\* The setters of the mapper that colours depend on, its lookup table's included.
SetLook(new) ==
    /\ Change
    /\ look' = [new EXCEPT !.time = clock']
    /\ UNCHANGED <<points, normals, bounds, cells, topology, attributes, scalars, opacities,
                   instances>>

instancesOnly ==
    <<points, normals, bounds, cells, topology, attributes, scalars, opacities, look>>

AddInstance ==
    /\ Change
    /\ Len(instances.items) < MaxPoints
    /\ instances' = Recorded(instances, Append(instances.items, clock'), clock',
                             Len(instances.items), 1, FALSE)
    /\ UNCHANGED instancesOnly

SetInstances(r) ==
    /\ Change
    /\ instances' = Recorded(instances, Written(instances.items, r, clock'), clock', r[1], r[2],
                             FALSE)
    /\ UNCHANGED instancesOnly

ClearInstances ==
    /\ Change
    /\ instances' = Recorded(instances, <<>>, clock', 0, 0, TRUE)
    /\ UNCHANGED instancesOnly

\* fviz_glyph_mapper_build_from_point_vectors: another array, another history.
BuildInstances(n) ==
    /\ Change
    /\ instances' = Full(n, clock')
    /\ UNCHANGED instancesOnly

-----------------------------------------------------------------------------
(* The mesh resource *)

Count == Len(points.items)

WithGeometry(m, range) ==
    [m EXCEPT !.positions = Patched(@, points.items, range),
              !.normals = IF normals = 0 THEN @ ELSE Patched(@, Stamps(Count, normals), range),
              !.geometry = points.time]

Everything == [first |-> 0, count |-> Count, full |-> TRUE]
UsableOr(range) == IF Usable(range, Count) THEN range ELSE Everything

UpdatedGeometry(m) ==
    IF m.geometry = points.time THEN m
    ELSE WithGeometry(m, UsableOr(DirtySince(points, m.geometry)))

\* The automatic range is found once; the look changes with it.
Ranged == look.visible /\ scalars # None /\ ~look.range
RangedLook(t) == IF Ranged THEN [look EXCEPT !.range = TRUE, !.time = t] ELSE look

Colour(i, time) ==
    <<scalars.data.items[IF look.field THEN 1 ELSE i], time, IF look.opacity THEN opacities ELSE 0>>

Colourable ==
    /\ look.visible /\ scalars # None
    /\ IF look.field THEN scalars.data.items # <<>> ELSE Len(scalars.data.items) = Count
Colours(time) ==
    IF Colourable THEN [i \in 1 .. Count |-> Colour(i, time)] ELSE <<>>

BuiltColours(m, time) ==
    [m EXCEPT !.colours = Colours(time),
              !.array = IF Colourable THEN scalars.address ELSE 0,
              !.arrayTime = IF Colourable THEN scalars.data.time ELSE 0,
              !.attributes = attributes, !.look = time]

PartlyColoured(m) ==
    /\ m.colours # <<>> /\ m.look = look.time
    /\ scalars # None /\ m.array = scalars.address
    /\ ~look.field /\ ~look.opacity
    /\ Len(scalars.data.items) = Count
    /\ Usable(DirtySince(scalars.data, m.arrayTime), Count)

UpdatedColours(m, time) ==
    IF m.attributes = attributes /\ m.look = look.time THEN m
    ELSE IF PartlyColoured(m)
    THEN [m EXCEPT !.colours = Patched(@, Colours(look.time),
                                       DirtySince(scalars.data, m.arrayTime)),
                   !.arrayTime = IF DirtySince(scalars.data, m.arrayTime).count = 0 THEN @
                                 ELSE scalars.data.time,
                   !.attributes = attributes]
    ELSE BuiltColours(m, time)

\* Only what rebuilds colours looks for their range.
RebuildsColours(m) ==
    ~(m.attributes = attributes /\ m.look = look.time) /\ ~PartlyColoured(m)

NewMesh(time) ==
    BuiltColours([positions |-> points.items,
                  normals |-> Stamps(Count, normals),
                  geometry |-> points.time, topology |-> topology,
                  colours |-> <<>>, array |-> 0, arrayTime |-> 0,
                  attributes |-> attributes, look |-> time], time)

Reusable == mesh # None /\ mesh.topology = topology /\ Len(mesh.positions) = Count

EnsureMesh ==
    /\ surface = "mesh" /\ ~drawn /\ Count > 0 /\ cells > 0
    /\ drawn' = TRUE
    /\ IF Ranged /\ (~Reusable \/ RebuildsColours(mesh))
       THEN look' = RangedLook(clock + 1) /\ clock' = clock + 1
       ELSE UNCHANGED <<look, clock>>
    /\ mesh' = IF Reusable THEN UpdatedColours(UpdatedGeometry(mesh), look'.time)
               ELSE NewMesh(look'.time)
    /\ UNCHANGED <<points, normals, bounds, cells, topology, attributes, scalars, opacities,
                   instances, glyphs, surface>>

-----------------------------------------------------------------------------
(* The resource of the glyphs *)

PartlyUploaded(g, range) ==
    /\ g.buffer # <<>> /\ g.time # 0
    /\ Usable(range, Len(instances.items)) /\ range.count # 0
    /\ Len(g.buffer) >= Len(instances.items)

\* A buffer that is large enough stays.
Rewritten(buffer) ==
    IF Len(buffer) >= Len(instances.items)
    THEN Patched(buffer, instances.items,
                 [first |-> 0, count |-> Len(instances.items), full |-> TRUE])
    ELSE instances.items

UploadedInstances(g, range) ==
    [g EXCEPT !.buffer = IF PartlyUploaded(g, range) THEN Patched(@, instances.items, range)
                         ELSE Rewritten(@),
              !.count = Len(instances.items), !.time = instances.time]

NewGlyphs ==
    [positions |-> points.items, normals |-> Stamps(Count, normals), source |-> MTime,
     buffer |-> <<>>, count |-> 0, time |-> 0]

EnsureGlyphs ==
    /\ surface = "glyphs" /\ ~drawn /\ instances.items # <<>> /\ Count > 0 /\ cells > 0
    /\ drawn' = TRUE
    /\ glyphs' =
        IF glyphs # None /\ glyphs.source = MTime
        THEN IF glyphs.time = instances.time /\ glyphs.count = Len(instances.items) THEN glyphs
             ELSE UploadedInstances(glyphs, DirtySince(instances, glyphs.time))
        ELSE UploadedInstances(NewGlyphs, DirtySince(instances, 0))
    /\ UNCHANGED <<clock, points, normals, bounds, cells, topology, attributes, scalars,
                   opacities, look, instances, mesh, surface>>

\* Evicted or purged.
Destroy ==
    /\ drawn
    /\ mesh' = None /\ glyphs' = None
    /\ drawn' = FALSE
    /\ UNCHANGED <<clock, points, normals, bounds, cells, topology, attributes, scalars,
                   opacities, look, instances, surface>>

Setters == {"visible", "field", "opacity", "range"}

Next ==
    \/ AddPoint \/ AskBounds \/ ComputeNormals \/ Clear
    \/ \E n \in 0 .. MaxPoints : SetPoints(n)
    \/ \E r \in Ranges(Count) : SetPointsRange(r)
    \/ \E s \in BOOLEAN : AddCell(s)
    \/ /\ surface = "mesh"
       /\ \/ SetOpacities
          \/ \E a \in {1, 2}, e \in {FALSE, ExternalArrays} : SetScalars(a, e)
          \/ /\ scalars # None
             /\ \/ \E r \in Ranges(Len(scalars.data.items)) : SetTuples(r)
                \/ \E n \in 0 .. MaxPoints : ResizeScalars(n)
          \/ SetLook(look)
          \/ \E f \in Setters : SetLook([look EXCEPT ![f] = ~@])
    \/ /\ surface = "glyphs"
       /\ \/ AddInstance \/ ClearInstances
          \/ \E r \in Ranges(Len(instances.items)) : SetInstances(r)
          \/ \E n \in 0 .. MaxPoints : BuildInstances(n)
    \/ EnsureMesh \/ EnsureGlyphs \/ Destroy

Spec == Init /\ [][Next]_gpuVars

-----------------------------------------------------------------------------
\* A mesh made ready shows its coordinates and, while they are valid, its normals; its
\* colours are those that a new buffer would have.
MeshFresh ==
    (drawn /\ surface = "mesh") =>
        /\ mesh.positions = points.items
        /\ normals # 0 => mesh.normals = Stamps(Count, normals)
        /\ mesh.colours = Colours(look.time)

\* Glyphs made ready show every instance, and their source.
GlyphsFresh ==
    (drawn /\ surface = "glyphs") =>
        /\ SubSeq(glyphs.buffer, 1, glyphs.count) = instances.items
        /\ glyphs.positions = points.items
        /\ normals # 0 => glyphs.normals = Stamps(Count, normals)

\* Cached bounds enclose the points and nothing else.
BoundsFresh == bounds # None => bounds = ToSet(points.items)
=============================================================================
