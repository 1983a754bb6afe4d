---------------------------- MODULE MCSequential ----------------------------
(***************************************************************************)
(* Sequential components of the core, of the data and of the display that  *)
(* share nothing, for TLC: a behaviour is one of the ready heap, of the    *)
(* memory of a device, of a container, of the tables of cell types, of a   *)
(* grid that a piece filter reads, of a hierarchy over cells, of data      *)
(* ordered by time, of a structured grid, of a region that selects, of a   *)
(* plane that cuts, of filters of surfaces, of expressions over arrays, of *)
(* what is computed from samples, of a result shown on its mesh, of files  *)
(* that are written and read, of the frames of a series of files, of a     *)
(* cache of loaded frames, of a scene that is drawn, of a window's         *)
(* surface, or of columns of data.                                         *)
(* Constants by component, in this order.                                  *)
(***************************************************************************)
EXTENDS Integers, TLC

CONSTANTS
    Priorities, MaxSequence, Capacity,
    Actors, ActorSizes, MaxFrames, MaxFrameUses,
    None,
    Keys, Values, MinCapacity, MaxCapacity,
    BlockSize, Sizes, Alignments, Bases, MaxBlocks,
    BitsPerWord, MaxBits,
    CellTypes, HashSize, LevelMax, Points, MorePoints, MaxPieces, MaxGhosts, MaxChanges,
    LeafCells, MaxLevels, MaxCells,
    Times, MaxSteps, LastPixel,
    Solids, MaxNormal, MaxOffset,
    MaxPatchCells, Tolerances, Resolution,
    Tokens, MaxTokens, CacheSize, MaxUses,
    MaxSamples, NotFinite, MaxLeaves, Grain,
    MaxFieldBlocks,
    SectionArrays, MaxRounds, Refused,
    MaxCalls,
    MaxRenders, MaxVertices,
    WindowKinds, Hosts, ReinitializedKinds, DestroyedWhileShown, Validates, MaxPosted,
    MaxModified, NaN, Infinite, MaxNarrowId, MaxListed, IndexThreshold, ColumnNames, HeldArrays, Roles

VARIABLES
    component, \* the one that moves
    queue, sequence, waiting, popped,
    frame, inFrame, resources, pinned, options, shown, evicted,
    slots, count, tombstones, dictionary,
    blocks, current, usedBytes, reservedBytes, live,
    words, capacity, bitCount, bits,
    type,
    mesh, points, cellsTime, clock, adjacency, links, owners,
    hierarchy, cells, moved, recelled, index,
    sort, times,
    style, extent, kept, output,
    figure, lasso,
    subject, setting, stage, done

\* Hash values of six keys: collisions, and a run that wraps around the table's end.
Hash == 1 :> 3 @@ 2 :> 3 @@ 3 :> 4 @@ 4 :> 6 @@ 5 :> 7 @@ 6 :> 11

\* Three tetrahedra in a row, each on a face of the one before, and a triangle on a
\* face of the first.
Cells ==
    {[type |-> "tetra", points |-> <<i, i + 1, i + 2, i + 3>>] : i \in 0 .. 2}
    \cup {[type |-> "triangle", points |-> <<0, 1, 2>>]}

\* Cells of two points and of three in a plane, and of a single one.
Shapes == {{<<0, 0>>, <<1, 1>>}, {<<1, 2>>, <<2, 1>>, <<3, 0>>}, {<<3, 2>>}}
\* Points that are asked for.
Lattice == (0 .. 3) \X (0 .. 2)

\* No index, one, two that begin below zero, and three.
Ranges == {<<0, -1>>, <<1, 1>>, <<-1, 0>>, <<0, 2>>}

\* Planes of every direction, many through corners and many that only touch.
Normals == ((-1 .. MaxNormal) \X (-1 .. MaxNormal) \X (-1 .. MaxNormal)) \ {<<0, 0, 0>>}

\* Two squares, one halved, with two points close to others, and cells of all categories.
Locations == <<<<0, 0, 0>>, <<3, 0, 0>>, <<6, 0, 0>>, <<0, 3, 0>>, <<3, 3, 0>>, <<6, 4, 0>>,
               <<7, 4, 1>>, <<-1, 1, 0>>>>
PatchCells ==
    {[kind |-> c[1], ids |-> c[2]] :
        c \in {<<"vert", <<3, 7, 6>>>>, <<"line", <<1, 8>>>>, <<"line", <<1, 2, 3, 6, 7>>>>,
               <<"poly", <<1, 2, 5>>>>, <<"poly", <<1, 5, 4>>>>, <<"poly", <<3, 6, 7>>>>,
               <<"poly", <<2, 3, 6, 5>>>>, <<"poly", <<2, 3, 7, 6, 5>>>>, <<"poly", <<1, 2, 8, 4>>>>,
               <<"strip", <<4, 1, 5, 2, 6, 3>>>>}}

\* Of one, two and three components.
Arrays == "x" :> 1 @@ "w" :> 2 @@ "v" :> 3
\* Expressions that use every function's kind, three that are none, and two too deep for
\* those that are written token by token.
Sources ==
    {<<"x", "+", "v">>, <<"v", ".y">>, <<"x", "(">>, <<"dot", "(", "w", ",", "v", ")">>,
     <<"where", "(", "w", "<", "w", ",", "x", ",", "w", ")">>,
     <<"clamp", "(", "x", ",", "v", ",", "1", ")">>,
     <<"cross", "(", "v", ",", "v", ")", "-", "v">>,
     <<"vec2", "(", "x", ",", "v", ".x", ")", "*", "w">>,
     <<"normalize", "(", "v", ")", "^", "mag", "(", "w", ")">>,
     <<"x", "<", "v", "?", "v", ":", "x", "?", "1", ":", "v">>,
     <<"-", "(", "min", "(", "v", ",", "x", ")", "/", "-", "2", ")", "^", "-", "x", "^", "2">>,
     <<"vec4", "(", "x", ",", "x", ",", "e", ",", "w", "[0]", ")">>,
     <<"vec2", "(", "x", ",", "x", ",", "x", ",", "x", ",", "x", ")">>}

\* A destination of two samples, a ghost, one without weight, one that is not finite, and
\* one without a destination.
Samples ==
    {[id |-> s[1], value |-> s[2], weight |-> s[3], ghost |-> s[4], place |-> s[5]] :
        s \in {<<0, 12, 1, FALSE, 0>>, <<1, 24, 2, FALSE, 1>>, <<0, -12, 1, TRUE, 2>>,
               <<2, 12, 0, FALSE, 1>>, <<1, NotFinite, 1, FALSE, -1>>, <<-1, 0, 1, FALSE, 1>>}}

\* Two triangles on a line of four points; their numbers, other numbers, and a number twice.
Corners == <<<<1, 2, 3>>, <<2, 4, 3>>>>
Places == <<0, 3, 6, 9>>
\* Blocks of every position, in order or not, incomplete or not, labelled or not.
SamplesOf(s) == [i \in DOMAIN s |-> [entity |-> s[i][1], local |-> s[i][2], value |-> s[i][3]]]
FieldBlocks ==
    {[position |-> b[1], instance |-> b[2], section |-> b[3], labelled |-> b[4], numbered |-> b[5], tuples |-> SamplesOf(b[6])] : b \in {
        <<"nodal", "A", 1, TRUE, FALSE, <<<<1, 0, 3>>, <<2, 0, -6>>, <<4, 0, NotFinite>>>>>>,
        <<"nodal", None, 1, FALSE, FALSE, <<<<0, 0, 0>>, <<0, 0, 6>>, <<0, 0, 3>>, <<0, 0, 3>>>>>>,
        <<"nodal", "B", 2, TRUE, FALSE, <<<<3, 0, 9>>, <<4, 0, 3>>>>>>,
        <<"element_nodal", "A", 1, TRUE, TRUE, <<<<1, 1, 3>>, <<1, 2, 6>>, <<1, 3, 9>>, <<2, 2, 6>>, <<2, 1, 3>>, <<2, 3, 9>>>>>>,
        <<"element_nodal", "B", 1, TRUE, FALSE, <<<<2, 0, 3>>, <<1, 0, 3>>, <<2, 0, 0>>, <<2, 0, 6>>>>>>,
        <<"ip", "A", 1, TRUE, TRUE, <<<<1, 3, 9>>, <<2, 1, 6>>, <<1, 1, 3>>, <<1, 2, 6>>>>>>,
        <<"ip", "A", 2, TRUE, FALSE, <<<<2, 0, 6>>, <<1, 0, 3>>, <<2, 0, 3>>, <<2, 0, NotFinite>>>>>>,
        <<"centroid", "A", 1, TRUE, FALSE, <<<<2, 0, 6>>, <<1, 0, 3>>>>>>,
        <<"whole", "B", 2, FALSE, FALSE, <<<<0, 0, 3>>, <<0, 0, 3>>, <<0, 0, 3>>>>>>,
        <<"face", "B", 2, TRUE, TRUE, <<<<2, 4, 6>>>>>>}}
Numberings == {[points |-> <<>>, cells |-> <<>>], [points |-> <<2, 4, 1, 3>>, cells |-> <<2, 1>>], [points |-> <<1, 1, 2, 3>>, cells |-> <<1, 2>>]}
Requests ==
    {[source |-> r[1], target |-> r[2], instance |-> r[3], section |-> r[4], filter |-> r[5], averaging |-> r[6],
      across |-> r[7], threshold |-> r[8], base |-> r[9], fallback |-> r[10]] : r \in {
        <<None, None, None, None, None, TRUE, FALSE, 100, "auto", "mean">>,
        <<None, "nodal", "A", None, None, TRUE, TRUE, -1, "auto", "mean">>,
        <<None, "element_nodal", None, 1, None, TRUE, TRUE, 100, "one", "mean">>,
        <<None, "centroid", None, None, None, TRUE, TRUE, 100, "auto", "mean">>,
        <<"ip", "nodal", None, None, {1, 3}, TRUE, TRUE, 50, "one", "mean">>,
        <<"ip", None, None, 1, None, FALSE, TRUE, 100, "auto", "fail">>,
        <<"element_nodal", "nodal", None, None, {2}, TRUE, TRUE, -1, "one", "mean">>,
        <<"whole", "nodal", None, None, None, TRUE, FALSE, -1, "auto", "mean">>,
        <<"nodal", "nodal", None, None, {1, 2}, FALSE, TRUE, -1, "zero", "mean">>,
        <<None, "face", None, 2, None, TRUE, TRUE, 100, "auto", "mean">>}}
ShapeOptions ==
    {[instance |-> r[1], complete |-> r[2], scale |-> r[3], undeformed |-> r[4]] : r \in {
        <<None, TRUE, None, FALSE>>, <<"A", FALSE, 2, FALSE>>, <<None, FALSE, 1, FALSE>>, <<"B", FALSE, None, FALSE>>,
        <<None, TRUE, 1, TRUE>>}}

\* Grids with ghosts of both kinds, in every section, with cells no reader knows, without
\* points; surfaces with cells of every category or of none.
Grids ==
    {[points |-> g[1], cells |-> [k \in DOMAIN g[2] |-> [type |-> g[2][k][1], ids |-> g[2][k][2]]],
      data |-> [s \in {"PointData", "CellData", "FieldData"} |->
          [k \in DOMAIN g[3][s] |-> [name |-> g[3][s][k][1], type |-> g[3][s][k][2], width |-> g[3][s][k][3], tuples |-> g[3][s][k][4]]]],
      roles |-> g[4]] : g \in {
        <<<<<<0, 0, 1>>, <<0, 0, 2>>, <<0, 0, 3>>>>, <<<<"triangle", <<3, 1, 2>>>>>>,
          [PointData |-> <<<<"FVizGhostType", "UInt8", 1, <<<<0>>, <<1>>, <<3>>>>>>, <<"t", "Float32", 2, <<<<1, 4>>, <<2, 5>>, <<3, 6>>>>>>>>,
           CellData |-> <<<<"vtkGhostType", "UInt8", 1, <<<<41>>>>>>>>, FieldData |-> <<<<"time", "Float64", 1, <<<<7>>, <<8>>>>>>>>],
          [PointData |-> <<"t", "FVizGhostType">>, CellData |-> <<None, None>>, FieldData |-> <<"time", None>>]>>,
        <<<<<<0, 0, 1>>, <<0, 0, 2>>, <<0, 0, 3>>, <<0, 0, 4>>>>, <<<<"tetra", <<1, 2, 3, 4>>>>, <<"triangle", <<1, 2, 4>>>>>>,
          [PointData |-> <<<<"vtkGhostType", "UInt8", 1, <<<<2>>, <<0>>, <<1>>, <<3>>>>>>>>,
           CellData |-> <<<<"FVizGhostType", "UInt8", 1, <<<<2>>, <<0>>>>>>, <<"id", "Int64", 1, <<<<9>>, <<8>>>>>>,
                          <<"vtkGhostType", "UInt8", 1, <<<<1>>, <<8>>>>>>>>,
           FieldData |-> <<<<"FVizGhostType", "UInt8", 1, <<<<2>>>>>>>>],
          [PointData |-> <<"vtkGhostType", None>>, CellData |-> <<"id", "vtkGhostType">>, FieldData |-> <<None, "FVizGhostType">>]>>,
        <<<<<<0, 0, 1>>>>, <<>>, [PointData |-> <<<<"t", "Float64", 1, <<<<5>>>>>>>>, CellData |-> <<>>, FieldData |-> <<<<"none", "Int64", 1, <<>>>>>>],
          [PointData |-> <<None, None>>, CellData |-> <<None, None>>, FieldData |-> <<None, None>>]>>,
        <<<<<<0, 0, 1>>, <<0, 0, 2>>>>, <<<<"line", <<1, 2>>>>>>, [PointData |-> <<>>, CellData |-> <<>>, FieldData |-> <<>>],
          [PointData |-> <<None, None>>, CellData |-> <<None, None>>, FieldData |-> <<None, None>>]>>,
        <<<<>>, <<>>, [PointData |-> <<>>, CellData |-> <<>>, FieldData |-> <<>>],
          [PointData |-> <<None, None>>, CellData |-> <<None, None>>, FieldData |-> <<None, None>>]>>}}
Surfaces ==
    {[points |-> g[1], cells |-> [c \in DOMAIN g[2] |-> [k \in DOMAIN g[2][c] |-> [ids |-> g[2][c][k]]]],
      data |-> [s \in {"PointData", "CellData", "FieldData"} |->
          [k \in DOMAIN g[3][s] |-> [name |-> g[3][s][k][1], type |-> g[3][s][k][2], width |-> g[3][s][k][3], tuples |-> g[3][s][k][4]]]],
      roles |-> g[4]] : g \in {
        <<<<<<0, 0, 1>>, <<0, 0, 2>>, <<0, 0, 3>>, <<0, 0, 4>>>>,
          [Verts |-> <<<<4>>>>, Lines |-> <<<<1, 2>>, <<2, 3, 1>>>>, Strips |-> <<<<1, 2, 3, 4>>>>, Polys |-> <<<<1, 2, 3>>, <<4, 3, 2, 1>>>>],
          [PointData |-> <<<<"FVizGhostType", "UInt8", 1, <<<<0>>, <<1>>, <<3>>, <<2>>>>>>>>,
           CellData |-> <<<<"c", "Int32", 1, <<<<1>>, <<2>>, <<3>>, <<4>>, <<5>>, <<6>>>>>>>>,
           FieldData |-> <<<<"time", "Float64", 2, <<<<7, 8>>>>>>>>],
          [PointData |-> <<None, "FVizGhostType">>, CellData |-> <<"c", None>>, FieldData |-> <<"time", None>>]>>,
        <<<<>>, [Verts |-> <<>>, Lines |-> <<>>, Strips |-> <<>>, Polys |-> <<>>], [PointData |-> <<>>, CellData |-> <<>>, FieldData |-> <<>>],
          [PointData |-> <<None, None>>, CellData |-> <<None, None>>, FieldData |-> <<None, None>>]>>}}
\* Sections that fit together, some twice, and some that do not fit.
LegacySections ==
    {[keyword |-> "POINTS", count |-> 2], [keyword |-> "POINTS", count |-> 1],
     [keyword |-> "CELLS", records |-> <<<<1, 2, 2>>>>], [keyword |-> "CELLS", records |-> <<<<3, 2, 1>>, <<1, 2, 1>>>>],
     [keyword |-> "CELL_TYPES", types |-> <<"triangle">>], [keyword |-> "CELL_TYPES", types |-> <<"triangle", "polygon">>],
     [keyword |-> "DATA", of |-> "points", count |-> 2], [keyword |-> "DATA", of |-> "cells", count |-> 1],
     [keyword |-> "ARRAY", name |-> "t"], [keyword |-> "FIELD", name |-> "t", count |-> 2]}

\* Entries in and out of order; parts by number, in place and in a manifest, some missing.
Disk == <<"p">> :> 1 @@ <<"q">> :> 2 @@ <<"r">> :> 4
Manifest == <<"m">>
EntriesOf(s) == [i \in DOMAIN s |-> [time |-> s[i][1], part |-> s[i][2], file |-> <<s[i][3]>>]]
Collections ==
    "a" :> EntriesOf(<<<<6, 0, "p">>, <<2, 1, "q">>, <<4, 0, "q">>, <<6, 1, "r">>, <<2, 0, "p">>>>)
    @@ "b" :> EntriesOf(<<<<4, 0, "m">>, <<0, 1, "q">>, <<0, 1, "r">>>>)
    @@ "c" :> EntriesOf(<<<<2, 0, "gone">>, <<4, 0, "r">>, <<0, 0, "m">>, <<4, 0, "m">>>>)
    @@ "none" :> <<>>
\* Pieces with and without ghosts and layers of them, and one unlike the first.
PieceOf(size, arrays, active, levels, ghosts) ==
    [grid |-> TRUE, size |-> size, arrays |-> [k \in DOMAIN arrays |-> [name |-> arrays[k][1], type |-> arrays[k][2]]],
     active |-> active, levels |-> levels, ghosts |-> ghosts]
BothGhosts == <<<<"FVizGhostType", "UInt8">>, <<"t", "Float32">>, <<"vtkGhostType", "UInt8">>>>
OtherGhosts == <<<<"FVizGhostType", "Int32">>, <<"vtkGhostType", "UInt8">>>>
DataSets ==
    {<<PieceOf(1, BothGhosts, "vtkGhostType", <<0, 2>>, <<FALSE, TRUE>>), PieceOf(2, BothGhosts, "vtkGhostType", <<0>>, <<TRUE>>)>>,
     <<PieceOf(2, OtherGhosts, None, <<>>, <<FALSE>>), PieceOf(2, OtherGhosts, None, <<>>, <<TRUE>>),
       PieceOf(1, OtherGhosts, None, <<>>, <<>>)>>,
     <<PieceOf(1, OtherGhosts, None, <<>>, <<>>), PieceOf(1, BothGhosts, None, <<>>, <<>>)>>}
FrameRequests ==
    {[time |-> r[1], piece |-> r[2], pieces |-> r[3], ghosts |-> r[4]] : r \in
        {<<3, 0, 1, 0>>, <<4, 0, 2, 0>>, <<4, 1, 2, 0>>, <<9, 0, 1, 0>>, <<-1, 1, 2, 1>>, <<0, 2, 3, 0>>}}
CacheLimits == {[capacity |-> c[1], budget |-> c[2]] : c \in {<<3, 0>>, <<1, 3>>, <<2, 6>>, <<2, 0>>}}

\* Actors that cover the pixel at several depths or do not, with controls of their own,
\* left out for every reason, and renderers over and beside each other.
PlainActor ==
    [visible |-> TRUE, kind |-> "surface", opaque |-> TRUE, seen |-> TRUE, depth |-> 0, distance |-> 0, inside |-> TRUE,
     size |-> 9, order |-> "OPAQUE", test |-> TRUE, write |-> TRUE, func |-> "lequal", range |-> 0, cull |-> "back",
     coincident |-> "default", faces |-> TRUE, shift |-> 0, mode |-> "default", edges |-> FALSE, wire |-> FALSE,
     points |-> FALSE, tris |-> 2, lines |-> 0, vertices |-> 4, instances |-> 0, rim |-> FALSE, ready |-> TRUE,
     pickable |-> TRUE, data |-> "p"]
FaceAt(d) == [PlainActor EXCEPT !.depth = d, !.distance = d]
GlassAt(d) == [FaceAt(d) EXCEPT !.opaque = FALSE, !.order = "TRANSLUCENT"]
OwnControls ==
    [PlainActor EXCEPT !.test = FALSE, !.write = FALSE, !.func = "always", !.range = 5, !.cull = "front",
                       !.coincident = "shift", !.shift = 3, !.lines = 1]
Lined == [FaceAt(30) EXCEPT !.edges = TRUE, !.points = TRUE, !.rim = TRUE, !.mode = "edges", !.data = "q"]
LeftOut ==
    <<[FaceAt(2) EXCEPT !.visible = FALSE], [FaceAt(4) EXCEPT !.inside = FALSE], [FaceAt(6) EXCEPT !.size = 1],
      [FaceAt(8) EXCEPT !.ready = FALSE], [FaceAt(44) EXCEPT !.pickable = FALSE, !.data = "r"],
      [PlainActor EXCEPT !.wire = TRUE, !.cull = "none"],
      [GlassAt(12) EXCEPT !.kind = "glyphs", !.instances = 3, !.coincident = "offset"],
      [FaceAt(24) EXCEPT !.tris = 0, !.lines = 1, !.rim = TRUE, !.points = TRUE]>>
StandardPasses == <<"CLEAR", "OPAQUE", "TRANSLUCENT", "EDGE", "SELECTION", "OVERLAY">>
PlainRenderer(actors, blending) ==
    [layer |-> 0, covers |-> TRUE, interactive |-> TRUE, works |-> TRUE, frustum |-> TRUE, small |-> 3, blending |-> blending,
     gradient |-> FALSE, legend |-> None, texts |-> <<>>, passes |-> StandardPasses, actors |-> actors]
TextOf(visible, tested, fails) == [visible |-> visible, tested |-> tested, fails |-> fails]
Depths == <<GlassAt(20), FaceAt(80), GlassAt(60), FaceAt(40), [GlassAt(34) EXCEPT !.order = "OPAQUE"]>>
ManyDepths == <<OwnControls, GlassAt(20), FaceAt(80), GlassAt(60), FaceAt(40), GlassAt(34), Lined>>
Scenes ==
    {<<PlainRenderer(ManyDepths, b)>> : b \in {"sorted", "summed"}}
    \cup {<<PlainRenderer(LeftOut, b)>> : b \in {"sorted", "summed"}}
    \cup {<<[PlainRenderer(<<OwnControls, [GlassAt(0) EXCEPT !.tris = 3], OwnControls>>, "peeled") EXCEPT !.covers = FALSE]>>,
          <<PlainRenderer(<<GlassAt(50), Lined, [GlassAt(10) EXCEPT !.kind = "volume", !.tris = 0]>>, "sorted")>>,
          <<[PlainRenderer(<<GlassAt(9), FaceAt(16)>>, "sorted") EXCEPT !.layer = 2, !.passes = <<"CLEAR", "custom", "OPAQUE", "TRANSLUCENT">>],
            [PlainRenderer(Depths, "sorted") EXCEPT !.gradient = TRUE, !.texts = <<TextOf(TRUE, TRUE, FALSE), TextOf(FALSE, FALSE, TRUE)>>],
            [PlainRenderer(<<FaceAt(1)>>, "summed") EXCEPT !.covers = FALSE, !.layer = 7],
            [PlainRenderer(<<FaceAt(22), GlassAt(14)>>, "sorted") EXCEPT !.layer = 2, !.interactive = FALSE]>>,
          <<[PlainRenderer(<<FaceAt(5)>>, "sorted") EXCEPT !.layer = 1, !.passes = <<"OPAQUE", "failing", "EDGE">>],
            [PlainRenderer(<<Lined>>, "sorted") EXCEPT !.legend = [ticks |-> 13, marks |-> TRUE, discrete |-> TRUE, panel |-> TRUE, texts |-> 2]]>>,
          <<[PlainRenderer(<<FaceAt(5)>>, "sorted") EXCEPT !.works = FALSE, !.layer = 1], PlainRenderer(<<>>, "sorted")>>,
          <<[PlainRenderer(<<Lined, FaceAt(90)>>, "sorted") EXCEPT !.texts = <<TextOf(TRUE, FALSE, FALSE), TextOf(TRUE, TRUE, TRUE)>>,
              !.legend = [ticks |-> 14, marks |-> TRUE, discrete |-> FALSE, panel |-> TRUE, texts |-> 3]]>>}
Devices ==
    {[modern |-> d[1], edges |-> d[2], points |-> d[3], volume |-> d[4], summing |-> d[5], peeling |-> d[6], text |-> d[7],
      smoothing |-> d[8]] : d \in {
        <<TRUE, TRUE, TRUE, TRUE, "ready", TRUE, TRUE, TRUE>>, <<TRUE, FALSE, FALSE, FALSE, "none", FALSE, FALSE, FALSE>>,
        <<TRUE, FALSE, TRUE, TRUE, "fails", TRUE, TRUE, FALSE>>, <<FALSE, FALSE, FALSE, FALSE, "none", FALSE, FALSE, FALSE>>}}

\* Two buttons or two renderers where the window has least else to do.
WindowButtons(kind) == IF kind = "own" THEN {"left", "right"} ELSE {"left"}
WindowRenderers(kind) == IF kind \in {"own", "attached"} THEN {"r"} ELSE {"r", "s"}

\* Numbers and tuples beyond what the types hold, counted in halves; cells of wide and of
\* narrow ids, and some of a wrong size; two names of one hash.
Numbers == {-5, -3, 1, 2, 7, NaN, Infinite}
Tuples ==
    {<<>>, <<<<2>>>>, <<<<0>>, <<2>>>>, <<<<2, 0>>>>, <<<<-3, 4>>>>, <<<<NaN>>, <<2>>>>, <<<<Infinite>>, <<0>>>>}
Batches ==
    {[type |-> b[1], size |-> b[2], ids |-> b[3]] :
        b \in {<<"line", 2, <<0, 1>>>>, <<"line", 2, <<2, 1, 3, 4>>>>, <<"polygon", 3, <<1, 2, 3>>>>,
               <<"vertex", 1, <<0, 5>>>>, <<"line", 3, <<0, 1, 2>>>>}}
HashOf(name) == IF name = "c" THEN 2 ELSE 1

\* Sizes of three frames; limits of the cache.
Size == <<1, 2, 3>>
Limits == {[frames |-> 2, bytes |-> 0], [frames |-> 3, bytes |-> 4], [frames |-> 0, bytes |-> 2],
           [frames |-> 1, bytes |-> 2], [frames |-> 3, bytes |-> 2]}

Heap == INSTANCE ExecutorHeap
Device == INSTANCE GpuMemory
Map == INSTANCE HashMap
Memory == INSTANCE Arena
Flags == INSTANCE BitArray
Types == INSTANCE CellTopology
Grid == INSTANCE UnstructuredGrid
Spatial == INSTANCE SpatialIndex WITH style <- hierarchy, MaxDepth <- MaxLevels
Series == INSTANCE TimeSeries
Structured == INSTANCE StructuredGrids
Region == INSTANCE RegionSelection
Cut == INSTANCE Cutting WITH solid <- subject, normal <- setting, offset <- stage
Surface == INSTANCE SurfaceFilters
    WITH surface <- subject, tolerance <- setting, merged <- stage, clusters <- done
Expression == INSTANCE Expressions
    WITH source <- subject, entries <- setting, uses <- stage, recent <- done
Field == INSTANCE FieldComputations WITH samples <- subject, leaves <- setting
Display == INSTANCE ResultDisplay
    WITH field <- subject, names <- setting, cached <- stage, shape <- done

Format == INSTANCE FileFormats
    WITH original <- subject, file <- setting, copy <- stage, legacy <- done
Cache == INSTANCE FrameCache
    WITH entries <- subject, bytes <- setting, serial <- stage, limits <- done, MaxUses <- MaxFrameUses
Frames == INSTANCE FileSeries
    WITH disk <- subject, reader <- setting, answer <- stage, calls <- done
Drawn == INSTANCE RenderScene
    WITH scene <- subject, device <- setting, frame <- stage, answer <- done
Column == INSTANCE Columns
    WITH column <- subject, ghost <- setting, kind <- stage, answer <- done, Names <- ColumnNames
Window == INSTANCE WindowSurface
    WITH window <- subject, system <- setting, frame <- stage, seen <- done,
         Kinds <- WindowKinds, Buttons <- WindowButtons, Renderers <- WindowRenderers

heapVars == <<queue, sequence, waiting, popped>>
deviceVars == <<frame, inFrame, resources, pinned, options, shown, evicted>>
mapVars == <<slots, count, tombstones, dictionary>>
arenaVars == <<blocks, current, usedBytes, reservedBytes, live>>
bitVars == <<words, capacity, bitCount, bits>>
gridVars == <<mesh, points, cellsTime, clock, adjacency, links, owners>>
containerVars == <<mapVars, arenaVars, bitVars>>
meshVars == <<type, gridVars>>
spatialVars == <<hierarchy, cells, moved, recelled, index>>
seriesVars == <<sort, times>>
structuredVars == <<style, extent, kept, output>>
regionVars == <<figure, lasso>>
filterVars == <<subject, setting, stage, done>>
searchedVars == <<spatialVars, seriesVars, structuredVars, regionVars>>
vars == <<component, heapVars, deviceVars, containerVars, meshVars, searchedVars, filterVars>>

\* Where it does not move, a component that begins in many states begins in one of them.
Init ==
    /\ component \in {"heap", "device", "cache", "map", "arena", "bits", "types", "grid",
                      "spatial", "series", "structured", "region", "cut", "surface",
                      "expression", "field", "display", "format", "frames", "scene", "window",
                      "column"}
    /\ Heap!Init
    /\ component # "device" => options = [budget |-> 0, retention |-> 0]
    /\ Device!Init
    /\ Map!Init /\ Memory!Init /\ Flags!Init
    /\ Types!Init /\ Grid!Init
    /\ component # "spatial" => hierarchy = "bvh"
    /\ Spatial!Init
    /\ component # "series" => sort = "steps"
    /\ Series!Init
    /\ component # "structured" => style = "image"
    /\ Structured!Init
    /\ component # "region" => figure = <<<<0, 0>>, <<0, 1>>, <<1, 0>>>> /\ lasso = figure
    /\ Region!Init
    /\ \/ component = "cut" /\ Cut!Init /\ done = None
       \/ component = "surface" /\ Surface!Init
       \/ component = "expression" /\ Expression!Init
       \/ component = "field" /\ Field!Init /\ stage = None /\ done = None
       \/ component = "display" /\ Display!Init
       \/ component = "format" /\ Format!Init
       \/ component = "frames" /\ Frames!Init
       \/ component = "cache" /\ Cache!Init
       \/ component = "scene" /\ Drawn!Init
       \/ component = "window" /\ Window!Init
       \/ component = "column" /\ Column!Init
       \/ component \notin {"cut", "surface", "expression", "field", "display", "format", "frames", "cache", "scene", "window",
                         "column"}
          /\ subject = None /\ setting = None /\ stage = None /\ done = None

Next ==
    /\ UNCHANGED component
    /\ \/ /\ component = "heap" /\ Heap!Next
          /\ UNCHANGED <<deviceVars, containerVars, meshVars, searchedVars, filterVars>>
       \/ /\ component = "device" /\ Device!Next
          /\ UNCHANGED <<heapVars, containerVars, meshVars, searchedVars, filterVars>>
       \/ /\ component = "map" /\ Map!Next
          /\ UNCHANGED <<heapVars, deviceVars, arenaVars, bitVars, meshVars, searchedVars, filterVars>>
       \/ /\ component = "arena" /\ Memory!Next
          /\ UNCHANGED <<heapVars, deviceVars, mapVars, bitVars, meshVars, searchedVars, filterVars>>
       \/ /\ component = "bits" /\ Flags!Next
          /\ UNCHANGED <<heapVars, deviceVars, mapVars, arenaVars, meshVars, searchedVars, filterVars>>
       \/ /\ component = "types" /\ Types!Next
          /\ UNCHANGED <<heapVars, deviceVars, containerVars, gridVars, searchedVars, filterVars>>
       \/ /\ component = "grid" /\ Grid!Next
          /\ UNCHANGED <<heapVars, deviceVars, containerVars, type, searchedVars, filterVars>>
       \/ /\ component = "spatial" /\ Spatial!Next
          /\ UNCHANGED <<heapVars, deviceVars, containerVars, meshVars, seriesVars, structuredVars, regionVars, filterVars>>
       \/ /\ component = "series" /\ Series!Next
          /\ UNCHANGED <<heapVars, deviceVars, containerVars, meshVars, spatialVars, structuredVars, regionVars, filterVars>>
       \/ /\ component = "structured" /\ Structured!Next
          /\ UNCHANGED <<heapVars, deviceVars, containerVars, meshVars, spatialVars, seriesVars, regionVars, filterVars>>
       \/ /\ component = "region" /\ Region!Next
          /\ UNCHANGED <<heapVars, deviceVars, containerVars, meshVars,
                        spatialVars, seriesVars, structuredVars, filterVars>>
       \/ /\ component = "cut" /\ Cut!Next
          /\ UNCHANGED <<heapVars, deviceVars, containerVars, meshVars, searchedVars, done>>
       \/ /\ component = "surface" /\ Surface!Next
          /\ UNCHANGED <<heapVars, deviceVars, containerVars, meshVars, searchedVars>>
       \/ /\ component = "expression" /\ Expression!Next
          /\ UNCHANGED <<heapVars, deviceVars, containerVars, meshVars, searchedVars>>
       \/ /\ component = "display" /\ Display!Next
          /\ UNCHANGED <<heapVars, deviceVars, containerVars, meshVars, searchedVars>>
       \/ /\ component = "format" /\ Format!Next
          /\ UNCHANGED <<heapVars, deviceVars, containerVars, meshVars, searchedVars>>
       \/ /\ component = "cache" /\ Cache!Next
          /\ UNCHANGED <<heapVars, deviceVars, containerVars, meshVars, searchedVars>>
       \/ /\ component = "frames" /\ Frames!Next
          /\ UNCHANGED <<heapVars, deviceVars, containerVars, meshVars, searchedVars>>
       \/ /\ component = "column" /\ Column!Next
          /\ UNCHANGED <<heapVars, deviceVars, containerVars, meshVars, searchedVars>>
       \/ /\ component = "window" /\ Window!Next
          /\ UNCHANGED <<heapVars, deviceVars, containerVars, meshVars, searchedVars>>
       \/ /\ component = "scene" /\ Drawn!Next
          /\ UNCHANGED <<heapVars, deviceVars, containerVars, meshVars, searchedVars>>
       \/ /\ component = "field" /\ Field!Next
          /\ UNCHANGED <<heapVars, deviceVars, containerVars, meshVars, searchedVars, stage, done>>

Spec == Init /\ [][Next]_vars

-----------------------------------------------------------------------------
\* What is said of a component is evaluated where it moves: the others stay as they are.

\* fviz_heap_pop takes the entry scheduled first and loses no other; what leaves a cache
\* of frames or pieces was used before what stays.
TakesFirst == Heap!PopsFirst /\ [][component = "frames" => Frames!LeastRecentGo]_vars

\* What is kept is within its budget, or in use: a frame ends with resources over the
\* budget only if all are shown or pinned, and those are never evicted; a cache of loaded
\* frames is within its limits, and those used last stay.
BudgetsKept ==
    /\ Device!BudgetKept
    /\ [](component = "cache" => Cache!WithinLimits)
    /\ [][component = "cache" => Cache!LeastRecentGo]_vars

\* The heap has room; a hash map finds what was set last, for ever and for every key; an arena's
\* allocations lie apart; a bit array that grows shows no old bits.
ContentsKept ==
    /\ component = "heap" => Heap!TypeOK /\ Heap!HeapOrdered
    /\ component = "map" => Map!IsDictionary
    /\ component = "arena" => Memory!Disjoint
    /\ component = "bits" => Flags!RevealsZeroes

\* The tables of a cell type agree on its edges, its faces and the nodes of its shape
\* functions; fviz_cell_links_build and fviz_cell_adjacency_build find every cell of a
\* point and every neighbour of a cell, once.
TablesExact ==
    /\ component = "types" =>
        Types!EdgesBoundFaces /\ Types!NodesFitEdges /\ Types!FacesOriented
    /\ component = "grid" => Grid!GridTables

\* A piece filter's tables from an earlier request never show in a later one.
CachesTransparent == component = "grid" => Grid!CachesTransparent

\* The pieces share out cells and points, ghosts have their exact level, together the
\* pieces show what the grid shows, and the surface of its solids is closed.
PiecesPartition ==
    component = "grid" =>
        Grid!PiecesPartition /\ Grid!PiecesShowWhole /\ Grid!SurfaceClosed

\* What is looked up is what looking at everything finds: cells along a ray, near and around
\* a point, in a hierarchy that is refitted and rebuilt; the step, sample or frame of a
\* time; the points, cells, samples, extracts and surface of a structured grid; the
\* triangles, edges, points and actors in a rectangle or lasso.
AnswersExact ==
    /\ component = "spatial" => Spatial!AnswersOfAll /\ Spatial!LeavesPartition
    /\ component = "series" => Series!SearchesExact
    /\ component = "structured" => Structured!GridsExact
    /\ component = "region" => Region!RegionExact

\* A solid is cut exactly: both capped halves are closed and share out its surface, the
\* contour is what the clip cuts, slices of neighbours meet, and so do the quadrilaterals
\* of an isosurface.  The triangles of a surface keep its outline, regions are what is
\* connected, a cleaned surface has the triangles of the merged points, data stay with
\* their cells, and smoothing and decimation see each triangle once.  An expression means
\* what it says, for every component, and what was used last is cached; fields that are
\* gathered, averaged, fitted and measured do not show the order or the chunks.  A
\* result is shown on its mesh as its samples say, whatever their order, their numbers and
\* their position, the displaced mesh moves by what is shown, and neither is stale.
FiltersExact ==
    /\ component = "cut" => Cut!CutsExact
    /\ component = "surface" => Surface!SurfacesExact
    /\ component = "expression" => Expression!ExpressionsExact
    /\ component = "field" => Field!FieldsExact
    /\ component = "display" => Display!ResultsExact

\* What is read back from a file is what was written; a series of files is written whole
\* or not at all, and answers for every time and part as its files stand, whatever is
\* cached.  The range, the narrow ids and the names of a column of data are those of its
\* values, whatever was converted, cached or moved.
FilesExact ==
    /\ component = "format" => Format!FilesExact
    /\ component = "frames" => Frames!SeriesExact
    /\ component = "column" => Column!ColumnsExact

\* A frame draws every visible actor once, the nearest in front and in the state it asks
\* for, leaves nothing of that state to the next, and what is picked is what is seen.  A
\* frame that was asked for comes, whatever the window is shown, closed, moved to another
\* host or interrupted by, and the window, its context and its capture agree.
FramesExact ==
    /\ component = "scene" => Drawn!SceneExact
    /\ component = "window" => Window!SurfaceExact
=============================================================================
