---------------------------- MODULE FileFormats ----------------------------
(***************************************************************************)
(* Datasets written to files and read again: FVizVTUWriter.c and           *)
(* FVizVTUReader.c (grids), FVizVTPWriter.c and FVizVTPReader.c (surfaces),*)
(* and FVizVTKLegacyReader.c, whose files come from elsewhere.  A file is a*)
(* sequence of items (the opening and the closing of a section, an array   *)
(* between its tags) and of raw blocks after them; one that was cut off has*)
(* lost the last of either.  Points are numbered from one; a tuple is a    *)
(* sequence.                                                               *)
(***************************************************************************)
EXTENDS Integers, Sequences, SequencesExt, FiniteSets, FiniteSetsExt

CONSTANTS
    Grids,          \* [points, cells, data, roles]: cells of [type, ids], data and roles by section
    Surfaces,       \* the same, the cells by category
    SectionArrays,  \* that the reader of grids takes from a section
    LegacySections, \* [keyword, ...]
    MaxRounds,      \* of writing and reading
    Refused,        \* what is read of a file that is not understood
    None

VARIABLES
    original,
    file,           \* [type, mode, items, blocks, cut], None before the first is written
    copy,           \* what was read last
    legacy          \* of the reader of legacy files

formatVars == <<original, file, copy, legacy>>

SectionsOfData == {"PointData", "CellData", "FieldData"}
Modes == {"ascii", "appended"}

\* fviz_vtu_cell_type names no cell of one dimension, no strip and no polygon.
Readable(type) == type \notin {"vertex", "line", "poly_line", "strip", "polygon"}

-----------------------------------------------------------------------------
\* FVizVTUWriter.c.  Ghosts have a name and flags of their own in a file: duplicate is 1,
\* hidden is 2 for a point and 32 for a cell; 8 is a refined cell.

Native(a) == a.name = "FVizGhostType" /\ a.type = "UInt8" /\ a.width = 1
HasNative(arrays) == \E k \in DOMAIN arrays : Native(arrays[k])

Flag(v, bit) == (v \div bit) % 2
ExportedGhost(v, section) == Flag(v, 1) + (IF section = "CellData" THEN 32 ELSE 2) * Flag(v, 2)
ReadGhost(v, section) ==
    Flag(v, 1) + 2 * (IF section # "CellData" THEN Flag(v, 2)
                      ELSE IF Flag(v, 8) + Flag(v, 32) > 0 THEN 1 ELSE 0)

ExportedArray(a, section) ==
    IF Native(a) /\ section # "FieldData"
    THEN [a EXCEPT !.name = "vtkGhostType",
                   !.tuples = [t \in DOMAIN @ |-> <<ExportedGhost(@[t][1], section)>>]]
    ELSE a

\* fviz_vtu_should_skip_export_attribute: the one that was read gives way to the native one.
Exported(arrays, section) ==
    LET kept == SelectSeq(arrays, LAMBDA a : ~(a.name = "vtkGhostType" /\ HasNative(arrays)))
    IN  [k \in DOMAIN kept |-> ExportedArray(kept[k], section)]

ExportedName(name, arrays, section) ==
    IF section # "FieldData" /\ \E k \in DOMAIN arrays : arrays[k].name = name /\ Native(arrays[k])
    THEN "vtkGhostType" ELSE name

BytesOf(a) ==
    Len(a.tuples) * a.width
        * (CASE a.type = "UInt8" -> 1 [] a.type = "Float32" -> 4 [] OTHER -> 8)

ArrayOf(name, type, width, tuples) == [name |-> name, type |-> type, width |-> width, tuples |-> tuples]
Column(s) == [k \in DOMAIN s |-> <<s[k]>>]
Total(cells, k) == FoldLeft(LAMBDA n, c : n + Len(c.ids), 0, SubSeq(cells, 1, k))

PointsArray(points) == ArrayOf("Points", "Float32", 3, points)
Connectivity(cells) == ArrayOf("connectivity", "UInt64", 1, Column(FlattenSeq([k \in DOMAIN cells |-> cells[k].ids])))
CellEnds(cells) == ArrayOf("offsets", "UInt64", 1, Column([k \in DOMAIN cells |-> Total(cells, k)]))
TypesArray(cells) == ArrayOf("types", "UInt8", 1, Column([k \in DOMAIN cells |-> cells[k].type]))

Open(section, roles) == [kind |-> "open", section |-> section, roles |-> roles]
Close(section) == [kind |-> "close", section |-> section]
\* An array between its tags, or at an offset in the raw data.
Item(a, offset) == [kind |-> "array", array |-> a, offset |-> offset]

\* The arrays in the order of their tags, and of their blocks.
AttributesOf(g) ==
    FlattenSeq([s \in 1 .. 3 |->
        Exported(g.data[<<"PointData", "CellData", "FieldData">>[s]], <<"PointData", "CellData", "FieldData">>[s])])
Blocks(g) ==
    AttributesOf(g) \o <<PointsArray(g.points), Connectivity(g.cells), CellEnds(g.cells), TypesArray(g.cells)>>

\* fviz_vtu_write_appended_tag: what the blocks of the arrays before it take, and their headers.
HeaderBytes == 8
Start(arrays, k) == FoldLeft(LAMBDA n, a : n + HeaderBytes + BytesOf(a), 0, SubSeq(arrays, 1, k - 1))

ExportedRoles(g, section) ==
    [r \in DOMAIN g.roles[section] |-> ExportedName(g.roles[section][r], g.data[section], section)]

\* What a section holds begins after the arrays before it.
Tags(g, section, arrays, before, mode) ==
    <<Open(section, IF section \in SectionsOfData THEN ExportedRoles(g, section) ELSE <<>>)>>
        \o [k \in DOMAIN arrays |->
               Item(arrays[k], IF mode = "ascii" THEN None ELSE Start(before \o arrays, Len(before) + k))]
        \o <<Close(section)>>

\* fviz_vtu_write.
WrittenGrid(g, mode) ==
    LET part == [s \in SectionsOfData |-> Exported(g.data[s], s)]
        pointsPart == <<PointsArray(g.points)>>
        cellsPart == <<Connectivity(g.cells), CellEnds(g.cells), TypesArray(g.cells)>>
        attributes == part["PointData"] \o part["CellData"] \o part["FieldData"]
    IN  [type |-> "grid", mode |-> mode, cut |-> FALSE,
         counts |-> [points |-> Len(g.points), cells |-> Len(g.cells)],
         items |-> Tags(g, "PointData", part["PointData"], <<>>, mode)
                   \o Tags(g, "CellData", part["CellData"], part["PointData"], mode)
                   \o Tags(g, "FieldData", part["FieldData"], part["PointData"] \o part["CellData"], mode)
                   \o Tags(g, "Points", pointsPart, attributes, mode)
                   \o Tags(g, "Cells", cellsPart, attributes \o pointsPart, mode),
         blocks |-> IF mode = "ascii" THEN <<>> ELSE Blocks(g)]

-----------------------------------------------------------------------------
\* FVizVTUReader.c.

\* The sections that are closed somewhere around item i; the last of them counts.
SectionOf(items, i) ==
    LET around(s) == \E a, b \in DOMAIN items : /\ a < i /\ i < b
                                                /\ items[a].kind = "open" /\ items[a].section = s
                                                /\ items[b] = Close(s)
    IN  CASE around("Points") -> "Points"
          [] around("FieldData") -> "FieldData"
          [] around("CellData") -> "CellData"
          [] around("PointData") -> "PointData"
          [] OTHER -> None

\* The tuples of an array; those of a block that is not there are none.
Decoded(f, item) ==
    IF item.offset = None THEN item.array
    ELSE LET at == SelectInSeq([k \in DOMAIN f.blocks |-> k], LAMBDA k : Start(f.blocks, k) = item.offset)
         IN  [item.array EXCEPT !.tuples = IF at = 0 THEN <<>> ELSE f.blocks[at].tuples]

Missing(f, item) == item.offset # None /\ \A k \in DOMAIN f.blocks : Start(f.blocks, k) # item.offset

\* The reader's sorting of the arrays; those for which there is no room go on to the next.
Place(f, i, sorted) ==
    LET a == f.items[i].array
        section == SectionOf(f.items, i)
        to == CASE a.name = "Points" -> "Points"
                [] a.name \in {"connectivity", "offsets", "types"} -> "Cells"
                [] section = "CellData" /\ Len(sorted["CellData"]) < SectionArrays -> "CellData"
                [] section = "FieldData" /\ Len(sorted["FieldData"]) < SectionArrays -> "FieldData"
                [] Len(sorted["PointData"]) < SectionArrays -> "PointData"
                [] OTHER -> "CellData"
    IN  IF Len(sorted[to]) >= SectionArrays /\ to = "CellData" THEN sorted
        ELSE [sorted EXCEPT ![to] = Append(@, f.items[i])]

Sorted(f) ==
    FoldLeft(LAMBDA sorted, i : Place(f, i, sorted),
             [s \in SectionsOfData \cup {"Points", "Cells"} |-> <<>>],
             SelectSeq([i \in DOMAIN f.items |-> i], LAMBDA i : f.items[i].kind = "array"))

\* fviz_attribute_set_add: a name is there once.
Added(arrays, a) ==
    LET at == SelectInSeq(arrays, LAMBDA b : b.name = a.name)
    IN  IF at = 0 THEN Append(arrays, a) ELSE [arrays EXCEPT ![at] = a]

Named(arrays, name) == SelectInSeq(arrays, LAMBDA a : a.name = name)

\* fviz_vtu_normalize_vtk_ghost_array.
Normalized(arrays, section) ==
    LET at == Named(arrays, "vtkGhostType") IN
    IF Named(arrays, "FVizGhostType") # 0 \/ at = 0 THEN arrays
    ELSE IF arrays[at].type # "UInt8" \/ arrays[at].width # 1 THEN arrays
    ELSE Append(arrays, ArrayOf("FVizGhostType", "UInt8", 1,
             [t \in DOMAIN arrays[at].tuples |-> <<ReadGhost(arrays[at].tuples[t][1], section)>>]))

\* fviz_vtu_apply_active_roles: those whose array is there.
AppliedRoles(items, section, arrays) ==
    LET at == SelectInSeq(items, LAMBDA i : i.kind = "open" /\ i.section = section) IN
    IF at = 0 THEN <<None, None>>
    ELSE [r \in DOMAIN items[at].roles |->
             IF Named(arrays, items[at].roles[r]) # 0 THEN items[at].roles[r] ELSE None]

Firsts(tuples) == [k \in DOMAIN tuples |-> tuples[k][1]]

\* fviz_vtu_parse_cells: the records between the ends, Refused if they do not fit.
CellsBetween(conn, ends, types, points) ==
    LET begin(k) == IF k = 1 THEN 0 ELSE ends[k - 1] IN
    IF Len(ends) # Len(types) THEN Refused
    ELSE IF \E k \in DOMAIN ends : \/ ~Readable(types[k]) \/ ends[k] < begin(k) \/ ends[k] > Len(conn)
                                  \/ \E i \in begin(k) + 1 .. ends[k] : conn[i] \notin 1 .. points
    THEN Refused
    ELSE [k \in DOMAIN ends |-> [type |-> types[k], ids |-> SubSeq(conn, begin(k) + 1, ends[k])]]

LastNamed(items, name) == SelectLastInSeq(items, LAMBDA i : i.array.name = name)

ParsedCells(f, sorted) ==
    LET at == [n \in {"connectivity", "offsets", "types"} |-> LastNamed(sorted["Cells"], n)]
        tuples(n) == Firsts(Decoded(f, sorted["Cells"][at[n]]).tuples)
    IN  IF \E n \in DOMAIN at : at[n] = 0 THEN Refused
        ELSE IF Len(tuples("offsets")) # f.counts.cells THEN Refused
        ELSE CellsBetween(tuples("connectivity"), tuples("offsets"), tuples("types"), f.counts.points)

\* fviz_vtu_parse_data_arrays, by association; fields have tuples of their own number.
Parsed(f, items, section) ==
    Normalized(FoldLeft(LAMBDA arrays, i : Added(arrays, Decoded(f, i)), <<>>, items), section)

WrongArray(f, item, section) ==
    \/ Missing(f, item)
    \/ section = "PointData" /\ Len(Decoded(f, item).tuples) # f.counts.points
    \/ section = "CellData" /\ Len(Decoded(f, item).tuples) # f.counts.cells

ReadSorted(f, sorted, cells) ==
    IF cells = Refused \/ \E s \in SectionsOfData : \E k \in DOMAIN sorted[s] : WrongArray(f, sorted[s][k], s)
    THEN Refused
    ELSE LET data == [s \in SectionsOfData |->
                        IF s = "FieldData" THEN FoldLeft(LAMBDA arrays, i : Added(arrays, Decoded(f, i)), <<>>, sorted[s])
                        ELSE Parsed(f, sorted[s], s)]
         IN  [points |-> Decoded(f, Last(sorted["Points"])).tuples, cells |-> cells, data |-> data,
              roles |-> [s \in SectionsOfData |-> AppliedRoles(f.items, s, data[s])]]

\* fviz_vtu_read_with_options.
ReadGrid(f) ==
    LET sorted == Sorted(f) IN
    IF sorted["Points"] = <<>> THEN Refused
    ELSE IF f.counts.points = 0 \/ Len(Decoded(f, Last(sorted["Points"])).tuples) # f.counts.points THEN Refused
    ELSE ReadSorted(f, sorted, ParsedCells(f, sorted))

-----------------------------------------------------------------------------
\* FVizVTPWriter.c and FVizVTPReader.c: arrays between their tags, and cells by category in
\* the order of a file, which is not the one they are numbered in.

Categories == <<"Verts", "Lines", "Strips", "Polys">>
Numbered == <<"Verts", "Lines", "Polys", "Strips">>

Inline(section, roles, arrays) ==
    <<Open(section, roles)>> \o [k \in DOMAIN arrays |-> Item(arrays[k], None)] \o <<Close(section)>>

\* fviz_vtp_write_cell_section.
CellItems(section, cells) == Inline(section, <<>>, <<Connectivity(cells), CellEnds(cells)>>)

\* fviz_vtp_write.
WrittenSurface(g) ==
    [type |-> "surface", mode |-> "ascii", cut |-> FALSE, blocks |-> <<>>,
     counts |-> [points |-> Len(g.points), cells |-> [c \in DOMAIN g.cells |-> Len(g.cells[c])]],
     items |-> Inline("FieldData", g.roles["FieldData"], g.data["FieldData"])
               \o Inline("PointData", g.roles["PointData"], g.data["PointData"])
               \o Inline("CellData", g.roles["CellData"], g.data["CellData"])
               \o Inline("Points", <<>>, <<PointsArray(g.points)>>)
               \o FlattenSeq([s \in 1 .. 4 |-> CellItems(Categories[s], g.cells[Categories[s]])])
               \o <<Close("PolyData")>>]

\* fviz_vtp_find_section and fviz_vtp_collect_arrays.
Within(items, section) ==
    LET a == SelectInSeq(items, LAMBDA i : i.kind = "open" /\ i.section = section)
        b == SelectInSeq(items, LAMBDA i : i = Close(section))
    IN  [k \in 1 .. (b - a - 1) |-> items[a + k].array]

\* fviz_vtp_parse_cell_section: nothing is said of the connectivity of no cells.
SurfaceCells(f, section) ==
    LET arrays == Within(f.items, section)
        conn == Firsts(arrays[Named(arrays, "connectivity")].tuples)
        ends == Firsts(arrays[Named(arrays, "offsets")].tuples)
        begin(k) == IF k = 1 THEN 0 ELSE ends[k - 1]
        count == f.counts.cells[section]
    IN  IF count = 0 THEN <<>>
        ELSE IF Len(ends) < count THEN Refused
        ELSE IF \E k \in 1 .. count : ends[k] <= begin(k) \/ ends[k] > Len(conn) THEN Refused
        ELSE IF ends[count] # Len(conn) \/ \E i \in DOMAIN conn : conn[i] \notin 1 .. f.counts.points THEN Refused
        ELSE [k \in 1 .. count |-> [ids |-> SubSeq(conn, begin(k) + 1, ends[k])]]

\* fviz_vtp_parse_attribute_arrays, and the arrays of fviz_vtp_parse_field_arrays, which are of any length.
SurfaceArrays(f, section, expected) ==
    LET arrays == Within(f.items, section) IN
    FoldLeft(Added, <<>>,
             [k \in DOMAIN arrays |->
                 IF expected = None THEN arrays[k]
                 ELSE [arrays[k] EXCEPT !.tuples = SubSeq(@, 1, expected)]])

ShortArray(f, section, expected) ==
    \E k \in DOMAIN Within(f.items, section) : Len(Within(f.items, section)[k].tuples) < expected

\* The roles of a section, unless one of them is of no array.
SurfaceRoles(f, section) == f.items[SelectInSeq(f.items, LAMBDA i : i.kind = "open" /\ i.section = section)].roles
StrayRole(f, section) ==
    \E r \in DOMAIN SurfaceRoles(f, section) :
        SurfaceRoles(f, section)[r] # None /\ Named(Within(f.items, section), SurfaceRoles(f, section)[r]) = 0

\* fviz_vtp_read_with_options; the roles of fields are not read.
ReadSurface(f) ==
    IF ~\E i \in DOMAIN f.items : f.items[i] = Close("PolyData") THEN Refused
    ELSE LET points == Within(f.items, "Points")[1].tuples
             cells == [c \in ToSet(Categories) |-> SurfaceCells(f, c)]
             count == FoldLeft(LAMBDA n, c : n + f.counts.cells[c], 0, Numbered)
         IN  IF \/ Len(points) # f.counts.points
                \/ \E c \in DOMAIN cells : cells[c] = Refused
                \/ ShortArray(f, "PointData", f.counts.points) \/ ShortArray(f, "CellData", count)
                \/ StrayRole(f, "PointData") \/ StrayRole(f, "CellData")
             THEN Refused
             ELSE [points |-> points, cells |-> cells,
                   data |-> [s \in SectionsOfData |->
                       SurfaceArrays(f, s, CASE s = "PointData" -> f.counts.points [] s = "CellData" -> count [] OTHER -> None)],
                   roles |-> [s \in SectionsOfData |->
                       IF s = "FieldData" THEN <<None, None>> ELSE SurfaceRoles(f, s)]]

-----------------------------------------------------------------------------
\* Writing, losing the end, and reading.

Init ==
    /\ original \in Grids \cup Surfaces \cup {None}
    /\ file = None /\ copy = None
    /\ legacy = IF original = None
                THEN [points |-> 0, pieces |-> 0, drafts |-> None, types |-> None, active |-> None,
                      tuples |-> 0, arrays |-> {}, used |-> {}, result |-> None]
                ELSE [round |-> 0]

\* The dataset itself, or what was read of it.
Save(mode) ==
    /\ original # None /\ legacy.round < MaxRounds /\ copy # Refused
    /\ original \in Surfaces => mode = "ascii"
    /\ LET g == IF copy = None THEN original ELSE copy IN
       file' = IF original \in Surfaces THEN WrittenSurface(g) ELSE WrittenGrid(g, mode)
    /\ legacy' = [round |-> legacy.round + 1]
    /\ UNCHANGED <<original, copy>>

\* The end of a file never came to the disk: its blocks go first.
Cut(n) ==
    /\ file # None /\ ~file.cut /\ n < Len(file.items) + Len(file.blocks)
    /\ file' = [file EXCEPT !.cut = TRUE, !.items = SubSeq(@, 1, Min({n, Len(@)})),
                            !.blocks = SubSeq(@, 1, Max({0, n - Len(file.items)}))]
    /\ UNCHANGED <<original, copy, legacy>>

Load ==
    /\ file # None
    /\ copy' = IF file.type = "grid" THEN ReadGrid(file) ELSE ReadSurface(file)
    /\ UNCHANGED <<original, file, legacy>>

-----------------------------------------------------------------------------
\* fviz_vtk_legacy_read: the sections come in any order, each when its turn is.

Reading == original = None /\ legacy.result = None
Section(keyword, s) == Reading /\ s \in LegacySections \ legacy.used /\ s.keyword = keyword
Becomes(s, l) ==
    /\ legacy' = [l EXCEPT !.used = @ \cup {s}]
    /\ UNCHANGED <<original, file, copy>>
Fails(s) == Becomes(s, [legacy EXCEPT !.result = Refused])

ReadPoints(s) ==
    /\ Section("POINTS", s)
    /\ Becomes(s, [legacy EXCEPT !.pieces = @ + s.count, !.points = s.count])

\* A second section of cells is refused, one of types counts.
ReadCells(s) ==
    /\ Section("CELLS", s)
    /\ IF legacy.drafts # None THEN Fails(s) ELSE Becomes(s, [legacy EXCEPT !.drafts = s.records])

ReadTypes(s) ==
    /\ Section("CELL_TYPES", s)
    /\ IF \E k \in DOMAIN s.types : ~Readable(s.types[k]) THEN Fails(s)
       ELSE Becomes(s, [legacy EXCEPT !.types = s.types])

\* POINT_DATA and CELL_DATA: the arrays after them are of points, of cells.
LegacyCells == IF legacy.drafts = None THEN 0 ELSE Len(legacy.drafts)
ReadAssociation(s) ==
    /\ Section("DATA", s)
    /\ IF s.count # (IF s.of = "points" THEN legacy.points ELSE LegacyCells) THEN Fails(s)
       ELSE Becomes(s, [legacy EXCEPT !.active = s.of, !.tuples = s.count])

\* SCALARS, VECTORS, NORMALS, TENSORS and others.
ReadArray(s) ==
    /\ Section("ARRAY", s)
    /\ IF legacy.active = None THEN Fails(s)
       ELSE Becomes(s, [legacy EXCEPT !.arrays =
                {a \in @ : <<a.of, a.name>> # <<legacy.active, s.name>>}
                    \cup {[of |-> legacy.active, name |-> s.name, tuples |-> legacy.tuples]}])

\* FIELD: its arrays say how many tuples they have; before any association they are fields.
ReadField(s) ==
    /\ Section("FIELD", s)
    /\ LET of == IF legacy.active = None THEN "fields" ELSE legacy.active IN
       Becomes(s, [legacy EXCEPT !.arrays =
           {a \in @ : <<a.of, a.name>> # <<of, s.name>>} \cup {[of |-> of, name |-> s.name, tuples |-> s.count]}])

\* The cells are added and the grid is validated.
LegacyGrid(l) ==
    [points |-> l.pieces, arrays |-> l.arrays,
     cells |-> [k \in DOMAIN l.drafts |-> [type |-> l.types[k], ids |-> l.drafts[k]]]]

Valid(g) ==
    /\ \A k \in DOMAIN g.cells : ToSet(g.cells[k].ids) \subseteq 1 .. g.points
    /\ \A a \in g.arrays : /\ a.of = "points" => a.tuples = g.points
                           /\ a.of = "cells" => a.tuples = Len(g.cells)

Finish ==
    /\ Reading
    /\ LET refused == legacy.drafts = None \/ legacy.types = None
           unequal == ~refused /\ Len(legacy.types) # Len(legacy.drafts)
       IN  legacy' = [legacy EXCEPT !.result =
               IF refused \/ unequal THEN Refused
               ELSE IF ~Valid(LegacyGrid(legacy)) THEN Refused ELSE LegacyGrid(legacy)]
    /\ UNCHANGED <<original, file, copy>>

Next ==
    \/ \E mode \in Modes : Save(mode)
    \/ file # None /\ \E n \in 0 .. Len(file.items) + Len(file.blocks) : Cut(n)
    \/ Load
    \/ \E s \in LegacySections : ReadPoints(s) \/ ReadCells(s) \/ ReadTypes(s) \/ ReadAssociation(s)
                                 \/ ReadArray(s) \/ ReadField(s)
    \/ Finish

Spec == Init /\ [][Next]_formatVars

-----------------------------------------------------------------------------
\* What a dataset is when it has been through a file: the ghosts also have their name and
\* flags of files, and flags of files have theirs of the program.

Ghosts(name, arrays, from, Flags(_)) ==
    ArrayOf(name, "UInt8", 1, [t \in DOMAIN arrays[from].tuples |-> <<Flags(arrays[from].tuples[t][1])>>])

\* The second time the flags of files are those of the program only.
ArraysShown(arrays, section, isGrid, again) ==
    LET native == Named(arrays, "FVizGhostType")
        vtk == Named(arrays, "vtkGhostType")
        others == {a \in ToSet(arrays) : a.name # "vtkGhostType"}
        exported(v) == ExportedGhost(v, section)
        read(v) == ReadGhost(v, section)
        exportedAgain(v) == ExportedGhost(ReadGhost(v, section), section)
    IN  IF ~isGrid \/ section = "FieldData" \/ (native = 0 /\ vtk = 0) THEN ToSet(arrays)
        ELSE IF native # 0 THEN others \cup {Ghosts("vtkGhostType", arrays, native, exported)}
        ELSE others \cup {Ghosts("FVizGhostType", arrays, vtk, read)}
                    \cup {IF again THEN Ghosts("vtkGhostType", arrays, vtk, exportedAgain) ELSE arrays[vtk]}

RolesShown(g, section, isGrid) ==
    [r \in DOMAIN g.roles[section] |->
        IF g.roles[section][r] = "FVizGhostType" /\ isGrid /\ section # "FieldData" THEN "vtkGhostType"
        ELSE IF ~isGrid /\ section = "FieldData" THEN None
        ELSE g.roles[section][r]]

Shows(g, o, isGrid, again) ==
    /\ g.points = o.points /\ g.cells = o.cells
    /\ \A s \in SectionsOfData : /\ ToSet(g.data[s]) = ArraysShown(o.data[s], s, isGrid, again)
                                 /\ IsInjective([k \in DOMAIN g.data[s] |-> g.data[s][k].name])
                                 /\ g.roles[s] = RolesShown(o, s, isGrid)

\* What was written is read as it was, however often and in whichever mode; a file that was
\* cut off is refused or shows all of it; only cells the reader does not know, and no
\* points at all, are refused of a whole file.
RoundTripExact ==
    original # None =>
        /\ copy \notin {None, Refused} => \E again \in BOOLEAN : Shows(copy, original, original \in Grids, again)
        /\ copy = Refused =>
            \/ file.cut
            \/ original \in Grids /\ original.points = <<>>
            \/ original \in Grids /\ \E k \in DOMAIN original.cells : ~Readable(original.cells[k].type)

\* Whatever the order of its sections, what is read of a legacy file is a grid: every cell
\* has its type and points, every array as many tuples as there are points or cells.
LegacyValid ==
    original = None /\ legacy.result \notin {None, Refused} =>
        LET g == legacy.result
            read == {s \in legacy.used : s.keyword = "CELLS"}
        IN  /\ Valid(g)
            /\ \A s \in read : Len(g.cells) = Len(s.records) /\ \A k \in DOMAIN g.cells : g.cells[k].ids = s.records[k]
            /\ \A a \in g.arrays : a.of # "fields" =>
                   \E s \in legacy.used : s.keyword = "DATA" /\ s.of = a.of

FilesExact == RoundTripExact /\ LegacyValid
=============================================================================
