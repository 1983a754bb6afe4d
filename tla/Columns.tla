------------------------------ MODULE Columns ------------------------------
(***************************************************************************)
(* The columns that data is made of: an array of tuples with its cached    *)
(* range (FVizDataArray.c), a list of cells that widens its ids when it    *)
(* has to (FVizCellArray.c), and a set of named arrays with an index over  *)
(* the hashes of their names (FVizAttributeSet.c).  Numbers are counted in *)
(* halves, so that conversions have something to cut off; a magnitude is   *)
(* given by its square.                                                    *)
(***************************************************************************)
EXTENDS Integers, Sequences, SequencesExt, FiniteSetsExt, TLC

CONSTANTS
    Tuples,        \* what arrays begin with: sequences of tuples
    Numbers, NaN, Infinite,
    MaxModified,   \* changes of an array
    Batches,       \* what is appended to cells: [type, size, ids]
    MaxNarrowId, MaxListed,
    Names, HashOf(_), IndexThreshold, HeldArrays, Roles,
    None

VARIABLES
    kind,   \* array, cells or attributes
    column, \* the array, the list or the set itself
    ghost,  \* what it should hold
    answer  \* of the last call

columnVars == <<kind, column, ghost, answer>>

-----------------------------------------------------------------------------
(* An array of tuples *)

Lowest(type) == CASE type = "int" -> -4 [] type = "unsigned" -> 0
Highest(type) == CASE type = "int" -> 2 [] type = "unsigned" -> 6

Clamped(x, low, high) == IF x < low THEN low ELSE IF x > high THEN high ELSE x
TowardsZero(x) == IF x >= 0 THEN x - (x % 2) ELSE x + ((-x) % 2)

\* fviz_data_array_write_numeric
WriteNumeric(type, input) ==
    IF input = NaN THEN 0
    ELSE IF type = "double" THEN input
    ELSE TowardsZero(IF input = Infinite THEN Highest(type) ELSE Clamped(input, Lowest(type), Highest(type)))

NewArray(type, storage, tuples) ==
    [type |-> type, storage |-> storage, tuples |-> tuples, time |-> 1, cache |-> None]
Mutable(a) == a.storage # "constant"
External(a) == a.storage # "own"

Modified(a, tuples) == [a EXCEPT !.tuples = tuples, !.time = @ + 1]

\* fviz_data_array_set_component: a value that it has is not written; NaN is never one it has.
SetComponent(a, i, c, value) ==
    IF ~Mutable(a) \/ (a.tuples[i][c] = value /\ value # NaN) THEN a
    ELSE Modified(a, [a.tuples EXCEPT ![i][c] = WriteNumeric(a.type, value)])
SetTuples(a, first, tuples) ==
    LET written == [i \in DOMAIN a.tuples |->
                        IF i \in first .. first + Len(tuples) - 1 THEN tuples[i - first + 1] ELSE a.tuples[i]]
    IN  IF ~Mutable(a) \/ first + Len(tuples) - 1 > Len(a.tuples) \/ written = a.tuples THEN a ELSE Modified(a, written)
Appended(a, tuples) == IF External(a) THEN a ELSE Modified(a, a.tuples \o tuples)
Resized(a, n, zero) ==
    IF External(a) \/ n = Len(a.tuples) THEN a
    ELSE Modified(a, [i \in 1 .. n |-> IF i <= Len(a.tuples) THEN a.tuples[i] ELSE zero])
\* A write through the raw pointer, which is marked.
RawWritten(a, i, value) ==
    IF ~Mutable(a) THEN a ELSE Modified(a, [a.tuples EXCEPT ![i][1] = value])

\* The value of a tuple for a component, or its magnitude.
ValueOf(tuple, component) ==
    IF component > 0 THEN tuple[component]
    ELSE IF \E c \in DOMAIN tuple : tuple[c] = Infinite THEN Infinite
    ELSE IF \E c \in DOMAIN tuple : tuple[c] = NaN THEN NaN
    ELSE FoldSeq(LAMBDA v, sum : v * v + sum, 0, tuple)

Finite(v) == v \notin {NaN, Infinite}
\* NaN compares with nothing: it stays when it came first and is passed over later.
Scan(values) ==
    FoldLeft(LAMBDA r, v : IF r = <<>> THEN <<v, v>>
                           ELSE IF v = NaN \/ r[1] = NaN THEN r
                           ELSE <<IF v < r[1] THEN v ELSE r[1], IF v > r[2] THEN v ELSE r[2]>>,
             <<>>, values)

\* fviz_data_array_get_range
RangeOf(a, component, ignore) ==
    IF a.cache # None /\ a.cache.time = a.time /\ a.cache.component = component /\ a.cache.ignore = ignore
    THEN a.cache.range
    ELSE Scan(SelectSeq([i \in DOMAIN a.tuples |-> ValueOf(a.tuples[i], component)], LAMBDA v : ~ignore \/ Finite(v)))
RangeCached(a, component, ignore) ==
    LET range == RangeOf(a, component, ignore)
    IN  IF range = <<>> THEN a
        ELSE [a EXCEPT !.cache = [time |-> a.time, component |-> component, ignore |-> ignore, range |-> range]]

\* fviz_data_array_deep_copy, of whatever storage, has its own.
CopyOfArray(a) == [NewArray(a.type, "own", a.tuples) EXCEPT !.time = a.time + 1]

\* fviz_data_array_iter_begin and _next: the indices that a loop over them visits.
Iterated(a) ==
    LET valid(at) == at < Len(a.tuples)
        from[at \in 0 .. Len(a.tuples)] == IF valid(at) THEN <<at + 1>> \o from[at + 1] ELSE <<>>
    IN  from[0]

ArrayCall ==
    /\ kind = "array" /\ column.time <= MaxModified
    /\ UNCHANGED kind
    /\ \/ \E i \in DOMAIN column.tuples, c \in DOMAIN ghost.zero, value \in Numbers :
            /\ column' = SetComponent(column, i, c, value)
            /\ answer' = IF Mutable(column) THEN <<i, c, value>> ELSE <<>>
            /\ ghost' = ghost
       \/ \E i \in DOMAIN column.tuples, tuples \in Tuples :
            /\ column.type = "double" \* whose values they are
            /\ tuples # <<>> /\ Len(tuples[1]) = Len(ghost.zero)
            /\ column' = SetTuples(column, i, tuples)
            /\ answer' = <<>> /\ ghost' = ghost
       \/ \E n \in 0 .. 2 : column' = Resized(column, n, ghost.zero) /\ answer' = <<>> /\ ghost' = ghost
       \/ /\ column' = Appended(column, <<ghost.zero>>) /\ Len(column'.tuples) <= 2
          /\ answer' = <<>> /\ ghost' = ghost
       \/ \E i \in DOMAIN column.tuples :
            column' = RawWritten(column, i, 2) /\ answer' = <<>> /\ ghost' = ghost
       \/ \E c \in 0 .. Len(ghost.zero), ignore \in BOOLEAN :
            column' = RangeCached(column, c, ignore) /\ answer' = <<>> /\ ghost' = ghost
       \* The last reference goes when the copy takes the place of its source.
       \/ /\ column' = CopyOfArray(column) /\ answer' = <<>>
          /\ ghost' = [ghost EXCEPT !.released = @ + (IF External(column) THEN 1 ELSE 0)]

\* What it answers is the range of what it holds now, whatever has been asked before.
RangeFresh ==
    \A component \in 0 .. Len(ghost.zero), ignore \in BOOLEAN :
        LET values == {ValueOf(column.tuples[i], component) : i \in DOMAIN column.tuples}
            kept == {v \in values : ignore => Finite(v)}
        IN  NaN \notin kept =>
                RangeOf(column, component, ignore) = (IF kept = {} THEN <<>> ELSE <<Min(kept), Max(kept)>>)

\* A component holds the nearest value towards zero that its type has.
WrittenNearest ==
    answer # <<>> =>
        LET stored == column.tuples[answer[1]][answer[2]]
            input == answer[3]
            has == IF column.type = "int" THEN {-4, -2, 0, 2} ELSE {0, 2, 4, 6}
            below == {r \in has : 0 <= r /\ r <= input}
            above == {r \in has : input <= r /\ r <= 0}
        IN  IF input = NaN THEN stored = 0
            ELSE IF column.type = "double" THEN stored = input
            ELSE stored = IF input >= 0 THEN Max(below) ELSE Min(above \cup {0})

\* External storage keeps its shape, constant storage its values, and is given back once.
StorageKept ==
    /\ External(column) => Len(column.tuples) = Len(ghost.first) /\ ghost.released = 0
    /\ column.storage = "constant" => column.tuples = ghost.first /\ column.time = 1
    /\ ghost.released <= 1
    /\ Iterated(column) = [i \in DOMAIN column.tuples |-> i]

-----------------------------------------------------------------------------
(* A list of cells *)

NewCells(wide) == [types |-> <<>>, offsets |-> <<0>>, ids |-> <<>>, wide |-> wide]

Accepts(type, size) ==
    CASE type = "vertex" -> size = 1
      [] type = "line" -> size = 2
      [] type = "polygon" -> size >= 3

Narrow(ids) == \A i \in DOMAIN ids : ids[i] <= MaxNarrowId

\* fviz_cell_array_convert_id_storage
Converted(x, wide) == IF wide \/ Narrow(x.ids) THEN [x EXCEPT !.wide = wide] ELSE x

\* Ids and metadata of a batch of cells of one size; the room has been made before.
AppendedCells(x, batch) ==
    LET n == Len(batch.ids) \div batch.size
    IN  [x EXCEPT !.types = @ \o [i \in 1 .. n |-> batch.type],
                  !.offsets = @ \o [i \in 1 .. n |-> Len(x.ids) + i * batch.size],
                  !.ids = @ \o batch.ids]

\* fviz_cell_array_append_fixed, with ids of 32 bits; without room nothing has changed.
AppendFixed(x, batch, room) ==
    IF ~Accepts(batch.type, batch.size) \/ ~room THEN x ELSE AppendedCells(x, batch)
\* fviz_cell_array_append_fixed_ids: the list has been widened before the room is made.
Widened(x, ids) == IF Narrow(ids) THEN x ELSE Converted(x, TRUE)
AppendIds(x, batch, room) ==
    IF ~Accepts(batch.type, batch.size) THEN x
    ELSE IF ~room THEN Widened(x, batch.ids) ELSE AppendedCells(Widened(x, batch.ids), batch)

\* fviz_cell_array_deep_copy begins with a new list, which has an offset.
CopyOfCells(x) ==
    [NewCells(x.wide) EXCEPT !.types = x.types, !.offsets = <<>> \o x.offsets, !.ids = x.ids]

\* fviz_cell_array_cell_view
CellAt(x, i) == [type |-> x.types[i], ids |-> SubSeq(x.ids, x.offsets[i] + 1, x.offsets[i + 1])]

\* fviz_cell_array_validate
Valid(x, points) ==
    /\ Len(x.offsets) = Len(x.types) + 1
    /\ \A i \in DOMAIN x.types :
        /\ x.offsets[i] <= x.offsets[i + 1] /\ x.offsets[i + 1] <= Len(x.ids)
        /\ Accepts(x.types[i], x.offsets[i + 1] - x.offsets[i])
        /\ \A j \in x.offsets[i] + 1 .. x.offsets[i + 1] : x.ids[j] < points

Listed(batch) ==
    [i \in 1 .. Len(batch.ids) \div batch.size |->
        [type |-> batch.type, ids |-> SubSeq(batch.ids, (i - 1) * batch.size + 1, i * batch.size)]]

CellsCall ==
    /\ kind = "cells" /\ UNCHANGED <<kind, answer>>
    /\ \/ \E batch \in Batches, room \in BOOLEAN, native \in BOOLEAN :
            /\ native \/ Narrow(batch.ids)
            /\ column' = IF native THEN AppendIds(column, batch, room) ELSE AppendFixed(column, batch, room)
            /\ ghost' = IF room /\ Accepts(batch.type, batch.size) THEN ghost \o Listed(batch) ELSE ghost
            /\ Len(ghost') <= MaxListed
       \/ \E wide \in BOOLEAN : column' = Converted(column, wide) /\ ghost' = ghost
       \/ column' = NewCells(column.wide) /\ ghost' = <<>>
       \/ column' = CopyOfCells(column) /\ ghost' = ghost

\* The cells are those that were appended, in storage that holds all of their ids, and are
\* valid over as many points as they refer to and no fewer.
CellsExact ==
    /\ [i \in DOMAIN column.types |-> CellAt(column, i)] = ghost
    /\ ~column.wide => Narrow(column.ids)
    /\ \A points \in 0 .. Max(ToSet(column.ids) \cup {0}) + 1 :
        Valid(column, points) <=> (\A i \in DOMAIN column.ids : column.ids[i] < points)

-----------------------------------------------------------------------------
(* Named arrays *)

NewSet == [entries |-> <<>>, index |-> None, active |-> [r \in Roles |-> None]]

Hashed(entries) ==
    FoldLeftDomain(LAMBDA index, i : (HashOf(entries[i].name) :> i) @@ index, <<>>, entries)

\* fviz_attribute_set_find: the index, and whatever it does not know is looked for.
Scanned(x, name) == SelectInSeq(x.entries, LAMBDA e : e.name = name)
Find(x, name) ==
    LET at == IF x.index # None /\ HashOf(name) \in DOMAIN x.index THEN x.index[HashOf(name)] ELSE 0
    IN  IF at \in DOMAIN x.entries /\ x.entries[at].name = name THEN at ELSE Scanned(x, name)

\* fviz_attribute_set_ensure_name_index and _refresh_name_index, which may do without.
Indexed(x, required) ==
    IF x.index # None \/ required < IndexThreshold THEN x ELSE [x EXCEPT !.index = Hashed(x.entries)]
Refreshed(x, room) ==
    IF x.index = None THEN x ELSE [x EXCEPT !.index = IF room THEN Hashed(x.entries) ELSE None]

\* fviz_attribute_set_add; what fails may have left the index.
AddArray(x, name, array, fails) ==
    LET at == Find(x, name)
        grown == [Indexed(x, Len(x.entries) + 1) EXCEPT !.entries = Append(@, [name |-> name, array |-> array])]
    IN  IF at # 0 THEN IF fails # "none" THEN x ELSE [x EXCEPT !.entries[at].array = array]
        ELSE IF fails = "index" THEN x
        ELSE IF fails = "entry" THEN Indexed(x, Len(x.entries) + 1)
        ELSE IF grown.index = None THEN grown
        ELSE [grown EXCEPT !.index = (HashOf(name) :> Len(grown.entries)) @@ @]

\* fviz_attribute_set_remove
RemoveArray(x, name, room) ==
    LET at == Find(x, name)
    IN  IF at = 0 THEN x
        ELSE Refreshed([x EXCEPT !.entries = RemoveAt(@, at),
                                 !.active = [r \in Roles |-> IF @[r] = name THEN None ELSE @[r]]], room)
SetActiveName(x, role, name) ==
    IF name # None /\ Find(x, name) = 0 THEN x ELSE [x EXCEPT !.active[role] = name]

\* fviz_attribute_set_copy_impl
CopyOfSet(x) ==
    LET filled == FoldLeft(LAMBDA y, e : AddArray(y, e.name, e.array, "none"), NewSet, x.entries)
    IN  FoldSet(LAMBDA r, y : IF x.active[r] = None THEN y ELSE SetActiveName(y, r, x.active[r]), filled, Roles)

\* The observers that the arrays of the set have: an array is observed by every entry.
Told(x, array) == Len(SelectSeq(x.entries, LAMBDA e : e.array = array))

AttributesCall ==
    /\ kind = "attributes" /\ UNCHANGED kind
    /\ \/ \E name \in Names, array \in HeldArrays, fails \in {"none", "index", "entry"} :
            /\ column' = AddArray(column, name, array, fails)
            /\ ghost' = IF fails = "none" THEN (name :> array) @@ ghost ELSE ghost
       \/ \E name \in Names, room \in BOOLEAN :
            /\ column' = RemoveArray(column, name, room)
            /\ ghost' = [n \in DOMAIN ghost \ {name} |-> ghost[n]]
       \/ \E role \in Roles, name \in Names \cup {None} :
            column' = SetActiveName(column, role, name) /\ ghost' = ghost
       \/ column' = [column EXCEPT !.entries = <<>>, !.active = NewSet.active, !.index = IF @ = None THEN None ELSE <<>>]
          /\ ghost' = <<>>
       \/ column' = CopyOfSet(column) /\ ghost' = ghost
    /\ answer' = [name \in Names |-> Find(column', name)]

\* Every name finds the array it was given last, with or without an index and with hashes
\* that collide; an active name is one that the set has; and a copy is as good.
SetExact ==
    /\ \A x \in {column, CopyOfSet(column)} :
        /\ \A name \in Names :
            IF name \in DOMAIN ghost
            THEN Find(x, name) # 0 /\ x.entries[Find(x, name)] = [name |-> name, array |-> ghost[name]]
            ELSE Find(x, name) = 0
        /\ Len(x.entries) = Cardinality(DOMAIN ghost)
        /\ \A r \in Roles : x.active[r] # None => x.active[r] \in DOMAIN ghost
        /\ x.active = column.active
    /\ \A array \in HeldArrays : Told(column, array) = Cardinality({n \in DOMAIN ghost : ghost[n] = array})

-----------------------------------------------------------------------------

Init ==
    \/ \E type \in {"int", "unsigned", "double"}, storage \in {"own", "mutable", "constant"}, tuples \in Tuples :
        /\ type # "double" => (\A i \in DOMAIN tuples : ToSet(tuples[i]) \subseteq {0, 2})
        /\ storage = "own" => tuples = <<>>
        /\ kind = "array" /\ answer = <<>>
        /\ column = NewArray(type, storage, tuples)
        /\ ghost = [first |-> tuples, released |-> 0, zero |-> IF tuples = <<>> THEN <<0>> ELSE [c \in DOMAIN tuples[1] |-> 0]]
    \/ kind = "cells" /\ answer = <<>> /\ ghost = <<>> /\ \E wide \in BOOLEAN : column = NewCells(wide)
    \/ kind = "attributes" /\ answer = [n \in Names |-> 0] /\ ghost = <<>> /\ column = NewSet

Next == ArrayCall \/ CellsCall \/ AttributesCall
Spec == Init /\ [][Next]_columnVars

ColumnsExact ==
    /\ kind = "array" => RangeFresh /\ WrittenNearest /\ StorageKept
    /\ kind = "cells" => CellsExact
    /\ kind = "attributes" => SetExact
=============================================================================
