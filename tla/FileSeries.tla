----------------------------- MODULE FileSeries -----------------------------
(***************************************************************************)
(* Files over time and in pieces: the collection of FVizPVD.c, its reader  *)
(* FVizPVDReader.c, which shows the data of a time whole or by pieces, the *)
(* reader of a manifest, FVizPVTUReader.c, and FVizPVTUWriter.c.  Both     *)
(* readers keep what they read, the least recently used goes first.  Data  *)
(* are the pieces that they consist of, a piece is where it was read.      *)
(* Files are written before a reader opens them.                           *)
(***************************************************************************)
EXTENDS Integers, Sequences, SequencesExt, FiniteSetsExt

CONSTANTS
    Disk,        \* pieces [size] that are there from the beginning, by name
    Manifest,    \* the name of a manifest to be written
    Collections, \* entries [time, part, file] in the order of their addition, by name
    DataSets,    \* pieces [grid, size, arrays, active, levels, ghosts] to be written
    FrameRequests, \* [time, piece, pieces, ghosts]
    CacheLimits, \* [capacity, budget]; a budget of no bytes is none
    MaxCalls,
    None

VARIABLES
    disk,   \* pieces [size, write] and manifests [sources, ghosts, arrays, active] by name
    reader, \* [name, collection, cache, piece]; piece is the reader of an entry's manifest
    answer, \* to the last request
    calls

seriesVars == <<disk, reader, answer, calls>>

NewCache(limits) == [entries |-> <<>>, bytes |-> 0, clock |-> 0, limits |-> limits]

Init ==
    /\ disk = [f \in DOMAIN Disk |-> [size |-> Disk[f], write |-> 0]]
    /\ \E limits \in CacheLimits :
        reader = [name |-> None, collection |-> None, cache |-> NewCache(limits), piece |-> None]
    /\ answer = None
    /\ calls = 0

-----------------------------------------------------------------------------
(* A manifest and its pieces *)

PieceName(i) == <<Manifest[1], i>>
IsManifest(file) == file = Manifest

\* An array of ghosts is known by another name outside.
IsGhosts(a) == a.name = "FVizGhostType" /\ a.type = "UInt8"
ExportName(a) == IF IsGhosts(a) THEN "vtkGhostType" ELSE a.name
Exported(arrays) ==
    LET kept == SelectSeq(arrays, LAMBDA a :
            ~(a.name = "vtkGhostType" /\ \E b \in Range(arrays) : IsGhosts(b)))
    IN  [k \in DOMAIN kept |-> ExportName(kept[k])]
ExportedActive(piece) ==
    IF piece.active = None THEN None
    ELSE ExportName(CHOOSE a \in Range(piece.arrays) : a.name = piece.active)

\* The deepest layer of ghosts; a piece without layers has one if it has ghosts.
GhostLevel(piece) ==
    LET deepest == Max(Range(piece.levels) \cup {0})
    IN  IF deepest # 0 THEN deepest ELSE IF TRUE \in Range(piece.ghosts) THEN 1 ELSE 0

Fits(set, i) ==
    /\ set[i].grid
    /\ set[i].arrays = set[1].arrays /\ set[i].active = set[1].active

\* A piece that is no grid like the first is found when those before it are written; the
\* write of any piece, or of the manifest behind them, may fail.  Then all that was
\* written is removed, with what had its name.
RemovesManifestOnly(i) == {Manifest}
Removed(i) == {Manifest} \cup {PieceName(k) : k \in 1 .. i}
Write(set, failing) ==
    LET n == Len(set)
        bad == {i \in 1 .. n : ~Fits(set, i)}
        stop == Min(bad \cup {failing})
        last == IF stop \in bad THEN stop - 1 ELSE IF stop <= n THEN stop ELSE n
        pieces == [f \in {PieceName(i) : i \in 1 .. last} |-> [size |-> set[f[2]].size, write |-> calls + 1]]
        written == [f \in DOMAIN disk \cup DOMAIN pieces |-> IF f \in DOMAIN pieces THEN pieces[f] ELSE disk[f]]
    IN  /\ reader.name = None
        /\ IF stop <= n + 1
           THEN disk' = [f \in DOMAIN written \ Removed(last) |-> written[f]]
           ELSE disk' = [f \in DOMAIN written \cup {Manifest} |->
                    IF f = Manifest
                    THEN [sources |-> [i \in 1 .. n |-> PieceName(i)],
                          ghosts |-> Max({GhostLevel(set[i]) : i \in 1 .. n}),
                          arrays |-> Exported(set[1].arrays), active |-> ExportedActive(set[1])]
                    ELSE written[f]]
        /\ answer' = [write |-> calls + 1, done |-> stop > n + 1, set |-> set]
        /\ UNCHANGED reader

-----------------------------------------------------------------------------
(* What is kept *)

ByteSize(data) == FoldLeft(LAMBDA sum, leaf : sum + leaf.size, 0, data)

Find(cache, k) == {i \in DOMAIN cache.entries : cache.entries[i].key = k}
LeastRecent(entries) == CHOOSE i \in DOMAIN entries : \A j \in DOMAIN entries : entries[i].stamp <= entries[j].stamp

Removing(cache, i) ==
    [cache EXCEPT !.bytes = @ - cache.entries[i].bytes, !.entries = RemoveAt(@, i)]

\* One after another goes, until there is room for what comes.
RECURSIVE WithRoom(_, _)
WithRoom(cache, size) ==
    LET limits == cache.limits
        full == \/ Len(cache.entries) >= limits.capacity
                \/ limits.budget # 0 /\ cache.bytes + size > limits.budget
    IN  IF cache.entries = <<>> \/ ~full THEN cache
        ELSE WithRoom(Removing(cache, LeastRecent(cache.entries)), size)

Kept(cache, k, data) ==
    LET size == ByteSize(data)
    IN  IF cache.limits.capacity = 0 \/ (cache.limits.budget # 0 /\ size > cache.limits.budget)
        THEN cache
        ELSE LET room == WithRoom(cache, size)
             IN  [room EXCEPT
                    !.entries = Append(@, [key |-> k, data |-> data, bytes |-> size, stamp |-> room.clock + 1]),
                    !.bytes = @ + size, !.clock = @ + 1]

\* What a lookup, and a read where it finds nothing, make of a cache.
Through(cache, k, data) ==
    IF cache.limits.capacity # 0 /\ Find(cache, k) # {}
    THEN LET i == Min(Find(cache, k))
         IN  [cache |-> [cache EXCEPT !.entries[i].stamp = cache.clock + 1, !.clock = @ + 1],
              data |-> cache.entries[i].data]
    ELSE [cache |-> IF data = None THEN cache ELSE Kept(cache, k, data), data |-> data]

Emptied(cache) == [cache EXCEPT !.entries = <<>>, !.bytes = 0, !.clock = 0]

RECURSIVE Shrunk(_)
Shrunk(cache) ==
    IF cache.limits.budget # 0 /\ cache.bytes > cache.limits.budget
    THEN Shrunk(Removing(cache, LeastRecent(cache.entries))) ELSE cache
WithBudget(cache, budget) ==
    IF cache.limits.budget = budget THEN cache ELSE Shrunk([cache EXCEPT !.limits.budget = budget])

-----------------------------------------------------------------------------
(* A collection *)

RECURSIVE LowerBound(_, _, _, _)
LowerBound(entries, first, count, t) ==
    IF count = 0 THEN first
    ELSE LET step == count \div 2
         IN  IF entries[first + step].time < t
             THEN LowerBound(entries, first + step + 1, count - step - 1, t)
             ELSE LowerBound(entries, first, step, t)

Group(entries, first) == {i \in first .. Len(entries) : entries[i].time = entries[first].time}

\* Entries of a time stay in the order of their addition.
Add(entries, entry) ==
    LET first == LowerBound(entries, 1, Len(entries), entry.time)
    IN  InsertAt(entries, IF first > Len(entries) THEN first
                          ELSE first + Cardinality({i \in Group(entries, first) : entries[i].time = entry.time}), entry)

\* The first entry of the time that is nearest, of the earlier one in the middle.
FindNearest(entries, t) ==
    LET i == LowerBound(entries, 1, Len(entries), t)
        near == IF i = 1 THEN 1
                ELSE IF i > Len(entries) THEN Len(entries)
                ELSE IF t - entries[i - 1].time <= entries[i].time - t THEN i - 1 ELSE i
    IN  Min({k \in DOMAIN entries : entries[k].time = entries[near].time})

UniqueTimes(entries) ==
    LET first == SelectSeq([i \in DOMAIN entries |-> i], LAMBDA i : i = 1 \/ entries[i - 1].time # entries[i].time)
    IN  [k \in DOMAIN first |-> entries[first[k]].time]

-----------------------------------------------------------------------------
(* Reading *)

\* The pieces of a file one after another; none, if one of them is not there.
Joined(data) == IF None \in Range(data) THEN None ELSE FlattenSeq(data)
Leaf(f) == IF f \in DOMAIN disk THEN <<[file |-> f, size |-> disk[f].size, write |-> disk[f].write]>> ELSE None
LoadEntry(f) ==
    IF ~IsManifest(f) THEN Leaf(f)
    ELSE IF f \notin DOMAIN disk THEN None
    ELSE Joined([i \in DOMAIN disk[f].sources |-> Leaf(disk[f].sources[i])])

\* A file without entries is no collection.
ReadCollection(entries) == IF entries = <<>> THEN None ELSE FoldLeft(Add, <<>>, entries)

EnsureCollection(r) ==
    IF r.collection # None \/ ReadCollection(Collections[r.name]) = None THEN r
    ELSE [r EXCEPT !.collection = ReadCollection(Collections[r.name]),
                   !.cache = Emptied(@), !.piece = None]
Opened(r) == r.name # None /\ EnsureCollection(r).collection # None

\* A manifest's reader is kept for one entry; its default limit is of four pieces.
EnsurePieceReader(r, first) ==
    IF r.piece # None /\ r.piece.entry = first THEN r
    ELSE IF ~IsManifest(r.collection[first].file) \/ r.collection[first].file \notin DOMAIN disk THEN r
    ELSE [r EXCEPT !.piece = [entry |-> first, manifest |-> disk[r.collection[first].file],
                              cache |-> NewCache([capacity |-> 4, budget |-> r.cache.limits.budget])]]
HasPieceReader(r, first) == r.piece # None /\ r.piece.entry = first

\* The entry with a part's number; where none or several have it, the one in its place.
SelectedEntry(entries, first, piece) ==
    LET same == {i \in Group(entries, first) : entries[i].part = piece}
    IN  IF Cardinality(same) = 1 THEN Min(same) ELSE first + piece

Loaded(r, data) == [reader |-> r, data |-> data]
LoadTimePiece(r, first, request) ==
    IF Cardinality(Group(r.collection, first)) > 1
    THEN Loaded(r, IF request.pieces # Cardinality(Group(r.collection, first)) \/ request.ghosts # 0 THEN None
                   ELSE LoadEntry(r.collection[SelectedEntry(r.collection, first, request.piece)].file))
    ELSE LET opened == EnsurePieceReader(r, first)
         IN  IF ~HasPieceReader(opened, first) THEN Loaded(r, None)
             ELSE LET manifest == opened.piece.manifest
                  IN  IF request.pieces # Len(manifest.sources) \/ request.ghosts > manifest.ghosts
                      THEN Loaded(opened, None)
                      ELSE LET through == Through(opened.piece.cache, request.piece, Leaf(manifest.sources[request.piece + 1]))
                           IN  Loaded([opened EXCEPT !.piece.cache = through.cache], through.data)

LoadTimeGroup(r, first) ==
    LET group == SetToSortSeq(Group(r.collection, first), <)
        data == Joined([k \in DOMAIN group |-> LoadEntry(r.collection[group[k]].file)])
        through == Through(r.cache, first, data)
    IN  Loaded([r EXCEPT !.cache = through.cache], through.data)

\* One piece is the whole.
Update(request) ==
    /\ Opened(reader)
    /\ LET r == EnsureCollection(reader)
           first == FindNearest(r.collection, request.time)
           loaded == IF request.pieces > 1 THEN LoadTimePiece(r, first, request) ELSE LoadTimeGroup(r, first)
       IN  /\ reader' = loaded.reader
           /\ answer' = [request |-> request, data |-> loaded.data, selected |-> r.collection[first].time]
    /\ UNCHANGED disk

\* fviz_pvd_reader_prefetch_piece_time takes one of one piece for a piece.
Prefetch(request, whole) ==
    /\ Opened(reader)
    /\ LET r == EnsureCollection(reader)
           first == FindNearest(r.collection, request.time)
       IN  reader' = (IF whole THEN LoadTimeGroup(r, first) ELSE LoadTimePiece(r, first, request)).reader
    /\ UNCHANGED <<disk, answer>>

PieceCountOf(r, first) ==
    IF Cardinality(Group(r.collection, first)) > 1 THEN Cardinality(Group(r.collection, first))
    ELSE IF ~IsManifest(r.collection[first].file) THEN 1
    ELSE IF HasPieceReader(EnsurePieceReader(r, first), first)
    THEN Len(EnsurePieceReader(r, first).piece.manifest.sources) ELSE 0
PieceCount(t) ==
    /\ Opened(reader)
    /\ LET r == EnsureCollection(reader)
           first == FindNearest(r.collection, t)
       IN  reader' = IF Cardinality(Group(r.collection, first)) = 1 THEN EnsurePieceReader(r, first) ELSE r
    /\ UNCHANGED <<disk, answer>>

-----------------------------------------------------------------------------
ClearCache(r) ==
    [r EXCEPT !.cache = Emptied(@),
              !.piece = IF @ = None THEN None ELSE [@ EXCEPT !.cache = Emptied(@)]]

SetFileName(name) ==
    /\ reader' = IF reader.name = name THEN reader
                 ELSE [ClearCache(reader) EXCEPT !.name = name, !.collection = None, !.piece = None]
    /\ answer' = None
    /\ UNCHANGED disk

SetCacheCapacity(capacity) ==
    /\ reader' = IF reader.cache.limits.capacity = capacity THEN reader
                 ELSE [ClearCache(reader) EXCEPT !.cache.limits.capacity = capacity]
    /\ UNCHANGED <<disk, answer>>

SetCacheByteCapacity(budget) ==
    /\ reader' = [reader EXCEPT !.cache = WithBudget(@, budget),
                                !.piece = IF @ = None THEN None ELSE [@ EXCEPT !.cache = WithBudget(@, budget)]]
    /\ UNCHANGED <<disk, answer>>

Next ==
    /\ calls < MaxCalls /\ calls' = calls + 1
    /\ \/ \E set \in DataSets : \E failing \in 1 .. Len(set) + 2 : Write(set, failing)
       \/ \E name \in DOMAIN Collections : SetFileName(name)
       \/ \E request \in FrameRequests :
            \/ Update(request)
            \/ \E whole \in BOOLEAN : Prefetch(request, whole)
            \/ PieceCount(request.time)
       \/ \E limits \in CacheLimits : SetCacheCapacity(limits.capacity) \/ SetCacheByteCapacity(limits.budget)
       \/ reader' = ClearCache(reader) /\ UNCHANGED <<disk, answer>>

-----------------------------------------------------------------------------
\* A manifest on disk names pieces that are there and were written with it, the deepest
\* layer of their ghosts, every array once and an active one among them; a write that
\* failed left nothing of itself (FVizPVTUWriter.c:389).
WritesWhole ==
    /\ Manifest \in DOMAIN disk =>
        LET m == disk[Manifest]
        IN  /\ \A i \in DOMAIN m.sources : m.sources[i] \in DOMAIN disk
            /\ Cardinality({disk[m.sources[i]].write : i \in DOMAIN m.sources}) = 1
            /\ IsInjective(m.arrays) /\ m.active \in Range(m.arrays) \cup {None}
    /\ (answer # None /\ "write" \in DOMAIN answer) =>
        IF answer.done
        THEN LET layers(p) == UNION {Range(p.levels), {1 : i \in {k \in DOMAIN p.ghosts : p.ghosts[k]}}, {0}}
             IN  disk[Manifest].ghosts = Max(UNION {layers(p) : p \in Range(answer.set)})
        ELSE \A f \in DOMAIN disk : f # Manifest /\ disk[f].write # answer.write

\* A reader shows the entries of the nearest time as they were added, whatever it keeps.
AnswersOfDisk ==
    (answer # None /\ "request" \in DOMAIN answer) =>
        LET added == Collections[reader.name]
            times == {e.time : e \in Range(added)}
            distance(t) == Max({t - answer.request.time, answer.request.time - t})
            time == Min({t \in times : \A u \in times : distance(t) <= distance(u)})
            group == SelectSeq(added, LAMBDA e : e.time = time)
            whole == Joined([k \in DOMAIN group |-> LoadEntry(group[k].file)])
        IN  /\ answer.selected = time
            /\ answer.request.pieces = 1 => answer.data = whole
            /\ (answer.data # None /\ whole # None) => Range(answer.data) \subseteq Range(whole)
            /\ reader.collection # None => UniqueTimes(reader.collection) = SetToSortSeq(times, <)

\* As many pieces as there are for a time share out what it shows, each piece once.
PiecesShareOut ==
    reader.collection # None =>
        \A first \in DOMAIN reader.collection :
            LET n == PieceCountOf(reader, first)
                piece(p) == LoadTimePiece(reader, first, [piece |-> p, pieces |-> n, ghosts |-> 0]).data
                all == Joined([p \in 1 .. n |-> piece(p - 1)])
            IN  /\ (first = Min({k \in DOMAIN reader.collection : reader.collection[k].time = reader.collection[first].time})
                    /\ n > 1 /\ LoadTimeGroup(reader, first).data # None)
                => all # None /\ Len(all) = Len(LoadTimeGroup(reader, first).data)
                   /\ Range(all) = Range(LoadTimeGroup(reader, first).data)

\* Caches keep what is on disk, once, and not more than their limits; their sum is exact.
KeepsWithin(cache) ==
    LET entries == cache.entries
    IN  /\ Len(entries) <= cache.limits.capacity
        /\ cache.limits.budget # 0 => cache.bytes <= cache.limits.budget
        /\ cache.bytes = FoldLeft(LAMBDA sum, e : sum + ByteSize(e.data), 0, entries)
        /\ \A i, j \in DOMAIN entries : i # j => entries[i].key # entries[j].key /\ entries[i].stamp # entries[j].stamp
        /\ \A i \in DOMAIN entries : entries[i].stamp <= cache.clock
CachesOfDisk ==
    /\ KeepsWithin(reader.cache)
    /\ \A e \in Range(reader.cache.entries) :
        e.data = Joined([k \in 1 .. Cardinality(Group(reader.collection, e.key)) |->
                           LoadEntry(reader.collection[e.key + k - 1].file)])
    /\ reader.piece # None =>
        /\ KeepsWithin(reader.piece.cache)
        /\ reader.piece.manifest = disk[reader.collection[reader.piece.entry].file]
        /\ \A e \in Range(reader.piece.cache.entries) : e.data = Leaf(reader.piece.manifest.sources[e.key + 1])

\* What leaves a cache was used before whatever stays.
GoesBefore(old, new) ==
    \A e \in Range(old.entries), f \in Range(new.entries) :
        (\A g \in Range(new.entries) : g.key # e.key) => e.stamp < f.stamp
LeastRecentGo ==
    /\ GoesBefore(reader.cache, reader'.cache)
    /\ (reader.piece # None /\ reader'.piece # None /\ reader.piece.entry = reader'.piece.entry)
         => GoesBefore(reader.piece.cache, reader'.piece.cache)
LeastRecentGoFirst == [][LeastRecentGo]_seriesVars

SeriesExact == WritesWhole /\ AnswersOfDisk /\ PiecesShareOut /\ CachesOfDisk
=============================================================================
