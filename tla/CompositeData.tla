--------------------------- MODULE CompositeData ---------------------------
(***************************************************************************)
(* Objects that hold others and learn of their changes by observing them:  *)
(* FVizMultiBlockDataSet.c, FVizPartitionedDataSet.c,                      *)
(* FVizTemporalDataSet.c and the steps, frames, fields and histories of    *)
(* FVizResultDatabase.c.  A time is abstracted to whether it moved since a *)
(* consumer last looked.                                                   *)
(***************************************************************************)
EXTENDS Integers, Sequences, SequencesExt, FiniteSetsExt, Functions, FiniteSetTheorems, TLAPS

CONSTANTS
    Kind,       \* of every object
    Value,      \* of every frame
    MixedNesting, \* whether partitioned and temporal sets may hold containers
    Families,   \* sets of objects, of which the program has one
    MaxEntries, MaxDepth, None

VARIABLES
    contents,  \* sequence of objects, or None, of every container
    observers, \* how often a container observes an object
    flagged,   \* objects whose time moved since the consumer looked
    stale,     \* those in which something changed since
    held       \* objects that the program holds

compositeVars == <<contents, observers, flagged, stale, held>>

CompositeGiven == \A family \in Families : None \notin family

Objects == DOMAIN observers
Containers == DOMAIN contents
MultiBlocks == {c \in Containers : Kind[c] = "multi"}
DataObjects == {o \in Objects : Kind[o] \in {"data", "multi", "partitioned", "temporal"}}

\* As many steps as containers nest reach everything.
EntriesIn(all, set) == UNION {ToSet(all[c]) \ {None} : c \in set \cap Containers}
Reached(all, set) == FoldSet(LAMBDA c, seen : seen \cup EntriesIn(all, seen), set, 1 .. MaxDepth)
Entries(c) == EntriesIn(contents, {c})
Within(o) == Reached(contents, {o})
Alive == Reached(contents, held)

\* Whatever holds it, through its entries as they are and as their observers tell.
Upward(up, o) ==
    FoldSet(LAMBDA c, seen : seen \cup UNION {up[x] : x \in seen}, {o}, 1 .. MaxDepth)
Holding == [o \in Objects |-> {h \in Containers : o \in Entries(h)}]
Observing == [o \in Objects |-> {c \in Containers : observers[o][c] > 0}]
HoldersOf(o) == Upward(Holding, o)
Notified(o) == Upward(Observing, o)

ContainersOf(family) == {o \in family : Kind[o] \notin {"data", "field", "series"}}
Init ==
    /\ held \in Families
    /\ contents = [c \in ContainersOf(held) |-> <<>>]
    /\ observers = [o \in held |-> [c \in ContainersOf(held) |-> 0]]
    /\ flagged = {} /\ stale = {}

-----------------------------------------------------------------------------
\* What nobody holds any more lets go of its entries and of their observers.
Settle(all, observing, alive) ==
    /\ contents' = [c \in Containers |-> IF c \in alive THEN all[c] ELSE <<>>]
    /\ observers' = [o \in Objects |-> [c \in Containers |-> IF c \in alive THEN observing[o][c] ELSE 0]]

\* Whoever is notified has a new time; whatever holds the object has changed.
Announce(notified, holders, alive) ==
    /\ flagged' = (flagged \cup notified) \cap alive
    /\ stale' = (stale \cup holders) \cap alive

Modify(o) ==
    /\ o \in held \ Containers
    /\ Announce(Notified(o), HoldersOf(o), Alive)
    /\ UNCHANGED <<contents, observers, held>>

\* One observer for each entry, known by its tag.
Observed(before, c, old, new) ==
    [o \in Objects |->
        [before[o] EXCEPT ![c] = @ - Cardinality({i \in DOMAIN old : old[i] = o})
                                   + Cardinality({i \in DOMAIN new : new[i] = o})]]

\* The entries of a container change, and a change of them is a change of it.
Edit(c, new) ==
    /\ c \in Alive /\ Len(new) <= MaxEntries
    /\ \E alive \in {Reached([contents EXCEPT ![c] = new], held)} :
        /\ Settle([contents EXCEPT ![c] = new], Observed(observers, c, contents[c], new), alive)
        /\ Announce(Notified(c), HoldersOf(c), alive)
    /\ UNCHANGED held

\* Only multi-blocks are searched.
Nested(candidate) ==
    FoldSet(LAMBDA c, seen : seen \cup EntriesIn(contents, seen \cap MultiBlocks), {candidate},
            1 .. MaxDepth)
WouldCycle(target, candidate) == target \in Nested(candidate)

AddBlock(c, o) ==
    /\ ~WouldCycle(c, o)
    /\ Edit(c, Append(contents[c], o))

\* None empties the entry; the same object again is no change.
SetBlock(c, i, o) ==
    /\ contents[c][i] # o
    /\ o # None => ~WouldCycle(c, o)
    /\ Edit(c, [contents[c] EXCEPT ![i] = o])

Resize(c, n) ==
    /\ n # Len(contents[c])
    /\ Edit(c, [i \in 1 .. n |-> IF i <= Len(contents[c]) THEN contents[c][i] ELSE None])

Nestable(o) == MixedNesting \/ o \notin Containers

AddPartition(c, o) == Nestable(o) /\ Edit(c, Append(contents[c], o))
SetPartition(c, i, o) ==
    /\ contents[c][i] # o /\ Nestable(o)
    /\ Edit(c, [contents[c] EXCEPT ![i] = o])

\* Steps are kept in the order of their times.
AddStep(c, i, o) == Nestable(o) /\ Edit(c, InsertAt(contents[c], i, o))
SetStep(c, i, o) == Nestable(o) /\ Edit(c, [contents[c] EXCEPT ![i] = o])

\* Regions and their series stay.
Removable(c, o) == o # None => Kind[o] \notin {"region", "series"}
RemoveEntry(c, i) == Edit(c, RemoveAt(contents[c], i))
Clear(c) == contents[c] # <<>> /\ Edit(c, <<>>)

\* A frame knows its fields by their names, a region its series, a step its regions and
\* a database its steps.
AddNamed(c, o) == o \notin Entries(c) /\ Edit(c, Append(contents[c], o))
LastFrame(c) == {o \in Entries(c) : Kind[o] = "frame"}
AddFrame(c, o) ==
    /\ \A last \in LastFrame(c) : Value[last] <= Value[o]
    /\ Edit(c, Append(contents[c], o))

-----------------------------------------------------------------------------
\* The program gives an object up.
Release(o) ==
    /\ o \in held /\ held' = held \ {o}
    /\ \E alive \in {Reached(contents, held \ {o})} :
        Settle(contents, observers, alive) /\ Announce({}, {}, alive)

\* The consumer sees the time it had, or a later one, and then takes what there is.
Look(o) ==
    /\ o \in Alive /\ o \in flagged
    /\ flagged' = flagged \ {o} /\ stale' = stale \ {o}
    /\ UNCHANGED <<contents, observers, held>>

Blocks(c) ==
    \/ \E o \in DataObjects \cap Alive : AddBlock(c, o)
    \/ \E i \in DOMAIN contents[c], o \in (DataObjects \cap Alive) \cup {None} : SetBlock(c, i, o)
    \/ \E n \in 0 .. MaxEntries : Resize(c, n)
Partitions(c) ==
    \/ \E o \in DataObjects \cap Alive : AddPartition(c, o)
    \/ \E i \in DOMAIN contents[c], o \in (DataObjects \cap Alive) \cup {None} : SetPartition(c, i, o)
    \/ \E n \in 0 .. MaxEntries : Resize(c, n)
Steps(c) ==
    \E o \in DataObjects \cap Alive :
        \/ \E i \in 1 .. Len(contents[c]) + 1 : AddStep(c, i, o)
        \/ \E i \in DOMAIN contents[c] : SetStep(c, i, o)
Results(c) ==
    \E o \in Objects \cap Alive :
        \/ /\ <<Kind[c], Kind[o]>> \in {<<"frame", "field">>, <<"region", "series">>,
                                       <<"step", "region">>, <<"database", "step">>}
           /\ AddNamed(c, o)
        \/ Kind[c] = "step" /\ Kind[o] = "frame" /\ AddFrame(c, o)

Next ==
    \/ \E o \in Objects : Modify(o) \/ Release(o) \/ Look(o)
    \/ \E c \in Containers \cap Alive :
        \/ \E i \in DOMAIN contents[c] : Removable(c, contents[c][i]) /\ RemoveEntry(c, i)
        \/ Kind[c] \in {"multi", "partitioned", "temporal"} /\ Clear(c)
        \/ Kind[c] = "multi" /\ Blocks(c)
        \/ Kind[c] = "partitioned" /\ Partitions(c)
        \/ Kind[c] = "temporal" /\ Steps(c)
        \/ Results(c)

Spec == Init /\ [][Next]_compositeVars

-----------------------------------------------------------------------------
(* fviz_multi_block_data_set_visit *)

\* The last entry of the stack is visited next; children come off before siblings.
VisitNext(walk, leavesOnly) ==
    IF walk.stack = <<>> THEN walk
    ELSE LET entry == Last(walk.stack)
             block == contents[entry.parent][entry.index]
             pushed == IF block \notin MultiBlocks THEN <<>>
                       ELSE Reverse([i \in DOMAIN contents[block] |->
                                [parent |-> block, index |-> i, depth |-> entry.depth + 1]])
         IN  [stack |-> Front(walk.stack) \o pushed,
              visited |-> IF block = None \/ (leavesOnly /\ block \in MultiBlocks) THEN walk.visited
                          ELSE Append(walk.visited, entry)]
\* As long as there may be entries.
Visit(c, leavesOnly) ==
    FoldLeft(LAMBDA walk, i : VisitNext(walk, leavesOnly),
             [stack |-> Reverse([i \in DOMAIN contents[c] |-> [parent |-> c, index |-> i, depth |-> 0]]),
              visited |-> <<>>],
             [i \in 1 .. (MaxEntries + 1) ^ MaxDepth |-> i]).visited

\* Entry by entry, each with what is below it.
Preorder(c) ==
    LET Below[block \in MultiBlocks, depth \in 0 .. MaxDepth] ==
            FlattenSeq([i \in DOMAIN contents[block] |->
                IF contents[block][i] = None THEN <<>>
                ELSE <<[parent |-> block, index |-> i, depth |-> depth]>>
                     \o IF contents[block][i] \in MultiBlocks /\ depth < MaxDepth
                        THEN Below[contents[block][i], depth + 1] ELSE <<>>])
    IN  Below[c, 0]

-----------------------------------------------------------------------------
\* What changed below a container moves its time, however deep, whether the object is in
\* it once or twice, and whatever was replaced or removed before: the containers answer
\* their own time without asking (FVizMultiBlockDataSet.c:53).
NeverStale == stale \subseteq flagged

\* "A retain cycle can never be introduced" (FVizMultiBlockDataSet.c:74).
NoCycle == \A c \in Containers : c \notin UNION {Within(o) : o \in Entries(c)}

\* Nothing that is gone is still told.
NoDeadObserver == \A o \in Objects, c \in Containers : observers[o][c] > 0 => c \in Alive

\* A visit with an explicit stack meets every entry in the order of the hierarchy.
VisitsInOrder ==
    \A c \in MultiBlocks \cap Alive :
        /\ Visit(c, FALSE) = Preorder(c)
        /\ Visit(c, TRUE) = SelectSeq(Preorder(c),
                                      LAMBDA e : contents[e.parent][e.index] \notin MultiBlocks)

-----------------------------------------------------------------------------
(***************************************************************************)
(* NeverStale is proved.  What the program reaches by observers is what    *)
(* holds an object through entries, because every container observes an    *)
(* object exactly as often as it has it: that is kept by every edit, and   *)
(* by what lets go of its entries when nobody holds it any more.           *)
(***************************************************************************)

Occurrences(seq, o) == Cardinality({i \in DOMAIN seq : seq[i] = o})

\* The entries of containers; an observer for each of them; and what they keep informed.
Held ==
    /\ Containers \subseteq Objects /\ None \notin Objects
    /\ contents \in [Containers -> Seq(Objects \cup {None})]
Tagged ==
    observers = [o \in Objects |-> [h \in Containers |-> Occurrences(contents[h], o)]]
Informed == Held /\ Tagged /\ NeverStale

\* An entry is counted as often as it is there.
LEMMA OccurrencesType ==
  ASSUME NEW S, NEW seq \in Seq(S), NEW o
  PROVE  /\ Occurrences(seq, o) \in Nat
         /\ Occurrences(seq, o) > 0 <=> o \in ToSet(seq)
<1> DEFINE at == {i \in DOMAIN seq : seq[i] = o}
<1>1. IsFiniteSet(at)
  <2>1. DOMAIN seq = 1 .. Len(seq) /\ Len(seq) \in Nat
    OBVIOUS
  <2>2. IsFiniteSet(1 .. Len(seq))
    BY <2>1, FS_Interval
  <2> QED BY <2>1, <2>2, FS_Subset
<1>2. Cardinality(at) \in Nat /\ (Cardinality(at) = 0 <=> at = {})
  BY <1>1, FS_CardinalityType, FS_EmptySet
<1>3. at # {} <=> o \in ToSet(seq)
  BY DEF ToSet
<1> QED BY <1>2, <1>3 DEF Occurrences

\* Observers lead where entries do.
LEMMA SameWays == Held /\ Tagged => Holding = Observing
<1> SUFFICES ASSUME Held, Tagged PROVE Holding = Observing
  OBVIOUS
<1>1. ASSUME NEW o \in Objects, NEW h \in Containers
      PROVE  o \in Entries(h) <=> observers[o][h] > 0
  <2>1. contents[h] \in Seq(Objects \cup {None}) /\ o # None
    BY DEF Held
  <2>2. observers[o][h] = Occurrences(contents[h], o)
    BY DEF Tagged
  <2>3. Entries(h) = ToSet(contents[h]) \ {None}
    BY DEF Entries, EntriesIn
  <2> QED BY <2>1, <2>2, <2>3, OccurrencesType
<1>2. ASSUME NEW o \in Objects
      PROVE  {h \in Containers : o \in Entries(h)} = {h \in Containers : observers[o][h] > 0}
  BY <1>1
<1> QED BY <1>2 DEF Holding, Observing

\* fviz_multi_block_child_modified and its like reach everything that holds the object.
LEMMA AllTold == ASSUME Held, Tagged, NEW o PROVE HoldersOf(o) = Notified(o)
BY SameWays DEF HoldersOf, Notified

\* Whoever changes is told, whichever objects are gone.
LEMMA AnnouncedToAll ==
  ASSUME NeverStale, NEW told, NEW alive, Announce(told, told, alive)
  PROVE  NeverStale'
BY DEF NeverStale, Announce

\* What nobody holds any more keeps its place, with no entries.
LEMMA SettledTypes ==
  ASSUME Held, NEW all, NEW observing, NEW alive,
         all \in [Containers -> Seq(Objects \cup {None})],
         Settle(all, observing, alive)
  PROVE  /\ Containers' = Containers /\ Objects' = Objects /\ Held'
<1>1. Containers' = Containers
  BY DEF Settle, Containers
<1>2. Objects' = Objects
  BY DEF Settle, Objects
<1>3. \A c \in Containers : contents'[c] \in Seq(Objects \cup {None})
  BY DEF Settle
<1> QED BY <1>1, <1>2, <1>3 DEF Held, Settle

\* It lets go of its observers together with its entries.
LEMMA SettledTags ==
  ASSUME Held, NEW all, NEW observing, NEW alive,
         observing = [o \in Objects |-> [h \in Containers |-> Occurrences(all[h], o)]],
         Settle(all, observing, alive), Objects' = Objects, Containers' = Containers
  PROVE  Tagged'
<1>1. ASSUME NEW o PROVE Occurrences(<<>>, o) = 0
  BY FS_EmptySet DEF Occurrences
<1>2. ASSUME NEW o \in Objects, NEW h \in Containers
      PROVE  (IF h \in alive THEN observing[o][h] ELSE 0) = Occurrences(contents'[h], o)
  BY <1>1 DEF Settle
<1>3. observers' = [o \in Objects |-> [h \in Containers |-> Occurrences(contents'[h], o)]]
  BY <1>2 DEF Settle
<1> QED BY <1>3 DEF Tagged

\* The observers of the old entries go, those of the new ones come.
LEMMA ObservedTags ==
  ASSUME Held, Tagged, NEW c \in Containers, NEW new \in Seq(Objects \cup {None})
  PROVE  Observed(observers, c, contents[c], new) =
           [o \in Objects |-> [h \in Containers |->
               Occurrences([contents EXCEPT ![c] = new][h], o)]]
<1> DEFINE next(o) == [observers[o] EXCEPT ![c] = @ - Occurrences(contents[c], o)
                                                    + Occurrences(new, o)]
<1>1. ASSUME NEW o \in Objects
      PROVE  next(o) = [h \in Containers |-> Occurrences([contents EXCEPT ![c] = new][h], o)]
  <2>1. observers[o] = [h \in Containers |-> Occurrences(contents[h], o)]
    BY DEF Tagged
  <2>2. Occurrences(contents[c], o) \in Nat /\ Occurrences(new, o) \in Nat
    BY OccurrencesType DEF Held
  <2>3. observers[o][c] - Occurrences(contents[c], o) + Occurrences(new, o) = Occurrences(new, o)
    BY <2>1, <2>2
  <2> QED BY <2>1, <2>3 DEF Held
<1>2. Observed(observers, c, contents[c], new) = [o \in Objects |-> next(o)]
  BY DEF Observed, Occurrences
<1> QED BY <1>1, <1>2

\* An edit of a container keeps observers and entries together.
LEMMA EditTold ==
  ASSUME Informed, NEW c \in Containers, NEW new \in Seq(Objects \cup {None}), Edit(c, new)
  PROVE  Informed'
<1> DEFINE all == [contents EXCEPT ![c] = new]
           observing == Observed(observers, c, contents[c], new)
<1>1. all \in [Containers -> Seq(Objects \cup {None})]
  BY DEF Informed, Held
<1>2. PICK alive : Settle(all, observing, alive) /\ Announce(Notified(c), HoldersOf(c), alive)
  BY DEF Edit
<1>3. Containers' = Containers /\ Objects' = Objects /\ Held'
  BY <1>1, <1>2, SettledTypes DEF Informed
<1>4. observing = [o \in Objects |-> [h \in Containers |-> Occurrences(all[h], o)]]
  BY ObservedTags DEF Informed
<1>5. Tagged'
  BY <1>2, <1>3, <1>4, SettledTags DEF Informed
<1>6. NeverStale'
  BY <1>2, AllTold, AnnouncedToAll DEF Informed
<1> QED BY <1>3, <1>5, <1>6 DEF Informed

\* The entries after each kind of edit.
LEMMA Reseated ==
  ASSUME NEW T, NEW seq \in Seq(T), NEW o \in T
  PROVE  /\ Append(seq, o) \in Seq(T)
         /\ \A i \in DOMAIN seq : RemoveAt(seq, i) \in Seq(T) /\ [seq EXCEPT ![i] = o] \in Seq(T)
         /\ \A i \in 1 .. Len(seq) + 1 : InsertAt(seq, i, o) \in Seq(T)
         /\ \A n \in Nat : [i \in 1 .. n |-> IF i <= Len(seq) THEN seq[i] ELSE o] \in Seq(T)
<1>0. Len(seq) \in Nat
  OBVIOUS
<1>1. Append(seq, o) \in Seq(T)
  OBVIOUS
<1>2. ASSUME NEW i \in DOMAIN seq PROVE RemoveAt(seq, i) \in Seq(T)
  <2>1. i \in 1 .. Len(seq) /\ Len(seq) \in Nat
    OBVIOUS
  <2>2. SubSeq(seq, 1, i - 1) \in Seq(T) /\ SubSeq(seq, i + 1, Len(seq)) \in Seq(T)
    BY <2>1
  <2> QED BY <2>1, <2>2 DEF RemoveAt
<1>3. ASSUME NEW i \in DOMAIN seq PROVE [seq EXCEPT ![i] = o] \in Seq(T)
  OBVIOUS
<1>4. ASSUME NEW i \in 1 .. Len(seq) + 1 PROVE InsertAt(seq, i, o) \in Seq(T)
  <2>1. i \in 1 .. Len(seq) + 1 /\ Len(seq) \in Nat
    OBVIOUS
  <2>2. SubSeq(seq, 1, i - 1) \in Seq(T) /\ SubSeq(seq, i, Len(seq)) \in Seq(T)
    BY <2>1
  <2> QED BY <2>1, <2>2 DEF InsertAt
<1>5. ASSUME NEW n \in Nat
      PROVE  [i \in 1 .. n |-> IF i <= Len(seq) THEN seq[i] ELSE o] \in Seq(T)
  <2>1. \A i \in 1 .. n : (IF i <= Len(seq) THEN seq[i] ELSE o) \in T
    BY <1>0
  <2> QED BY <2>1
<1> QED BY <1>1, <1>2, <1>3, <1>4, <1>5

-----------------------------------------------------------------------------
(* Steps *)

LEMMA ReleaseTold == ASSUME Informed, NEW o, Release(o) PROVE Informed'
<1>1. PICK alive : Settle(contents, observers, alive) /\ Announce({}, {}, alive)
  BY DEF Release
<1>2. contents \in [Containers -> Seq(Objects \cup {None})]
  BY DEF Informed, Held
<1>3. Containers' = Containers /\ Objects' = Objects /\ Held'
  BY <1>1, <1>2, SettledTypes DEF Informed
<1>4. Tagged'
  BY <1>1, <1>3, SettledTags DEF Informed, Tagged
<1>5. NeverStale'
  BY <1>1, AnnouncedToAll DEF Informed
<1> QED BY <1>3, <1>4, <1>5 DEF Informed

LEMMA StructureKept ==
  ASSUME Held, Tagged, UNCHANGED <<contents, observers>> PROVE (Held /\ Tagged)'
BY DEF Held, Tagged, Containers, Objects

LEMMA ModifyTold == ASSUME Informed, NEW o \in Objects, Modify(o) PROVE Informed'
<1>1. Announce(Notified(o), Notified(o), Alive)
  BY AllTold DEF Modify, Informed
<1>2. NeverStale'
  BY <1>1, AnnouncedToAll DEF Informed
<1> QED BY <1>2, StructureKept DEF Modify, Informed

LEMMA LookTold == ASSUME Informed, NEW o \in Objects, Look(o) PROVE Informed'
<1>1. NeverStale'
  BY DEF Informed, NeverStale, Look
<1> QED BY <1>1, StructureKept DEF Look, Informed

\* One entry is replaced or removed.
LEMMA ContainerTold ==
  ASSUME Informed, NEW c \in Containers,
         NEW o \in Objects \cup {None}, NEW i \in DOMAIN contents[c],
         \/ SetBlock(c, i, o) \/ SetPartition(c, i, o) \/ SetStep(c, i, o) \/ RemoveEntry(c, i)
  PROVE  Informed'
<1> DEFINE T == Objects \cup {None}
<1>1. contents[c] \in Seq(T)
  BY DEF Informed, Held
<1>2. RemoveAt(contents[c], i) \in Seq(T) /\ [contents[c] EXCEPT ![i] = o] \in Seq(T)
  BY <1>1, Reseated
<1>3. Edit(c, RemoveAt(contents[c], i)) \/ Edit(c, [contents[c] EXCEPT ![i] = o])
  BY DEF SetBlock, SetPartition, SetStep, RemoveEntry
<1> QED BY <1>2, <1>3, EditTold

\* One entry is added.
LEMMA AddedTold ==
  ASSUME Informed, NEW c \in Containers, NEW o \in Objects,
         \/ AddBlock(c, o) \/ AddPartition(c, o) \/ AddNamed(c, o) \/ AddFrame(c, o)
         \/ \E i \in 1 .. Len(contents[c]) + 1 : AddStep(c, i, o)
  PROVE  Informed'
<1> DEFINE T == Objects \cup {None}
<1>1. contents[c] \in Seq(T) /\ o \in T
  BY DEF Informed, Held
<1>2. Append(contents[c], o) \in Seq(T)
  BY <1>1
<1>3. ASSUME NEW i \in 1 .. Len(contents[c]) + 1, AddStep(c, i, o) PROVE Informed'
  <2>1. InsertAt(contents[c], i, o) \in Seq(T)
    BY <1>1, Reseated
  <2> QED BY <2>1, <1>3, EditTold DEF AddStep
<1>4. ASSUME Edit(c, Append(contents[c], o)) PROVE Informed'
  BY <1>2, <1>4, EditTold
<1> QED BY <1>3, <1>4 DEF AddBlock, AddPartition, AddNamed, AddFrame

\* All entries go, or their number changes.
LEMMA ResizedTold ==
  ASSUME Informed, NEW c \in Containers, Clear(c) \/ \E n \in 0 .. MaxEntries : Resize(c, n)
  PROVE  Informed'
<1> DEFINE T == Objects \cup {None}
<1>1. contents[c] \in Seq(T) /\ None \in T
  BY DEF Informed, Held
<1>2. CASE Clear(c)
  <2>1. <<>> \in Seq(T)
    OBVIOUS
  <2> QED BY <1>2, <2>1, EditTold DEF Clear
<1>3. ASSUME NEW n \in 0 .. MaxEntries, Resize(c, n) PROVE Informed'
  <2>1. n \in Nat
    OBVIOUS
  <2>2. [i \in 1 .. n |-> IF i <= Len(contents[c]) THEN contents[c][i] ELSE None] \in Seq(T)
    BY <1>1, <2>1, Reseated
  <2> QED BY <1>3, <2>2, EditTold DEF Resize
<1> QED BY <1>2, <1>3

LEMMA StepTold == ASSUME Informed, Next PROVE Informed'
<1>1. ASSUME NEW c \in Containers,
             \/ \E i \in DOMAIN contents[c] : Removable(c, contents[c][i]) /\ RemoveEntry(c, i)
             \/ Clear(c) \/ Blocks(c) \/ Partitions(c) \/ Steps(c) \/ Results(c)
      PROVE  Informed'
  <2>1. CASE \E i \in DOMAIN contents[c] : Removable(c, contents[c][i]) /\ RemoveEntry(c, i)
    BY <2>1, ContainerTold
  <2>2. CASE Clear(c)
    BY <2>2, ResizedTold
  <2>3. CASE Blocks(c)
    BY <2>3, AddedTold, ContainerTold, ResizedTold DEF Blocks, DataObjects
  <2>4. CASE Partitions(c)
    BY <2>4, AddedTold, ContainerTold, ResizedTold DEF Partitions, DataObjects
  <2>5. CASE Steps(c)
    BY <2>5, AddedTold, ContainerTold DEF Steps, DataObjects
  <2>6. CASE Results(c)
    BY <2>6, AddedTold DEF Results
  <2> QED BY <1>1, <2>1, <2>2, <2>3, <2>4, <2>5, <2>6
<1>2. CASE \E o \in Objects : Modify(o) \/ Release(o) \/ Look(o)
  BY <1>2, ModifyTold, ReleaseTold, LookTold
<1> QED BY <1>1, <1>2 DEF Next

LEMMA StartTold == ASSUME CompositeGiven, Init PROVE Informed
<1>1. Containers \subseteq Objects /\ None \notin Objects
  BY DEF CompositeGiven, Init, Containers, Objects, ContainersOf
<1>2. contents \in [Containers -> Seq(Objects \cup {None})]
  BY DEF Init, Containers
<1>3. ASSUME NEW o PROVE Occurrences(<<>>, o) = 0
  BY FS_EmptySet DEF Occurrences
<1>4. Tagged
  BY <1>3 DEF Tagged, Init, Containers, Objects
<1> QED BY <1>1, <1>2, <1>4 DEF Informed, Held, NeverStale, Init

\* fviz_object_mtime of a container: what changed below it since a consumer looked, however
\* deep, has moved its time, for every number of entries and every depth of nesting, also
\* where sets of pieces and of times hold containers.
THEOREM ContainersInformed == ASSUME CompositeGiven PROVE Spec => []NeverStale
<1>1. Init => Informed
  BY StartTold
<1>2. Informed /\ [Next]_compositeVars => Informed'
  <2>1. ASSUME Informed, UNCHANGED compositeVars PROVE Informed'
    BY <2>1, StructureKept DEF compositeVars, Informed, NeverStale
  <2> QED BY <2>1, StepTold
<1>3. Informed => NeverStale
  BY DEF Informed
<1> QED BY <1>1, <1>2, <1>3, PTL DEF Spec
=============================================================================
