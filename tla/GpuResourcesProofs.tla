-------------------------- MODULE GpuResourcesProofs --------------------------
(***************************************************************************)
(* What a device keeps of a surface is what it would make of it now, for   *)
(* every size of the arrays and of their histories of changes.             *)
(*                                                                         *)
(* Times never repeat, so an item that was written by a consumer's time is *)
(* the one that the consumer saw.  A history covers every later one, or    *)
(* tells that it does not.                                                 *)
(***************************************************************************)
EXTENDS GpuResources, WellFoundedInduction, TLAPS

-----------------------------------------------------------------------------
(* Histories *)

Times == Nat \ {0}
ChangeRecord == [time : Times, first : 0 .. MaxPoints, count : 0 .. MaxPoints, full : BOOLEAN]
DataRecord == [items : Seq(Times), time : Times, history : Seq(ChangeRecord)]

Ordered(x) ==
    /\ \A i \in DOMAIN x.items : x.items[i] <= x.time
    /\ \A j \in DOMAIN x.history : x.history[j].time <= x.time
    /\ \A j, k \in DOMAIN x.history : j < k => x.history[j].time < x.history[k].time

\* An index, from 1, is in a range, whose first is from 0.
In(i, range) == i - 1 \in range.first .. range.first + range.count - 1
Tells(r, i) == r.full \/ In(i, r)

\* The record of the change that wrote the i-th item, unless it made room.
Covered(x) ==
    \A i \in DOMAIN x.items :
        \/ Len(x.history) = HistoryLength /\ x.items[i] < Head(x.history).time
        \/ \E j \in DOMAIN x.history : x.history[j].time = x.items[i] /\ Tells(x.history[j], i)

Sound(x) == x \in DataRecord /\ Ordered(x) /\ Covered(x) /\ Len(x.history) <= HistoryLength

-----------------------------------------------------------------------------
(* The data *)

Looks == [visible : BOOLEAN, field : BOOLEAN, opacity : BOOLEAN, range : BOOLEAN, time : Times]

NumbersInv ==
    /\ clock \in Times /\ cells \in {0, 1}
    /\ topology \in Times /\ topology <= clock
    /\ attributes \in Times /\ attributes <= clock
    /\ opacities \in Times /\ opacities <= clock
    /\ look \in Looks /\ look.time <= clock
    /\ drawn \in BOOLEAN

\* Normals are computed after the last change that has a record.
PointsInv ==
    /\ Sound(points) /\ points.time <= clock /\ Len(points.items) <= MaxPoints
    /\ normals \in Nat
    /\ normals # 0 => /\ normals = points.time
                      /\ \A j \in DOMAIN points.history : points.history[j].time < points.time
    /\ BoundsFresh

ScalarsInv == scalars # None =>
    /\ scalars \in [address : {1, 2}, data : DataRecord]
    /\ Sound(scalars.data) /\ scalars.data.time <= clock
    /\ Len(scalars.data.items) <= MaxPoints

InstancesInv ==
    Sound(instances) /\ instances.time <= clock /\ Len(instances.items) <= MaxPoints

DataInv == NumbersInv /\ PointsInv /\ ScalarsInv /\ InstancesInv

-----------------------------------------------------------------------------
(* The mesh *)

ColourTimes == Times \X Times \X Nat
MeshRecord ==
    [positions : Seq(Times), normals : Seq(Nat), geometry : Times, topology : Times,
     colours : Seq(ColourTimes), array : 0 .. 2, arrayTime : Nat, attributes : Times,
     look : Times]

\* What a buffer has seen by a time is in it.
Seen(buffer, items, time) ==
    \A i \in DOMAIN items : items[i] <= time => i \in DOMAIN buffer /\ buffer[i] = items[i]

MeshTyped(m) ==
    /\ m \in MeshRecord
    /\ Len(m.normals) = Len(m.positions)
    /\ m.geometry <= points.time
    /\ m.topology <= clock /\ m.attributes <= clock /\ m.look <= clock /\ m.arrayTime <= clock

GeometryKept(m) ==
    /\ Seen(m.positions, points.items, m.geometry)
    /\ (m.geometry = points.time /\ normals # 0) => m.normals = Stamps(Count, normals)

\* Since the resource was made points have only been added.
Grown(m) == m.topology = topology => cells = 1 /\ Len(m.positions) <= Count

SameSurface(m) == m.topology = topology /\ Len(m.positions) = Count

\* Colours made of these attributes with this look, and those of an array's items by a time.
ColoursCurrent(m) ==
    (SameSurface(m) /\ m.attributes = attributes /\ m.look = look.time)
        => m.colours = Colours(look.time)
ColoursSeen(m) ==
    (/\ m.colours # <<>> /\ m.look = look.time /\ scalars # None
     /\ m.array = scalars.address /\ ~look.field /\ ~look.opacity)
        => \A i \in DOMAIN scalars.data.items :
              scalars.data.items[i] <= m.arrayTime =>
                  i \in DOMAIN m.colours /\ m.colours[i] = <<scalars.data.items[i], look.time, 0>>
ColoursVisible(m) == (m.colours # <<>> /\ m.look = look.time) => look.visible

Kept(m) ==
    /\ MeshTyped(m) /\ GeometryKept(m) /\ Grown(m)
    /\ m.colours # <<>> => Len(m.colours) = Len(m.positions)
    /\ ColoursCurrent(m) /\ ColoursSeen(m) /\ ColoursVisible(m)

MeshInv == mesh # None => Kept(mesh)

-----------------------------------------------------------------------------
(* The glyphs *)

GlyphsRecord ==
    [positions : Seq(Times), normals : Seq(Nat), source : Times, buffer : Seq(Times), count : Nat,
     time : Nat]

SourceKept(g) ==
    g.source = MTime => /\ g.positions = points.items
                        /\ normals # 0 => g.normals = Stamps(Count, normals)

GlyphsKept(g) ==
    /\ g \in GlyphsRecord
    /\ g.source <= clock /\ g.time <= clock
    /\ SourceKept(g)
    /\ Seen(g.buffer, instances.items, g.time)

GlyphsInv == glyphs # None => GlyphsKept(glyphs)

Inv == DataInv /\ MeshInv /\ GlyphsInv /\ MeshFresh /\ GlyphsFresh

-----------------------------------------------------------------------------
(* Least and greatest numbers *)

LEMMA LeastOf ==
    ASSUME NEW S \in SUBSET Nat, S # {}
    PROVE  Min(S) \in S /\ \A x \in S : Min(S) <= x
<1>1. IsWellFoundedOn(OpToRel(<, Nat), Nat)
  BY NatLessThanWellFounded
<1>2. \E x \in S : \A y \in S : ~(<<y, x>> \in OpToRel(<, Nat))
  BY <1>1, WFMin
<1>3. PICK x \in S : \A y \in S : ~(<<y, x>> \in OpToRel(<, Nat))
  BY <1>2
<1>4. \A y \in S : x <= y
  <2> SUFFICES ASSUME NEW y \in S PROVE x <= y
    OBVIOUS
  <2>1. x \in Nat /\ y \in Nat
    OBVIOUS
  <2>2. ~(y < x)
    BY <1>3, <2>1 DEF OpToRel
  <2> QED BY <2>1, <2>2
<1> QED BY <1>4 DEF Min

LEMMA GreatestOf ==
    ASSUME NEW S \in SUBSET Nat, S # {}, NEW n \in Nat, \A x \in S : x <= n
    PROVE  Max(S) \in S /\ \A x \in S : x <= Max(S)
<1> DEFINE T == {n - x : x \in S}
<1>1. T \in SUBSET Nat /\ T # {}
  <2>1. \A x \in S : n - x \in Nat
    <3> SUFFICES ASSUME NEW x \in S PROVE n - x \in Nat
      OBVIOUS
    <3>1. x \in Nat /\ x <= n
      OBVIOUS
    <3> QED BY <3>1
  <2> QED BY <2>1
<1>2. Min(T) \in T /\ \A x \in T : Min(T) <= x
  BY <1>1, LeastOf
<1>3. PICK x \in S : Min(T) = n - x
  BY <1>2
<1>4. \A y \in S : y <= x
  <2> SUFFICES ASSUME NEW y \in S PROVE y <= x
    OBVIOUS
  <2>1. n - x <= n - y
    BY <1>2, <1>3
  <2> QED BY <2>1
<1> QED BY <1>4 DEF Max

-----------------------------------------------------------------------------
(* What a history tells *)

LEMMA SoundTypes ==
    ASSUME NEW x, Sound(x)
    PROVE  /\ x.items \in Seq(Times) /\ x.time \in Times /\ x.history \in Seq(ChangeRecord)
           /\ Len(x.items) \in Nat /\ DOMAIN x.items = 1 .. Len(x.items)
           /\ Len(x.history) \in Nat /\ DOMAIN x.history = 1 .. Len(x.history)
           /\ \A i \in DOMAIN x.items : x.items[i] \in Times
           /\ \A j \in DOMAIN x.history : x.history[j] \in ChangeRecord
<1>1. x.items \in Seq(Times) /\ x.time \in Times /\ x.history \in Seq(ChangeRecord)
  BY DEF Sound, DataRecord
<1> QED BY <1>1

\* The hull of some partial records holds what any of them tells of.
LEMMA HullHolds ==
    ASSUME GpuGiven, NEW R \in SUBSET ChangeRecord, R # {}
    PROVE  /\ Hull(R).first \in Nat /\ Hull(R).count \in Nat /\ Hull(R).full = FALSE
           /\ \A r \in R, i \in Nat : In(i, r) => In(i, Hull(R))
<1> DEFINE firsts == {r.first : r \in R}
           ends == {r.first + r.count : r \in R}
<1>1. firsts \in SUBSET Nat /\ firsts # {}
  BY DEF ChangeRecord
<1>2. ends \in SUBSET Nat /\ ends # {}
  <2>1. \A r \in R : r.first + r.count \in Nat
    BY DEF ChangeRecord
  <2> QED BY <2>1
<1>3. \A e \in ends : e <= MaxPoints + MaxPoints
  <2>1. \A r \in R : r.first + r.count <= MaxPoints + MaxPoints
    BY DEF ChangeRecord, GpuGiven
  <2> QED BY <2>1
<1>4. MaxPoints + MaxPoints \in Nat
  BY DEF GpuGiven
<1>5. Min(firsts) \in Nat /\ \A x \in firsts : Min(firsts) <= x
  BY <1>1, LeastOf
<1>6. Max(ends) \in ends /\ \A x \in ends : x <= Max(ends)
  <2> HIDE DEF ends
  <2> QED BY <1>2, <1>3, <1>4, GreatestOf
<1>7. Max(ends) \in Nat /\ Min(firsts) <= Max(ends)
  <2>1. PICK r \in R : Max(ends) = r.first + r.count
    BY <1>6
  <2>2. Min(firsts) <= r.first
    BY <1>5
  <2>3. r.first \in Nat /\ r.count \in Nat
    BY DEF ChangeRecord
  <2> HIDE DEF firsts, ends
  <2> QED BY <2>1, <2>2, <2>3, <1>5
<1>8. Hull(R) = [first |-> Min(firsts), count |-> Max(ends) - Min(firsts), full |-> FALSE]
  BY DEF Hull
<1>9. Hull(R).first \in Nat /\ Hull(R).count \in Nat /\ Hull(R).full = FALSE
  <2> HIDE DEF firsts, ends
  <2> QED BY <1>5, <1>7, <1>8
<1>10. ASSUME NEW r \in R, NEW i \in Nat, In(i, r) PROVE In(i, Hull(R))
  <2>1. Min(firsts) <= r.first /\ r.first + r.count <= Max(ends)
    BY <1>5, <1>6
  <2>2. r.first \in Nat /\ r.count \in Nat
    BY DEF ChangeRecord
  <2> HIDE DEF firsts, ends
  <2> QED BY <2>1, <2>2, <1>5, <1>7, <1>8, <1>10 DEF In
<1> QED BY <1>9, <1>10

LEMMA NewerTypes ==
    ASSUME NEW x, Sound(x), NEW since \in Nat
    PROVE  Newer(x, since) \in SUBSET ChangeRecord
<1>1. \A j \in DOMAIN x.history : x.history[j] \in ChangeRecord
  BY SoundTypes
<1>2. ToSet(x.history) = {x.history[j] : j \in DOMAIN x.history}
  BY DEF ToSet
<1> QED BY <1>1, <1>2 DEF Newer

\* What changed since is in the range, or the range is everything.
LEMMA DirtyTells ==
    ASSUME GpuGiven, NEW x, Sound(x), NEW since \in Nat
    PROVE  /\ DirtySince(x, since).first \in Nat
           /\ DirtySince(x, since).count \in Nat
           /\ DirtySince(x, since).full \in BOOLEAN
           /\ \A i \in DOMAIN x.items :
                 x.items[i] <= since \/ Tells(DirtySince(x, since), i)
           /\ DirtySince(x, since).count = 0 =>
                 \A i \in DOMAIN x.items : x.items[i] <= since \/ DirtySince(x, since).full
<1> DEFINE dirty == DirtySince(x, since)
<1>0. /\ x.time \in Nat /\ Len(x.items) \in Nat /\ DOMAIN x.items = 1 .. Len(x.items)
      /\ \A i \in DOMAIN x.items : x.items[i] \in Nat /\ x.items[i] <= x.time
  BY SoundTypes DEF Sound, Ordered, Times
<1>1. CASE since >= x.time
  <2>1. dirty = [first |-> 0, count |-> 0, full |-> FALSE]
    BY <1>1 DEF DirtySince
  <2>2. \A i \in DOMAIN x.items : x.items[i] <= since
    BY <1>0, <1>1
  <2> QED BY <2>1, <2>2
<1>2. CASE ~(since >= x.time) /\ Unproven(x, since)
  <2>1. dirty = [first |-> 0, count |-> Len(x.items), full |-> TRUE]
    BY <1>2 DEF DirtySince
  <2> QED BY <2>1, <1>0 DEF Tells
<1>3. CASE ~(since >= x.time) /\ ~Unproven(x, since)
  <2>1. dirty = Hull(Newer(x, since))
    BY <1>3 DEF DirtySince
  <2>2. /\ Newer(x, since) # {} /\ \A r \in Newer(x, since) : ~r.full
        /\ ~(Len(x.history) = HistoryLength /\ since < Head(x.history).time)
        /\ x.history # <<>>
    BY <1>3 DEF Unproven, UnprovenButNewest
  <2>3. Newer(x, since) \in SUBSET ChangeRecord
    BY NewerTypes
  <2>4. /\ dirty.first \in Nat /\ dirty.count \in Nat /\ dirty.full = FALSE
        /\ \A r \in Newer(x, since), i \in Nat : In(i, r) => In(i, dirty)
    <3> HIDE DEF dirty
    <3> QED BY <2>1, <2>2, <2>3, HullHolds
  <2>5. ASSUME NEW i \in DOMAIN x.items, ~(x.items[i] <= since) PROVE In(i, dirty)
    <3>1. x.items[i] \in Nat /\ i \in Nat
      BY <1>0
    <3>2. ~(Len(x.history) = HistoryLength /\ x.items[i] < Head(x.history).time)
      <4>1. ASSUME Len(x.history) = HistoryLength, x.items[i] < Head(x.history).time
            PROVE  FALSE
        <5>1. 1 \in DOMAIN x.history /\ Head(x.history) = x.history[1]
          BY <2>2, SoundTypes
        <5>2. Head(x.history).time \in Nat
          BY <5>1, SoundTypes DEF ChangeRecord, Times
        <5> QED BY <5>2, <4>1, <2>5, <3>1, <2>2
      <4> QED BY <4>1
    <3>3. PICK j \in DOMAIN x.history :
              x.history[j].time = x.items[i] /\ Tells(x.history[j], i)
      BY <3>2 DEF Sound, Covered
    <3>4. x.history[j] \in Newer(x, since)
      <4>1. x.history[j] \in ToSet(x.history)
        BY DEF ToSet
      <4>2. x.history[j].time > since
        BY <3>1, <3>3, <2>5
      <4> QED BY <4>1, <4>2 DEF Newer
    <3>5. In(i, x.history[j])
      BY <3>3, <3>4, <2>2 DEF Tells
    <3> QED BY <3>1, <3>4, <3>5, <2>4
  <2>6. ASSUME dirty.count = 0, NEW i \in DOMAIN x.items PROVE ~In(i, dirty)
    <3> HIDE DEF dirty
    <3> QED BY <2>4, <2>6, <1>0 DEF In
  <2> HIDE DEF dirty
  <2>7. dirty.full \in BOOLEAN
    BY <2>4
  <2> QED
    <3>1. \A i \in DOMAIN x.items : x.items[i] <= since \/ Tells(dirty, i)
      BY <2>5 DEF Tells
    <3>2. dirty.count = 0 => \A i \in DOMAIN x.items : x.items[i] <= since
      BY <2>5, <2>6
    <3> QED BY <2>4, <2>7, <3>1, <3>2 DEF dirty
<1> QED BY <1>1, <1>2, <1>3

\* Without a record of its latest change, everything.
LEMMA UnrecordedTells ==
    ASSUME NEW x, Sound(x), NEW since \in Nat, since < x.time,
           \A j \in DOMAIN x.history : x.history[j].time < x.time
    PROVE  DirtySince(x, since).full
<1>0. x.time \in Nat /\ DOMAIN x.history = 1 .. Len(x.history) /\ Len(x.history) \in Nat
  BY SoundTypes DEF Times
<1>1. Unproven(x, since)
  <2>1. CASE x.history = <<>>
    BY <2>1 DEF Unproven, UnprovenButNewest
  <2>2. CASE x.history # <<>>
    <3>1. x.history \in Seq(ChangeRecord)
      BY SoundTypes
    <3>2. Len(x.history) \in DOMAIN x.history /\ Last(x.history) = x.history[Len(x.history)]
      BY <2>2, <3>1, <1>0 DEF Last
    <3>3. Last(x.history).time \in Nat
      BY <3>2, SoundTypes DEF ChangeRecord, Times
    <3>4. Last(x.history).time < x.time
      BY <3>2
    <3>5. Last(x.history).time # x.time
      BY <3>3, <3>4, <1>0
    <3> QED BY <3>5 DEF Unproven
  <2> QED BY <2>1, <2>2
<1>2. ~(since >= x.time)
  BY <1>0
<1> QED BY <1>1, <1>2 DEF DirtySince

-----------------------------------------------------------------------------
(* What changes keep of a history *)

\* All items are those before, or written at time t.
Rewrites(before, items, t) ==
    \A i \in DOMAIN items : (i \in DOMAIN before /\ items[i] = before[i]) \/ items[i] = t

\* A record of time t tells which items differ from those before.
Explained(x, items, t, first, count, full) ==
    /\ x.time <= t /\ \A j \in DOMAIN x.history : x.history[j].time < t
    /\ \A i \in DOMAIN items :
           \/ i \in DOMAIN x.items /\ items[i] = x.items[i]
           \/ items[i] = t /\ (full \/ i - 1 \in first .. first + count - 1)

LEMMA RecordedSound ==
    ASSUME GpuGiven, NEW x, Sound(x),
           NEW items \in Seq(Times), NEW t \in Times,
           NEW first \in 0 .. MaxPoints, NEW count \in 0 .. MaxPoints, NEW full \in BOOLEAN,
           Explained(x, items, t, first, count, full)
    PROVE  /\ Sound(Recorded(x, items, t, first, count, full))
           /\ Recorded(x, items, t, first, count, full).time = t
           /\ Recorded(x, items, t, first, count, full).items = items
<1> USE DEF Explained
<1> DEFINE y == Recorded(x, items, t, first, count, full)
           new == [time |-> t, first |-> first, count |-> count, full |-> full]
           h == x.history
           kept == IF Len(h) < HistoryLength THEN h ELSE Tail(h)
           off == IF Len(h) < HistoryLength THEN 0 ELSE 1
<1>1. y = [items |-> items, time |-> t, history |-> Append(kept, new)]
  BY DEF Recorded
<1>2. new \in ChangeRecord
  BY DEF ChangeRecord
<1>3. /\ h \in Seq(ChangeRecord) /\ Len(h) \in Nat /\ DOMAIN h = 1 .. Len(h)
      /\ \A j \in DOMAIN h : h[j] \in ChangeRecord
      /\ x.time \in Nat /\ DOMAIN x.items = 1 .. Len(x.items) /\ Len(x.items) \in Nat
      /\ \A i \in DOMAIN x.items : x.items[i] \in Nat
  BY SoundTypes DEF Times
<1>4. Len(h) <= HistoryLength /\ HistoryLength \in Nat /\ HistoryLength > 0
  BY DEF Sound, GpuGiven
<1>5. /\ kept \in Seq(ChangeRecord) /\ Len(kept) = Len(h) - off
      /\ \A j \in 1 .. Len(kept) : kept[j] = h[j + off] /\ j + off \in DOMAIN h
  <2>1. CASE Len(h) < HistoryLength
    BY <2>1, <1>3
  <2>2. CASE ~(Len(h) < HistoryLength)
    <3>1. h # <<>>
      BY <2>2, <1>4
    <3> HIDE DEF h
    <3>2. Tail(h) \in Seq(ChangeRecord) /\ Len(Tail(h)) = Len(h) - 1
      BY <3>1, <1>3
    <3>3. \A j \in 1 .. Len(Tail(h)) : Tail(h)[j] = h[j + 1] /\ j + 1 \in DOMAIN h
      BY <3>1, <3>2, <1>3
    <3> QED BY <2>2, <3>2, <3>3
  <2> QED BY <2>1, <2>2
<1>o. off \in {0, 1} /\ (off = 1 <=> Len(h) = HistoryLength)
  BY <1>3, <1>4
<1> HIDE DEF kept, new, off
<1> DEFINE g == Append(kept, new)
<1>6. /\ g \in Seq(ChangeRecord) /\ Len(g) = Len(kept) + 1 /\ DOMAIN g = 1 .. Len(kept) + 1
      /\ \A j \in 1 .. Len(kept) : g[j] = kept[j]
      /\ g[Len(kept) + 1] = new
      /\ Len(kept) \in Nat
  BY <1>2, <1>5
<1>7. Len(g) <= HistoryLength
  BY <1>6, <1>5, <1>4, <1>3, <1>o
<1>8. new.time = t /\ new.first = first /\ new.count = count /\ new.full = full
  BY DEF new
<1>9. \A j \in DOMAIN h : h[j].time \in Nat /\ h[j].time < t
  BY <1>3 DEF ChangeRecord, Times
<1>t. t \in Nat
  BY DEF Times
<1> HIDE DEF g, h
<1>10. \A j \in DOMAIN g : g[j].time \in Nat /\ g[j].time <= t /\ (j <= Len(kept) => g[j].time < t)
  <2> SUFFICES ASSUME NEW j \in DOMAIN g
               PROVE  g[j].time \in Nat /\ g[j].time <= t /\ (j <= Len(kept) => g[j].time < t)
    OBVIOUS
  <2>1. CASE j <= Len(kept)
    <3>1. j \in 1 .. Len(kept) /\ g[j] = h[j + off] /\ j + off \in DOMAIN h
      BY <2>1, <1>5, <1>6
    <3>2. h[j + off].time \in Nat /\ h[j + off].time < t
      BY <3>1, <1>9
    <3> QED BY <3>1, <3>2, <1>t
  <2>2. CASE ~(j <= Len(kept))
    <3>1. j = Len(kept) + 1
      BY <2>2, <1>6
    <3> QED BY <3>1, <2>2, <1>6, <1>8, <1>t
  <2> QED BY <2>1, <2>2
<1>11. ASSUME NEW j \in DOMAIN g, NEW k \in DOMAIN g, j < k PROVE g[j].time < g[k].time
  <2>1. j \in 1 .. Len(kept) /\ g[j] = h[j + off] /\ j + off \in DOMAIN h
    BY <1>11, <1>5, <1>6
  <2>2. CASE k <= Len(kept)
    <3>1. g[k] = h[k + off] /\ k + off \in DOMAIN h /\ j + off < k + off
      <4>1. k \in 1 .. Len(kept) /\ k \in Int /\ j \in Int /\ off \in Int
        BY <2>2, <1>6, <1>o
      <4>2. g[k] = h[k + off] /\ k + off \in DOMAIN h
        BY <4>1, <1>5, <1>6
      <4> QED BY <4>1, <4>2, <1>11
    <3>2. \A a, b \in DOMAIN h : a < b => h[a].time < h[b].time
      BY DEF Sound, Ordered, h
    <3> QED BY <2>1, <3>1, <3>2
  <2>3. CASE ~(k <= Len(kept))
    <3>1. k = Len(kept) + 1
      BY <2>3, <1>6
    <3> QED BY <3>1, <2>1, <1>6, <1>8, <1>10, <1>t
  <2> QED BY <2>2, <2>3
<1>12. \A i \in DOMAIN items : items[i] \in Nat /\ items[i] <= t
  <2> SUFFICES ASSUME NEW i \in DOMAIN items PROVE items[i] \in Nat /\ items[i] <= t
    OBVIOUS
  <2>1. CASE i \in DOMAIN x.items /\ items[i] = x.items[i]
    BY <2>1, <1>3, <1>t DEF Sound, Ordered
  <2>2. CASE items[i] = t
    BY <2>2, <1>t
  <2> QED BY <2>1, <2>2
<1>13. ASSUME NEW i \in DOMAIN items
       PROVE  \/ Len(g) = HistoryLength /\ items[i] < Head(g).time
              \/ \E j \in DOMAIN g : g[j].time = items[i] /\ Tells(g[j], i)
  <2>h. Head(g) = g[1] /\ 1 \in DOMAIN g
    BY <1>6
  <2>1. CASE items[i] = t /\ (full \/ i - 1 \in first .. first + count - 1)
    <3>1. Tells(new, i)
      BY <2>1, <1>8 DEF Tells, In
    <3>2. Len(kept) + 1 \in DOMAIN g
      BY <1>6
    <3> QED BY <2>1, <3>1, <3>2, <1>6, <1>8
  <2>2. CASE i \in DOMAIN x.items /\ items[i] = x.items[i]
    <3>1. \/ Len(h) = HistoryLength /\ items[i] < Head(h).time
          \/ \E j \in DOMAIN h : h[j].time = items[i] /\ Tells(h[j], i)
      BY <2>2 DEF Sound, Covered, h
    \* The oldest record makes room, and what it or those before it covered stays older.
    <3>2. ASSUME 1 \in DOMAIN h, Len(h) = HistoryLength, items[i] <= h[1].time
          PROVE  Len(g) = HistoryLength /\ items[i] < Head(g).time
      <4>1. off = 1 /\ Len(g) = HistoryLength
        BY <3>2, <1>5, <1>6, <1>3, <1>4, <1>o
      <4>2. h[1].time < g[1].time
        <5>1. CASE Len(kept) = 0
          BY <5>1, <1>6, <1>8, <1>9, <3>2
        <5>2. CASE Len(kept) # 0
          <6>1. 1 \in 1 .. Len(kept) /\ g[1] = h[2] /\ 2 \in DOMAIN h
            <7>1. 1 \in 1 .. Len(kept)
              BY <5>2, <1>6
            <7>2. g[1] = kept[1] /\ kept[1] = h[1 + off] /\ 1 + off \in DOMAIN h
              BY <7>1, <1>5, <1>6
            <7> QED BY <7>1, <7>2, <4>1
          <6>2. \A a, b \in DOMAIN h : a < b => h[a].time < h[b].time
            BY DEF Sound, Ordered, h
          <6> QED BY <6>1, <6>2, <3>2
        <5> QED BY <5>1, <5>2
      <4>3. items[i] \in Nat /\ h[1].time \in Nat /\ g[1].time \in Nat
        BY <1>12, <1>9, <1>10, <3>2, <2>h
      <4> QED BY <4>1, <4>2, <4>3, <3>2, <2>h
    <3>3. CASE Len(h) = HistoryLength /\ items[i] < Head(h).time
      <4>1. 1 \in DOMAIN h /\ Head(h) = h[1]
        BY <3>3, <1>3, <1>4
      <4>2. items[i] <= h[1].time
        BY <4>1, <3>3, <1>12, <1>9
      <4> QED BY <3>2, <3>3, <4>1, <4>2
    <3>4. ASSUME NEW j \in DOMAIN h, h[j].time = items[i], Tells(h[j], i)
          PROVE  \/ Len(g) = HistoryLength /\ items[i] < Head(g).time
                 \/ \E k \in DOMAIN g : g[k].time = items[i] /\ Tells(g[k], i)
      <4>1. CASE j - off \in 1 .. Len(kept)
        <5>1. g[j - off] = h[j] /\ j - off \in DOMAIN g
          <6>1. (j - off) + off = j
            BY <1>3, <1>o
          <6> QED BY <4>1, <6>1, <1>5, <1>6
        <5> QED BY <5>1, <3>4
      <4>2. CASE ~(j - off \in 1 .. Len(kept))
        <5>1. j = 1 /\ Len(h) = HistoryLength
          <6>1. j \in Int /\ off \in Int /\ Len(kept) \in Int /\ Len(h) \in Int /\ 1 <= j /\ j <= Len(h)
            BY <1>3, <1>o, <1>6
          <6>2. Len(kept) = Len(h) - off
            BY <1>5
          <6>3. ~(1 <= j - off /\ j - off <= Len(kept))
            BY <6>1, <4>2
          <6>4. off = 1 /\ j = 1
            BY <6>1, <6>2, <6>3, <1>o
          <6> QED BY <6>4, <1>o
        <5>2. items[i] <= h[1].time
          BY <5>1, <3>4, <1>12, <1>9
        <5> QED BY <5>1, <5>2, <3>2
      <4> QED BY <4>1, <4>2
    <3> QED BY <3>1, <3>3, <3>4
  <2> QED BY <2>1, <2>2
<1> HIDE DEF y
<1>14. y.items = items /\ y.time = t /\ y.history = g
  BY <1>1 DEF g
<1>15. y \in DataRecord
  BY <1>1, <1>6 DEF DataRecord, g
<1>16. Ordered(y)
  BY <1>10, <1>11, <1>12, <1>14 DEF Ordered
<1>17. Covered(y)
  BY <1>13, <1>14 DEF Covered
<1>18. Sound(y)
  BY <1>7, <1>14, <1>15, <1>16, <1>17 DEF Sound
<1> QED BY <1>14, <1>18 DEF y

\* A new array has one record, of all its items.
LEMMA FullSound ==
    ASSUME GpuGiven, NEW n \in 0 .. MaxPoints, NEW t \in Times
    PROVE  Sound(Full(n, t)) /\ Full(n, t).time = t /\ Full(n, t).items = Stamps(n, t)
<1> DEFINE x == New(<<>>, t)
<1>1. x.items = <<>> /\ x.time = t /\ x.history = <<>> /\ x \in DataRecord
  BY DEF New, DataRecord, Times
<1>2. Sound(x)
  <2>1. DOMAIN x.items = {} /\ DOMAIN x.history = {} /\ Len(x.history) = 0
    BY <1>1
  <2>2. Len(x.history) <= HistoryLength
    BY <2>1 DEF GpuGiven
  <2> QED BY <1>1, <2>1, <2>2 DEF Sound, Ordered, Covered
<1>3. Stamps(n, t) \in Seq(Times) /\ \A i \in DOMAIN Stamps(n, t) : Stamps(n, t)[i] = t
  BY DEF Stamps
<1>4. 0 \in 0 .. MaxPoints /\ n \in 0 .. MaxPoints /\ x.time <= t
  BY <1>1 DEF GpuGiven, Times
<1>5. \A j \in DOMAIN x.history : x.history[j].time < t
  BY <1>1
<1> DEFINE s == Stamps(n, t)
<1> HIDE DEF x, s
<1>6. ASSUME NEW full \in BOOLEAN, full
      PROVE  /\ Sound(Recorded(x, s, t, 0, n, full))
             /\ Recorded(x, s, t, 0, n, full).time = t
             /\ Recorded(x, s, t, 0, n, full).items = s
  <2>1. s \in Seq(Times) /\ \A i \in DOMAIN s : s[i] = t
    BY <1>3 DEF s
  <2>2. \A i \in DOMAIN s :
            \/ i \in DOMAIN x.items /\ s[i] = x.items[i]
            \/ s[i] = t /\ (full \/ i - 1 \in 0 .. 0 + n - 1)
    BY <1>6, <2>1
  <2>3. Explained(x, s, t, 0, n, full)
    BY <1>4, <1>5, <2>2 DEF Explained
  <2> QED BY <2>1, <2>3, <1>2, <1>4, RecordedSound
<1>7. /\ Sound(Recorded(x, s, t, 0, n, TRUE))
      /\ Recorded(x, s, t, 0, n, TRUE).time = t
      /\ Recorded(x, s, t, 0, n, TRUE).items = s
  BY <1>6
<1> QED BY <1>7 DEF Full, x, s

LEMMA TouchedSound ==
    ASSUME NEW x, Sound(x), NEW t \in Times, x.time < t
    PROVE  /\ Sound(Touched(x, t)) /\ Touched(x, t).time = t
           /\ Touched(x, t).items = x.items
           /\ \A j \in DOMAIN Touched(x, t).history : Touched(x, t).history[j].time < t
<1>1. /\ Touched(x, t) \in DataRecord /\ Touched(x, t).time = t
      /\ Touched(x, t).items = x.items /\ Touched(x, t).history = x.history
  BY DEF Sound, DataRecord, Touched
<1>2. /\ \A i \in DOMAIN x.items : x.items[i] \in Nat /\ x.items[i] <= x.time
      /\ \A j \in DOMAIN x.history : x.history[j].time \in Nat /\ x.history[j].time <= x.time
      /\ x.time \in Nat /\ t \in Nat
  BY SoundTypes DEF Sound, Ordered, ChangeRecord, Times
<1>3. /\ \A i \in DOMAIN x.items : x.items[i] <= t
      /\ \A j \in DOMAIN x.history : x.history[j].time < t /\ x.history[j].time <= t
  BY <1>2
<1>4. Ordered(Touched(x, t))
  BY <1>1, <1>3 DEF Sound, Ordered
<1>5. Covered(Touched(x, t))
  BY <1>1 DEF Sound, Covered
<1> QED BY <1>1, <1>3, <1>4, <1>5 DEF Sound

LEMMA EmptiedSound ==
    ASSUME NEW x, Sound(x)
    PROVE  Sound([x EXCEPT !.items = <<>>]) /\ [x EXCEPT !.items = <<>>].time = x.time
           /\ [x EXCEPT !.items = <<>>].items = <<>>
<1> DEFINE y == [x EXCEPT !.items = <<>>]
<1>1. /\ y \in DataRecord /\ y.time = x.time /\ y.items = <<>> /\ y.history = x.history
  <2>1. <<>> \in Seq(Times) /\ x \in DataRecord
    BY DEF Sound
  <2> QED BY <2>1 DEF DataRecord
<1>2. DOMAIN y.items = {}
  BY <1>1
<1> HIDE DEF y
<1>3. Ordered(y) /\ Covered(y)
  BY <1>1, <1>2 DEF Sound, Ordered, Covered
<1>4. Sound(y) /\ y.time = x.time /\ y.items = <<>>
  BY <1>1, <1>3 DEF Sound
<1> QED BY <1>4 DEF y

\* Some items are written.
LEMMA WrittenSound ==
    ASSUME GpuGiven, NEW x, Sound(x), Len(x.items) <= MaxPoints, NEW t \in Times, x.time < t,
           NEW r \in Ranges(Len(x.items)), NEW full \in BOOLEAN
    PROVE  LET y == Recorded(x, Written(x.items, r, t), t, r[1], r[2], full)
           IN  /\ Sound(y) /\ y.time = t /\ y.items = Written(x.items, r, t)
               /\ Len(y.items) = Len(x.items) /\ Rewrites(x.items, y.items, t)
<1> DEFINE w == Written(x.items, r, t)
<1>1. /\ x.items \in Seq(Times) /\ Len(x.items) \in Nat /\ DOMAIN x.items = 1 .. Len(x.items)
      /\ \A i \in DOMAIN x.items : x.items[i] \in Times
      /\ x.time \in Nat /\ t \in Nat
      /\ \A j \in DOMAIN x.history : x.history[j].time \in Nat /\ x.history[j].time <= x.time
  BY SoundTypes DEF Times, Sound, Ordered, ChangeRecord
<1>2. r[1] \in 0 .. MaxPoints /\ r[2] \in 0 .. MaxPoints
  <2>1. r[1] \in 0 .. Len(x.items) - 1 /\ r[2] \in 1 .. Len(x.items)
    BY DEF Ranges
  <2> QED BY <2>1, <1>1 DEF GpuGiven
<1>3. /\ w \in Seq(Times) /\ DOMAIN w = DOMAIN x.items /\ Len(w) = Len(x.items)
      /\ \A i \in DOMAIN w : w[i] = IF i - 1 \in r[1] .. r[1] + r[2] - 1 THEN t ELSE x.items[i]
  <2>1. w = [i \in 1 .. Len(x.items) |->
                IF i - 1 \in r[1] .. r[1] + r[2] - 1 THEN t ELSE x.items[i]]
    BY <1>1 DEF Written
  <2>2. \A i \in 1 .. Len(x.items) :
            (IF i - 1 \in r[1] .. r[1] + r[2] - 1 THEN t ELSE x.items[i]) \in Times
    BY <1>1
  <2> QED BY <2>1, <2>2, <1>1
<1> HIDE DEF w
<1>4. \A i \in DOMAIN w :
          \/ i \in DOMAIN x.items /\ w[i] = x.items[i]
          \/ w[i] = t /\ (full \/ i - 1 \in r[1] .. r[1] + r[2] - 1)
  BY <1>3
<1>5. x.time <= t /\ \A j \in DOMAIN x.history : x.history[j].time < t
  BY <1>1
<1>6. /\ Sound(Recorded(x, w, t, r[1], r[2], full))
      /\ Recorded(x, w, t, r[1], r[2], full).time = t
      /\ Recorded(x, w, t, r[1], r[2], full).items = w
  <2>1. Explained(x, w, t, r[1], r[2], full)
    BY <1>4, <1>5 DEF Explained
  <2> QED BY <1>2, <1>3, <2>1, RecordedSound
<1>7. Rewrites(x.items, w, t)
  BY <1>4 DEF Rewrites
<1> QED BY <1>3, <1>6, <1>7 DEF w

\* One item is added.
LEMMA AppendedSound ==
    ASSUME GpuGiven, NEW x, Sound(x), Len(x.items) < MaxPoints, NEW t \in Times, x.time < t,
           NEW first \in 0 .. MaxPoints, NEW count \in 0 .. MaxPoints, NEW full \in BOOLEAN,
           Len(x.items) \in first .. first + count - 1
    PROVE  LET y == Recorded(x, Append(x.items, t), t, first, count, full)
           IN  /\ Sound(y) /\ y.time = t /\ y.items = Append(x.items, t)
               /\ Len(y.items) = Len(x.items) + 1 /\ Rewrites(x.items, y.items, t)
<1> DEFINE w == Append(x.items, t)
<1>1. /\ x.items \in Seq(Times) /\ Len(x.items) \in Nat /\ DOMAIN x.items = 1 .. Len(x.items)
      /\ x.time \in Nat /\ t \in Nat
      /\ \A j \in DOMAIN x.history : x.history[j].time \in Nat /\ x.history[j].time <= x.time
  BY SoundTypes DEF Times, Sound, Ordered, ChangeRecord
<1>2. /\ w \in Seq(Times) /\ DOMAIN w = 1 .. Len(x.items) + 1 /\ Len(w) = Len(x.items) + 1
      /\ \A i \in DOMAIN x.items : w[i] = x.items[i]
      /\ w[Len(x.items) + 1] = t
  BY <1>1
<1> HIDE DEF w
<1>3. \A i \in DOMAIN w :
          \/ i \in DOMAIN x.items /\ w[i] = x.items[i]
          \/ w[i] = t /\ (full \/ i - 1 \in first .. first + count - 1)
  <2> SUFFICES ASSUME NEW i \in DOMAIN w, i \notin DOMAIN x.items
               PROVE  w[i] = t /\ i - 1 \in first .. first + count - 1
    BY <1>2
  <2>1. i = Len(x.items) + 1 /\ i - 1 = Len(x.items)
    BY <1>1, <1>2
  <2> QED BY <2>1, <1>2
<1>4. x.time <= t /\ \A j \in DOMAIN x.history : x.history[j].time < t
  BY <1>1
<1>5. /\ Sound(Recorded(x, w, t, first, count, full))
      /\ Recorded(x, w, t, first, count, full).time = t
      /\ Recorded(x, w, t, first, count, full).items = w
  <2>1. Explained(x, w, t, first, count, full)
    BY <1>3, <1>4 DEF Explained
  <2> QED BY <1>2, <2>1, RecordedSound
<1>6. Rewrites(x.items, w, t)
  BY <1>3 DEF Rewrites
<1> QED BY <1>2, <1>5, <1>6 DEF w

\* All items are written, or none is left.
LEMMA StampedSound ==
    ASSUME GpuGiven, NEW x, Sound(x), NEW t \in Times, x.time < t,
           NEW n \in 0 .. MaxPoints, NEW full \in BOOLEAN
    PROVE  LET y == Recorded(x, Stamps(n, t), t, 0, n, full)
           IN  /\ Sound(y) /\ y.time = t /\ y.items = Stamps(n, t)
               /\ Len(y.items) = n /\ Rewrites(x.items, y.items, t)
<1> DEFINE w == Stamps(n, t)
<1>1. /\ x.time \in Nat /\ t \in Nat
      /\ \A j \in DOMAIN x.history : x.history[j].time \in Nat /\ x.history[j].time <= x.time
  BY SoundTypes DEF Times, Sound, Ordered, ChangeRecord
<1>2. w \in Seq(Times) /\ Len(w) = n /\ \A i \in DOMAIN w : w[i] = t
  BY DEF Stamps
<1> HIDE DEF w
<1>3. x.time <= t /\ \A j \in DOMAIN x.history : x.history[j].time < t
  BY <1>1
<1>4. ASSUME NEW first \in 0 .. MaxPoints, first = 0
      PROVE  /\ Sound(Recorded(x, w, t, first, n, full))
             /\ Recorded(x, w, t, first, n, full).time = t
             /\ Recorded(x, w, t, first, n, full).items = w
  <2>1. \A i \in DOMAIN w :
            \/ i \in DOMAIN x.items /\ w[i] = x.items[i]
            \/ w[i] = t /\ (full \/ i - 1 \in first .. first + n - 1)
    BY <1>2, <1>4
  <2>2. Explained(x, w, t, first, n, full)
    BY <1>3, <2>1 DEF Explained
  <2> QED BY <1>2, <2>2, RecordedSound
<1>5. 0 \in 0 .. MaxPoints
  BY DEF GpuGiven
<1>6. /\ Sound(Recorded(x, w, t, 0, n, full))
      /\ Recorded(x, w, t, 0, n, full).time = t
      /\ Recorded(x, w, t, 0, n, full).items = w
  BY <1>4, <1>5
<1>7. Rewrites(x.items, w, t)
  BY <1>2 DEF Rewrites
<1> QED BY <1>2, <1>6, <1>7 DEF w

LEMMA NoStamps == ASSUME NEW t PROVE Stamps(0, t) = <<>>
BY DEF Stamps

-----------------------------------------------------------------------------
(* The data stays sound *)

LEMMA NextTime ==
    ASSUME NumbersInv, Change
    PROVE  /\ clock \in Nat /\ clock' \in Times /\ clock < clock' /\ clock <= clock'
           /\ drawn' = FALSE
           /\ \A t \in Nat : t <= clock => t < clock' /\ t <= clock' /\ t # clock'
BY DEF NumbersInv, Change, Times

LEMMA PointsTypes ==
    ASSUME PointsInv, NumbersInv
    PROVE  /\ points.time \in Nat /\ points.items \in Seq(Times)
           /\ Count \in Nat /\ DOMAIN points.items = 1 .. Count
           /\ \A i \in 1 .. Count : points.items[i] \in Times /\ points.items[i] <= points.time
           /\ points.time <= clock
BY SoundTypes DEF PointsInv, NumbersInv, Count, Times, Sound, Ordered

LEMMA PointsFrame ==
    ASSUME PointsInv, NumbersInv, clock' \in Nat, clock <= clock',
           UNCHANGED <<points, normals, bounds>>
    PROVE  PointsInv'
<1>1. points.time <= clock'
  BY PointsTypes DEF NumbersInv, Times
<1> QED BY <1>1 DEF PointsInv, BoundsFresh

LEMMA ScalarsFrame ==
    ASSUME ScalarsInv, NumbersInv, clock' \in Nat, clock <= clock', UNCHANGED scalars
    PROVE  ScalarsInv'
<1>1. scalars # None => scalars.data.time \in Nat
  BY SoundTypes DEF ScalarsInv, Times
<1>2. scalars # None => scalars.data.time <= clock'
  BY <1>1 DEF ScalarsInv, NumbersInv, Times
<1> QED BY <1>2 DEF ScalarsInv

LEMMA InstancesFrame ==
    ASSUME InstancesInv, NumbersInv, clock' \in Nat, clock <= clock', UNCHANGED instances
    PROVE  InstancesInv'
<1>1. instances.time \in Nat
  BY SoundTypes DEF InstancesInv, Times
<1>2. instances.time <= clock'
  BY <1>1 DEF InstancesInv, NumbersInv, Times
<1> QED BY <1>2 DEF InstancesInv

\* The times in a sequence of items.
LEMMA ToSetOfAppend ==
    ASSUME NEW s \in Seq(Times), NEW t \in Times
    PROVE  ToSet(Append(s, t)) = ToSet(s) \cup {t}
<1>1. Append(s, t) \in Seq(Times) /\ Len(Append(s, t)) = Len(s) + 1 /\ Len(s) \in Nat
  OBVIOUS
<1>2. /\ \A i \in 1 .. Len(s) : Append(s, t)[i] = s[i]
      /\ Append(s, t)[Len(s) + 1] = t
  OBVIOUS
<1>3. DOMAIN Append(s, t) = DOMAIN s \cup {Len(s) + 1} /\ DOMAIN s = 1 .. Len(s)
  BY <1>1
<1> DEFINE a == Append(s, t)
<1> HIDE DEF a
<1>4. DOMAIN a = DOMAIN s \cup {Len(s) + 1} /\ a[Len(s) + 1] = t
      /\ \A i \in DOMAIN s : a[i] = s[i]
  BY <1>2, <1>3 DEF a
<1>5. {a[i] : i \in DOMAIN a} = {s[i] : i \in DOMAIN s} \cup {t}
  BY <1>4
<1> QED BY <1>5 DEF ToSet, a

LEMMA ToSetOfStamps ==
    ASSUME NEW n \in Nat, NEW t \in Times
    PROVE  ToSet(Stamps(n, t)) = IF n = 0 THEN {} ELSE {t}
<1>1. DOMAIN Stamps(n, t) = 1 .. n /\ \A i \in 1 .. n : Stamps(n, t)[i] = t
  BY DEF Stamps
<1>2. n # 0 => 1 \in 1 .. n
  OBVIOUS
<1>3. n = 0 => 1 .. n = {}
  OBVIOUS
<1> QED BY <1>1, <1>2, <1>3 DEF ToSet

\* Changes of the points that have a record invalidate the normals.
LEMMA PointsChanged ==
    ASSUME NumbersInv, Change, normals' = 0, Sound(points'), points'.time = clock',
           Len(points'.items) <= MaxPoints, BoundsFresh'
    PROVE  PointsInv'
<1>1. clock' \in Nat
  BY NextTime DEF Times
<1>2. points'.time <= clock'
  BY <1>1
<1> QED BY <1>2 DEF PointsInv

LEMMA AddPointKeeps ==
    ASSUME GpuGiven, NumbersInv, PointsInv, AddPoint
    PROVE  PointsInv' /\ points'.time = clock' /\ Rewrites(points.items, points'.items, clock')
           /\ Len(points'.items) = Count + 1
<1> DEFINE t == clock'
<1>1. Change /\ Sound(points) /\ Len(points.items) < MaxPoints
  BY DEF AddPoint, PointsInv
<1>2. t \in Times /\ points.time < t
  BY <1>1, NextTime, PointsTypes
<1>3. points' = Recorded(points, Append(points.items, t), t, 0, Count + 1, TRUE)
  BY DEF AddPoint, Count
<1>4. 0 \in 0 .. MaxPoints /\ Count + 1 \in 0 .. MaxPoints /\ Count \in 0 .. 0 + (Count + 1) - 1
  BY <1>1, PointsTypes DEF GpuGiven, Count
<1> HIDE DEF t
<1>5. \A full \in BOOLEAN :
          LET y == Recorded(points, Append(points.items, t), t, 0, Count + 1, full)
          IN  /\ Sound(y) /\ y.time = t /\ y.items = Append(points.items, t)
              /\ Len(y.items) = Count + 1 /\ Rewrites(points.items, y.items, t)
  BY <1>1, <1>2, <1>4, AppendedSound DEF Count
<1>6. /\ Sound(points') /\ points'.time = t /\ points'.items = Append(points.items, t)
      /\ Len(points'.items) = Count + 1 /\ Rewrites(points.items, points'.items, t)
  BY <1>3, <1>5
<1>7. BoundsFresh'
  <2>1. ToSet(points'.items) = ToSet(points.items) \cup {t}
    BY <1>2, <1>6, ToSetOfAppend, PointsTypes
  <2>2. bounds' = IF bounds = None THEN None ELSE bounds \cup {t}
    BY DEF AddPoint, t
  <2>3. bounds # None => bounds = ToSet(points.items)
    BY DEF PointsInv, BoundsFresh
  <2> QED BY <2>1, <2>2, <2>3 DEF BoundsFresh
<1>8. normals' = 0
  BY DEF AddPoint
<1>9. Len(points'.items) <= MaxPoints
  BY <1>4, <1>6
<1> QED BY <1>1, <1>6, <1>7, <1>8, <1>9, PointsChanged DEF t

LEMMA SetPointsKeeps ==
    ASSUME GpuGiven, NumbersInv, PointsInv, NEW n \in 0 .. MaxPoints, SetPoints(n)
    PROVE  PointsInv' /\ points'.time = clock' /\ Rewrites(points.items, points'.items, clock')
           /\ Len(points'.items) = n
<1> DEFINE t == clock'
<1>1. Change /\ Sound(points)
  BY DEF SetPoints, PointsInv
<1>2. t \in Times /\ points.time < t
  BY <1>1, NextTime, PointsTypes
<1>3. points' = Recorded(points, Stamps(n, t), t, 0, n, TRUE)
  BY DEF SetPoints
<1> HIDE DEF t
<1>4. \A full \in BOOLEAN :
          LET y == Recorded(points, Stamps(n, t), t, 0, n, full)
          IN  /\ Sound(y) /\ y.time = t /\ y.items = Stamps(n, t)
              /\ Len(y.items) = n /\ Rewrites(points.items, y.items, t)
  BY <1>1, <1>2, StampedSound
<1>5. /\ Sound(points') /\ points'.time = t /\ points'.items = Stamps(n, t)
      /\ Len(points'.items) = n /\ Rewrites(points.items, points'.items, t)
  BY <1>3, <1>4
<1>6. BoundsFresh'
  <2>1. ToSet(points'.items) = IF n = 0 THEN {} ELSE {t}
    BY <1>2, <1>5, ToSetOfStamps
  <2>2. bounds' = IF n = 0 THEN {} ELSE {t}
    BY DEF SetPoints, t
  <2> QED BY <2>1, <2>2 DEF BoundsFresh
<1>7. normals' = 0
  BY DEF SetPoints
<1>8. Len(points'.items) <= MaxPoints
  BY <1>5 DEF GpuGiven
<1> QED BY <1>1, <1>5, <1>6, <1>7, <1>8, PointsChanged DEF t

LEMMA SetPointsRangeKeeps ==
    ASSUME GpuGiven, NumbersInv, PointsInv, NEW r \in Ranges(Count), SetPointsRange(r)
    PROVE  PointsInv' /\ points'.time = clock' /\ Rewrites(points.items, points'.items, clock')
           /\ Len(points'.items) = Count
<1> DEFINE t == clock'
<1>1. Change /\ Sound(points) /\ Len(points.items) <= MaxPoints
  BY DEF SetPointsRange, PointsInv
<1>2. t \in Times /\ points.time < t
  BY <1>1, NextTime, PointsTypes
<1>3. points' = Recorded(points, Written(points.items, r, t), t, r[1], r[2], FALSE)
  BY DEF SetPointsRange
<1> HIDE DEF t
<1>4. \A full \in BOOLEAN :
          LET y == Recorded(points, Written(points.items, r, t), t, r[1], r[2], full)
          IN  /\ Sound(y) /\ y.time = t /\ y.items = Written(points.items, r, t)
              /\ Len(y.items) = Count /\ Rewrites(points.items, y.items, t)
  BY <1>1, <1>2, WrittenSound DEF Count
<1>5. /\ Sound(points') /\ points'.time = t
      /\ Len(points'.items) = Count /\ Rewrites(points.items, points'.items, t)
  BY <1>3, <1>4
<1>6. BoundsFresh'
  BY DEF SetPointsRange, BoundsFresh
<1>7. normals' = 0
  BY DEF SetPointsRange
<1>8. Len(points'.items) <= MaxPoints
  BY <1>1, <1>5 DEF Count
<1> QED BY <1>1, <1>5, <1>6, <1>7, <1>8, PointsChanged DEF t

LEMMA ComputeNormalsKeeps ==
    ASSUME NumbersInv, PointsInv, ComputeNormals
    PROVE  PointsInv' /\ points'.time = clock' /\ points'.items = points.items
<1> DEFINE t == clock'
<1>1. Change /\ Sound(points) /\ Len(points.items) <= MaxPoints
  BY DEF ComputeNormals, PointsInv
<1>2. t \in Times /\ t \in Nat /\ points.time < t
  BY <1>1, NextTime, PointsTypes DEF Times
<1>3. points' = Touched(points, t) /\ normals' = t /\ bounds' = bounds
  BY DEF ComputeNormals
<1> HIDE DEF t
<1>4. /\ Sound(points') /\ points'.time = t /\ points'.items = points.items
      /\ \A j \in DOMAIN points'.history : points'.history[j].time < t
  BY <1>1, <1>2, <1>3, TouchedSound
<1>5. BoundsFresh'
  BY <1>3, <1>4 DEF PointsInv, BoundsFresh
<1>6. points'.time <= t
  BY <1>2, <1>4
<1> QED BY <1>1, <1>2, <1>3, <1>4, <1>5, <1>6 DEF PointsInv, t

LEMMA AddCellKeeps ==
    ASSUME NumbersInv, PointsInv, NEW polygon \in BOOLEAN, AddCell(polygon)
    PROVE  /\ PointsInv' /\ points'.items = points.items
           /\ points'.time = clock' \/ UNCHANGED <<points, normals>>
<1> DEFINE t == clock'
<1>1. Change /\ Sound(points) /\ Len(points.items) <= MaxPoints
  BY DEF AddCell, PointsInv
<1>2. t \in Times /\ t \in Nat /\ points.time < t /\ clock <= t
  BY <1>1, NextTime, PointsTypes DEF Times
<1>3. CASE polygon
  <2>1. points' = Touched(points, t) /\ normals' = 0 /\ bounds' = bounds
    BY <1>3 DEF AddCell
  <2>2. Sound(points') /\ points'.time = t /\ points'.items = points.items
    <3> HIDE DEF t
    <3> QED BY <1>1, <1>2, <2>1, TouchedSound
  <2>3. BoundsFresh'
    BY <2>1, <2>2 DEF PointsInv, BoundsFresh
  <2> QED BY <1>1, <2>1, <2>2, <2>3, PointsChanged
<1>4. CASE ~polygon
  <2>1. UNCHANGED <<points, normals, bounds>>
    BY <1>4 DEF AddCell
  <2> QED BY <1>2, <2>1, PointsFrame
<1> QED BY <1>3, <1>4

LEMMA ClearKeeps ==
    ASSUME GpuGiven, NumbersInv, PointsInv, Clear
    PROVE  PointsInv' /\ points'.time = clock' /\ points'.items = <<>>
<1> DEFINE t == clock'
           x == [points EXCEPT !.items = <<>>]
<1>1. Change /\ Sound(points)
  BY DEF Clear, PointsInv
<1>2. t \in Times /\ points.time < t
  BY <1>1, NextTime, PointsTypes
<1>3. points' = Touched(x, t) /\ normals' = 0 /\ bounds' = {}
  BY DEF Clear
<1>4. Sound(x) /\ x.time = points.time /\ x.items = <<>>
  BY <1>1, EmptiedSound
<1> HIDE DEF t, x
<1>5. Sound(points') /\ points'.time = t /\ points'.items = <<>>
  BY <1>2, <1>3, <1>4, TouchedSound
<1>6. ToSet(<<>>) = {}
  BY DEF ToSet
<1>7. BoundsFresh'
  BY <1>3, <1>5, <1>6 DEF BoundsFresh
<1>8. Len(points'.items) <= MaxPoints
  BY <1>5 DEF GpuGiven
<1> QED BY <1>1, <1>3, <1>5, <1>7, <1>8, PointsChanged DEF t

LEMMA ScalarsTypes ==
    ASSUME ScalarsInv, NumbersInv, scalars # None
    PROVE  /\ Sound(scalars.data) /\ scalars.data.time \in Nat /\ scalars.data.items \in Seq(Times)
           /\ scalars.address \in {1, 2}
           /\ Len(scalars.data.items) \in Nat
           /\ DOMAIN scalars.data.items = 1 .. Len(scalars.data.items)
           /\ \A i \in 1 .. Len(scalars.data.items) :
                 /\ scalars.data.items[i] \in Times
                 /\ scalars.data.items[i] <= scalars.data.time
           /\ scalars.data.time <= clock
<1>1. Sound(scalars.data) /\ scalars.data.time <= clock /\ scalars.address \in {1, 2}
  BY DEF ScalarsInv
<1> QED BY <1>1, SoundTypes DEF Times, Sound, Ordered

LEMMA ScalarsChanged ==
    ASSUME NumbersInv, Change, scalars' # None, scalars'.address \in {1, 2},
           scalars' = [address |-> scalars'.address, data |-> scalars'.data],
           Sound(scalars'.data), scalars'.data.time = clock',
           Len(scalars'.data.items) <= MaxPoints
    PROVE  ScalarsInv'
<1>1. clock' \in Nat
  BY NextTime DEF Times
<1>2. scalars'.data.time <= clock'
  BY <1>1
<1>3. scalars'.data \in DataRecord
  BY DEF Sound
<1>4. scalars' \in [address : {1, 2}, data : DataRecord]
  BY <1>3
<1> QED BY <1>2, <1>4 DEF ScalarsInv

LEMMA SetScalarsKeeps ==
    ASSUME GpuGiven, NumbersInv, PointsInv, NEW a \in {1, 2}, SetScalars(a, FALSE)
    PROVE  /\ ScalarsInv'
           /\ scalars' # None => scalars'.address = a /\ scalars'.data = Full(Count, clock')
<1>1. scalars' = [address |-> a, data |-> Full(Count, clock')]
  BY DEF SetScalars, Count
<1>2. Change
  BY DEF SetScalars
<1>3. clock' \in Times /\ Count \in 0 .. MaxPoints
  BY <1>2, NextTime, PointsTypes DEF PointsInv, Count, GpuGiven
<1>4. /\ Sound(scalars'.data) /\ scalars'.data.time = clock'
      /\ scalars'.data.items = Stamps(Count, clock')
  BY <1>1, <1>3, FullSound
<1>5. Len(scalars'.data.items) <= MaxPoints
  <2>1. Len(Stamps(Count, clock')) = Count
    BY <1>3 DEF Stamps
  <2> QED BY <2>1, <1>3, <1>4
<1>6. scalars'.address = a /\ scalars'.data = Full(Count, clock')
      /\ scalars' = [address |-> scalars'.address, data |-> scalars'.data]
  BY <1>1
<1>7. scalars' # None => ScalarsInv'
  BY <1>2, <1>4, <1>5, <1>6, ScalarsChanged
<1>8. scalars' = None => ScalarsInv'
  BY DEF ScalarsInv
<1> QED BY <1>6, <1>7, <1>8

LEMMA SetTuplesKeeps ==
    ASSUME GpuGiven, NumbersInv, ScalarsInv, scalars # None,
           NEW r \in Ranges(Len(scalars.data.items)), SetTuples(r)
    PROVE  /\ ScalarsInv'
           /\ scalars' # None => /\ scalars'.address = scalars.address
                                 /\ Rewrites(scalars.data.items, scalars'.data.items, clock')
<1> DEFINE t == clock'
           x == scalars.data
<1>1. Change
  BY DEF SetTuples
<1>2. /\ Sound(x) /\ Len(x.items) <= MaxPoints /\ scalars.address \in {1, 2}
      /\ scalars = [address |-> scalars.address, data |-> x]
  BY DEF ScalarsInv
<1>3. t \in Times /\ x.time < t
  BY <1>1, NextTime, ScalarsTypes
<1>4. scalars' = [address |-> scalars.address,
                  data |-> Recorded(x, Written(x.items, r, t), t, r[1], r[2], FALSE)]
  BY <1>2 DEF SetTuples
<1> HIDE DEF t, x
<1>5. \A full \in BOOLEAN :
          LET y == Recorded(x, Written(x.items, r, t), t, r[1], r[2], full)
          IN  /\ Sound(y) /\ y.time = t /\ y.items = Written(x.items, r, t)
              /\ Len(y.items) = Len(x.items) /\ Rewrites(x.items, y.items, t)
  <2>1. r \in Ranges(Len(x.items))
    BY DEF x
  <2> QED BY <1>2, <1>3, <2>1, WrittenSound
<1>6. scalars'.data = Recorded(x, Written(x.items, r, t), t, r[1], r[2], FALSE)
      /\ scalars'.address = scalars.address
      /\ scalars' = [address |-> scalars'.address, data |-> scalars'.data]
  BY <1>4
<1>7. /\ Sound(scalars'.data) /\ scalars'.data.time = t /\ Len(scalars'.data.items) = Len(x.items)
      /\ Rewrites(x.items, scalars'.data.items, t)
  BY <1>5, <1>6
<1>8. scalars' # None => ScalarsInv'
  BY <1>1, <1>2, <1>6, <1>7, ScalarsChanged DEF t
<1>9. scalars' = None => ScalarsInv'
  BY DEF ScalarsInv
<1> QED BY <1>6, <1>7, <1>8, <1>9 DEF t, x

LEMMA ResizeScalarsKeeps ==
    ASSUME GpuGiven, NumbersInv, ScalarsInv, scalars # None,
           NEW n \in 0 .. MaxPoints, ResizeScalars(n)
    PROVE  /\ ScalarsInv'
           /\ scalars' # None => /\ scalars'.address = scalars.address
                                 /\ Rewrites(scalars.data.items, scalars'.data.items, clock')
<1> DEFINE t == clock'
           x == scalars.data
<1>1. Change
  BY DEF ResizeScalars
<1>2. /\ Sound(x) /\ scalars.address \in {1, 2}
      /\ scalars = [address |-> scalars.address, data |-> x]
  BY DEF ScalarsInv
<1>3. t \in Times /\ x.time < t
  BY <1>1, NextTime, ScalarsTypes
<1>4. scalars' = [address |-> scalars.address, data |-> Recorded(x, Stamps(n, t), t, 0, n, TRUE)]
  BY <1>2 DEF ResizeScalars
<1> HIDE DEF t, x
<1>5. \A full \in BOOLEAN :
          LET y == Recorded(x, Stamps(n, t), t, 0, n, full)
          IN  /\ Sound(y) /\ y.time = t /\ y.items = Stamps(n, t)
              /\ Len(y.items) = n /\ Rewrites(x.items, y.items, t)
  BY <1>2, <1>3, StampedSound
<1>6. scalars'.data = Recorded(x, Stamps(n, t), t, 0, n, TRUE)
      /\ scalars'.address = scalars.address
      /\ scalars' = [address |-> scalars'.address, data |-> scalars'.data]
  BY <1>4
<1>7. /\ Sound(scalars'.data) /\ scalars'.data.time = t /\ Len(scalars'.data.items) = n
      /\ Rewrites(x.items, scalars'.data.items, t)
  BY <1>5, <1>6
<1>10. Len(scalars'.data.items) <= MaxPoints
  BY <1>7 DEF GpuGiven
<1>8. scalars' # None => ScalarsInv'
  BY <1>1, <1>2, <1>6, <1>7, <1>10, ScalarsChanged DEF t
<1>9. scalars' = None => ScalarsInv'
  BY DEF ScalarsInv
<1> QED BY <1>6, <1>7, <1>8, <1>9 DEF t, x

LEMMA InstancesTypes ==
    ASSUME InstancesInv, NumbersInv
    PROVE  /\ Sound(instances) /\ instances.time \in Nat /\ instances.items \in Seq(Times)
           /\ Len(instances.items) \in Nat /\ DOMAIN instances.items = 1 .. Len(instances.items)
           /\ \A i \in 1 .. Len(instances.items) :
                 instances.items[i] \in Times /\ instances.items[i] <= instances.time
           /\ instances.time <= clock
BY SoundTypes DEF InstancesInv, Times, Sound, Ordered

LEMMA InstancesChanged ==
    ASSUME NumbersInv, Change, Sound(instances'), instances'.time = clock',
           Len(instances'.items) <= MaxPoints
    PROVE  InstancesInv'
<1>1. clock' \in Nat
  BY NextTime DEF Times
<1>2. instances'.time <= clock'
  BY <1>1
<1> QED BY <1>2 DEF InstancesInv

ChangesInstances ==
    \/ AddInstance \/ ClearInstances
    \/ \E r \in Ranges(Len(instances.items)) : SetInstances(r)
    \/ \E n \in 0 .. MaxPoints : BuildInstances(n)

LEMMA InstancesKept ==
    ASSUME GpuGiven, NumbersInv, InstancesInv, ChangesInstances
    PROVE  /\ InstancesInv' /\ Rewrites(instances.items, instances'.items, clock')
           /\ instances'.time = clock'
<1> DEFINE t == clock'
<1>1. Change /\ Sound(instances) /\ Len(instances.items) <= MaxPoints
  BY DEF ChangesInstances, AddInstance, ClearInstances, SetInstances, BuildInstances, InstancesInv
<1>2. t \in Times /\ instances.time < t
  BY <1>1, NextTime, InstancesTypes
<1>3. Len(instances.items) \in Nat /\ MaxPoints \in Nat
  BY InstancesTypes DEF GpuGiven
<1> SUFFICES /\ Sound(instances') /\ instances'.time = t /\ Len(instances'.items) <= MaxPoints
             /\ Rewrites(instances.items, instances'.items, t)
  BY <1>1, InstancesChanged
<1>4. CASE AddInstance
  <2>1. Len(instances.items) < MaxPoints
    BY <1>4 DEF AddInstance
  <2>2. instances' = Recorded(instances, Append(instances.items, t), t, Len(instances.items), 1, FALSE)
    BY <1>4 DEF AddInstance
  <2>3. /\ Len(instances.items) \in 0 .. MaxPoints /\ 1 \in 0 .. MaxPoints
        /\ Len(instances.items) \in Len(instances.items) .. Len(instances.items) + 1 - 1
    BY <1>3, <2>1
  <2> HIDE DEF t
  <2>4. \A full \in BOOLEAN :
            LET y == Recorded(instances, Append(instances.items, t), t, Len(instances.items), 1, full)
            IN  /\ Sound(y) /\ y.time = t /\ y.items = Append(instances.items, t)
                /\ Len(y.items) = Len(instances.items) + 1 /\ Rewrites(instances.items, y.items, t)
    BY <1>1, <1>2, <2>1, <2>3, AppendedSound
  <2>5. /\ Sound(instances') /\ instances'.time = t
        /\ Len(instances'.items) = Len(instances.items) + 1
        /\ Rewrites(instances.items, instances'.items, t)
    BY <2>2, <2>4
  <2> QED BY <2>5, <2>1, <1>3
<1>5. CASE ClearInstances
  <2>1. instances' = Recorded(instances, Stamps(0, t), t, 0, 0, TRUE)
    BY <1>5, NoStamps DEF ClearInstances
  <2>2. 0 \in 0 .. MaxPoints
    BY <1>3
  <2> HIDE DEF t
  <2>3. \A full \in BOOLEAN :
            LET y == Recorded(instances, Stamps(0, t), t, 0, 0, full)
            IN  /\ Sound(y) /\ y.time = t /\ y.items = Stamps(0, t)
                /\ Len(y.items) = 0 /\ Rewrites(instances.items, y.items, t)
    BY <1>1, <1>2, <2>2, StampedSound
  <2>4. /\ Sound(instances') /\ instances'.time = t /\ Len(instances'.items) = 0
        /\ Rewrites(instances.items, instances'.items, t)
    BY <2>1, <2>3
  <2> QED BY <2>4, <1>3
<1>6. CASE \E r \in Ranges(Len(instances.items)) : SetInstances(r)
  <2>1. PICK r \in Ranges(Len(instances.items)) : SetInstances(r)
    BY <1>6
  <2>2. instances' = Recorded(instances, Written(instances.items, r, t), t, r[1], r[2], FALSE)
    BY <2>1 DEF SetInstances
  <2> HIDE DEF t
  <2>3. \A full \in BOOLEAN :
            LET y == Recorded(instances, Written(instances.items, r, t), t, r[1], r[2], full)
            IN  /\ Sound(y) /\ y.time = t /\ y.items = Written(instances.items, r, t)
                /\ Len(y.items) = Len(instances.items) /\ Rewrites(instances.items, y.items, t)
    BY <1>1, <1>2, WrittenSound
  <2>4. /\ Sound(instances') /\ instances'.time = t
        /\ Len(instances'.items) = Len(instances.items)
        /\ Rewrites(instances.items, instances'.items, t)
    BY <2>2, <2>3
  <2> QED BY <2>4, <1>1
<1>7. CASE \E n \in 0 .. MaxPoints : BuildInstances(n)
  <2>1. PICK n \in 0 .. MaxPoints : BuildInstances(n)
    BY <1>7
  <2>2. instances' = Full(n, t)
    BY <2>1 DEF BuildInstances
  <2>3. Sound(instances') /\ instances'.time = t /\ instances'.items = Stamps(n, t)
    BY <1>2, <2>2, FullSound
  <2>4. /\ Len(Stamps(n, t)) = n /\ n <= MaxPoints
        /\ \A i \in DOMAIN Stamps(n, t) : Stamps(n, t)[i] = t
    BY <1>3 DEF Stamps
  <2>5. Rewrites(instances.items, instances'.items, t)
    BY <2>3, <2>4 DEF Rewrites
  <2> QED BY <2>3, <2>4, <2>5
<1> QED BY <1>4, <1>5, <1>6, <1>7 DEF ChangesInstances

LEMMA NumbersKept ==
    ASSUME NumbersInv, clock' \in Times, clock <= clock', drawn' \in BOOLEAN, cells' \in {0, 1},
           topology' \in {topology, clock'}, attributes' \in {attributes, clock'},
           opacities' \in {opacities, clock'},
           look' \in Looks, look'.time \in {look.time, clock'}
    PROVE  NumbersInv'
<1>1. /\ topology \in Nat /\ attributes \in Nat /\ opacities \in Nat /\ look.time \in Nat
      /\ clock \in Nat /\ clock' \in Nat
  BY DEF NumbersInv, Looks, Times
<1>2. /\ topology' \in Times /\ attributes' \in Times /\ opacities' \in Times
      /\ topology' <= clock' /\ attributes' <= clock' /\ opacities' <= clock'
      /\ look'.time <= clock'
  BY <1>1 DEF NumbersInv
<1> QED BY <1>2 DEF NumbersInv

\* Steps of the data change nothing else than the data and the clock.
Changed == Change /\ NumbersInv'

LEMMA ChangeKeepsNumbers ==
    ASSUME NumbersInv, Change, cells' \in {0, 1},
           topology' \in {topology, clock'}, attributes' \in {attributes, clock'},
           opacities' \in {opacities, clock'},
           look' = look \/ (look' \in Looks /\ look'.time = clock')
    PROVE  Changed
<1>1. look' \in Looks /\ look'.time \in {look.time, clock'}
  BY DEF NumbersInv
<1>2. clock' \in Times /\ clock <= clock' /\ drawn' \in BOOLEAN
  BY NextTime
<1> QED BY <1>1, <1>2, NumbersKept DEF Changed

\* The steps of the points and cells, of what colours them, and of the device.
ChangesPoints ==
    \/ AddPoint \/ ComputeNormals
    \/ \E n \in 0 .. MaxPoints : SetPoints(n)
    \/ \E r \in Ranges(Count) : SetPointsRange(r)
ChangesScalars ==
    \/ \E a \in {1, 2} : SetScalars(a, FALSE)
    \/ scalars # None /\ \E r \in Ranges(Len(scalars.data.items)) : SetTuples(r)
    \/ scalars # None /\ \E n \in 0 .. MaxPoints : ResizeScalars(n)
ChangesLook == SetLook(look) \/ \E f \in Setters : SetLook([look EXCEPT ![f] = ~@])

LEMMA StepCases ==
    ASSUME ~ExternalArrays, Next
    PROVE  \/ ChangesPoints \/ (\E polygon \in BOOLEAN : AddCell(polygon)) \/ Clear
           \/ ChangesScalars \/ SetOpacities \/ ChangesLook
           \/ ChangesInstances
           \/ AskBounds \/ EnsureMesh \/ EnsureGlyphs \/ Destroy
<1>1. ASSUME NEW a \in {1, 2}, NEW e \in {FALSE, ExternalArrays}, SetScalars(a, e)
      PROVE  ChangesScalars
  <2>1. CASE e = FALSE
    BY <1>1, <2>1 DEF ChangesScalars
  <2>2. CASE e = ExternalArrays
    <3>1. scalars' = [address |-> a, data |-> Full(Len(points.items), clock')]
      BY <1>1, <2>2 DEF SetScalars
    <3>2. SetScalars(a, FALSE)
      BY <1>1, <3>1 DEF SetScalars
    <3> QED BY <3>2 DEF ChangesScalars
  <2> QED BY <2>1, <2>2
<1>2. CASE \/ AddPoint \/ ComputeNormals \/ (\E n \in 0 .. MaxPoints : SetPoints(n))
           \/ \E r \in Ranges(Count) : SetPointsRange(r)
  BY <1>2 DEF ChangesPoints
<1>3. CASE /\ surface = "mesh"
           /\ \/ SetOpacities
              \/ \E a \in {1, 2}, e \in {FALSE, ExternalArrays} : SetScalars(a, e)
              \/ /\ scalars # None
                 /\ \/ \E r \in Ranges(Len(scalars.data.items)) : SetTuples(r)
                    \/ \E n \in 0 .. MaxPoints : ResizeScalars(n)
              \/ SetLook(look)
              \/ \E f \in Setters : SetLook([look EXCEPT ![f] = ~@])
  BY <1>1, <1>3, Zenon DEF ChangesScalars, ChangesLook
<1>4. CASE /\ surface = "glyphs"
           /\ \/ AddInstance \/ ClearInstances
              \/ \E r \in Ranges(Len(instances.items)) : SetInstances(r)
              \/ \E n \in 0 .. MaxPoints : BuildInstances(n)
  BY <1>4, Zenon DEF ChangesInstances
<1> QED BY <1>2, <1>3, <1>4, Zenon DEF Next

\* What a step of the data leaves.
LEMMA PointsStep ==
    ASSUME GpuGiven, DataInv, ChangesPoints
    PROVE  /\ Changed /\ PointsInv' /\ points'.time = clock'
           /\ Rewrites(points.items, points'.items, clock')
           /\ cells = 1 => Len(points'.items) = Count \/ Len(points'.items) = Count + 1
           /\ UNCHANGED geometryOnly
<1> USE DEF DataInv
<1>0. Count \in Nat /\ \A i \in DOMAIN points.items : i \in DOMAIN points.items
  BY PointsTypes
<1>1. CASE AddPoint
  <2>1. Change /\ UNCHANGED geometryOnly
    BY <1>1 DEF AddPoint
  <2>2. Changed
    BY <2>1, ChangeKeepsNumbers DEF geometryOnly, NumbersInv
  <2> QED BY <1>1, <2>1, <2>2, AddPointKeeps
<1>2. CASE ComputeNormals
  <2>1. Change /\ UNCHANGED geometryOnly
    BY <1>2 DEF ComputeNormals
  <2>2. Changed
    BY <2>1, ChangeKeepsNumbers DEF geometryOnly, NumbersInv
  <2>3. PointsInv' /\ points'.time = clock' /\ points'.items = points.items
    BY <1>2, ComputeNormalsKeeps
  <2>4. Rewrites(points.items, points'.items, clock') /\ Len(points'.items) = Count
    BY <2>3 DEF Rewrites, Count
  <2> QED BY <2>1, <2>2, <2>3, <2>4
<1>3. CASE \E n \in 0 .. MaxPoints : SetPoints(n)
  <2>0. PICK n \in 0 .. MaxPoints : SetPoints(n)
    BY <1>3
  <2>1. Change /\ UNCHANGED geometryOnly /\ (cells > 0 => n = Count)
    BY <2>0 DEF SetPoints, Count
  <2>2. Changed
    BY <2>1, ChangeKeepsNumbers DEF geometryOnly, NumbersInv
  <2>3. /\ PointsInv' /\ points'.time = clock' /\ Rewrites(points.items, points'.items, clock')
        /\ Len(points'.items) = n
    BY <2>0, SetPointsKeeps
  <2> QED BY <2>1, <2>2, <2>3
<1>4. CASE \E r \in Ranges(Count) : SetPointsRange(r)
  <2>0. PICK r \in Ranges(Count) : SetPointsRange(r)
    BY <1>4
  <2>1. Change /\ UNCHANGED geometryOnly
    BY <2>0 DEF SetPointsRange
  <2>2. Changed
    BY <2>1, ChangeKeepsNumbers DEF geometryOnly, NumbersInv
  <2>3. /\ PointsInv' /\ points'.time = clock' /\ Rewrites(points.items, points'.items, clock')
        /\ Len(points'.items) = Count
    BY <2>0, SetPointsRangeKeeps
  <2> QED BY <2>1, <2>2, <2>3
<1> QED BY <1>1, <1>2, <1>3, <1>4 DEF ChangesPoints

LEMMA ScalarsStep ==
    ASSUME GpuGiven, DataInv, ChangesScalars
    PROVE  /\ Changed /\ ScalarsInv' /\ attributes' = clock'
           /\ UNCHANGED <<points, normals, bounds, cells, topology, opacities, look, instances>>
           /\ \/ /\ scalars # None /\ scalars' # None => scalars'.address = scalars.address
                 /\ scalars # None
                 /\ scalars' # None =>
                        Rewrites(scalars.data.items, scalars'.data.items, clock')
              \/ scalars' # None => \A i \in DOMAIN scalars'.data.items :
                                        scalars'.data.items[i] = clock'
<1> USE DEF DataInv
<1> DEFINE others == <<points, normals, bounds, cells, topology, opacities, look, instances>>
<1>1. CASE \E a \in {1, 2} : SetScalars(a, FALSE)
  <2>0. PICK a \in {1, 2} : SetScalars(a, FALSE)
    BY <1>1
  <2>1. Change /\ attributes' = clock' /\ UNCHANGED others
    BY <2>0 DEF SetScalars
  <2>2. Changed
    BY <2>1, ChangeKeepsNumbers DEF NumbersInv
  <2>3. ScalarsInv' /\ (scalars' # None => scalars'.data = Full(Count, clock'))
    BY <2>0, SetScalarsKeeps
  <2>4. Full(Count, clock').items = Stamps(Count, clock')
    <3>1. clock' \in Times /\ Count \in 0 .. MaxPoints
      BY <2>1, NextTime, PointsTypes DEF PointsInv, Count, GpuGiven
    <3> QED BY <3>1, FullSound
  <2>5. \A i \in DOMAIN Stamps(Count, clock') : Stamps(Count, clock')[i] = clock'
    BY DEF Stamps
  <2> QED BY <2>1, <2>2, <2>3, <2>4, <2>5
<1>2. CASE scalars # None /\ \E r \in Ranges(Len(scalars.data.items)) : SetTuples(r)
  <2>0. PICK r \in Ranges(Len(scalars.data.items)) : SetTuples(r)
    BY <1>2
  <2>1. Change /\ attributes' = clock' /\ UNCHANGED others
    BY <2>0 DEF SetTuples
  <2>2. Changed
    BY <2>1, ChangeKeepsNumbers DEF NumbersInv
  <2> QED BY <1>2, <2>0, <2>1, <2>2, SetTuplesKeeps
<1>3. CASE scalars # None /\ \E n \in 0 .. MaxPoints : ResizeScalars(n)
  <2>0. PICK n \in 0 .. MaxPoints : ResizeScalars(n)
    BY <1>3
  <2>1. Change /\ attributes' = clock' /\ UNCHANGED others
    BY <2>0 DEF ResizeScalars
  <2>2. Changed
    BY <2>1, ChangeKeepsNumbers DEF NumbersInv
  <2> QED BY <1>3, <2>0, <2>1, <2>2, ResizeScalarsKeeps
<1> QED BY <1>1, <1>2, <1>3 DEF ChangesScalars

LEMMA LookStep ==
    ASSUME DataInv, ChangesLook
    PROVE  /\ Changed /\ look'.time = clock' /\ look' \in Looks
           /\ UNCHANGED <<points, normals, bounds, cells, topology, attributes, scalars, opacities,
                          instances>>
<1>1. PICK new : SetLook(new) /\ new \in Looks
  <2>1. look \in Looks /\ \A f \in Setters : [look EXCEPT ![f] = ~@] \in Looks
    BY DEF DataInv, NumbersInv, Looks, Setters
  <2> QED BY <2>1 DEF ChangesLook
<1>2. Change /\ look' = [new EXCEPT !.time = clock']
      /\ UNCHANGED <<points, normals, bounds, cells, topology, attributes, scalars, opacities,
                     instances>>
  BY <1>1 DEF SetLook
<1>3. clock' \in Times
  BY <1>2, NextTime DEF DataInv
<1>4. look' \in Looks /\ look'.time = clock'
  BY <1>1, <1>2, <1>3 DEF Looks
<1>5. Changed
  BY <1>2, <1>4, ChangeKeepsNumbers DEF DataInv, NumbersInv
<1> QED BY <1>2, <1>4, <1>5

LEMMA CellStep ==
    ASSUME DataInv, \E polygon \in BOOLEAN : AddCell(polygon)
    PROVE  /\ Changed /\ PointsInv' /\ points'.items = points.items
           /\ points'.time = clock' \/ UNCHANGED <<points, normals>>
           /\ topology' = clock' /\ cells = 0 /\ cells' = 1
           /\ UNCHANGED <<attributes, scalars, opacities, look, instances>>
<1>1. PICK polygon \in BOOLEAN : AddCell(polygon)
  OBVIOUS
<1>2. /\ Change /\ topology' = clock' /\ cells = 0 /\ cells' = 1
      /\ UNCHANGED <<attributes, scalars, opacities, look, instances>>
  BY <1>1 DEF AddCell
<1>3. Changed
  BY <1>2, ChangeKeepsNumbers DEF DataInv
<1> QED BY <1>1, <1>2, <1>3, AddCellKeeps DEF DataInv

LEMMA ClearStep ==
    ASSUME GpuGiven, DataInv, Clear
    PROVE  /\ Changed /\ PointsInv' /\ points'.time = clock' /\ points'.items = <<>>
           /\ topology' = clock' /\ attributes' = clock' /\ cells' = 0 /\ scalars' = None
           /\ UNCHANGED <<opacities, look, instances>>
<1>1. /\ Change /\ topology' = clock' /\ attributes' = clock' /\ cells' = 0 /\ scalars' = None
      /\ UNCHANGED <<opacities, look, instances>>
  BY DEF Clear
<1>2. Changed
  BY <1>1, ChangeKeepsNumbers DEF DataInv
<1> QED BY <1>1, <1>2, ClearKeeps DEF DataInv

LEMMA OpacitiesStep ==
    ASSUME DataInv, SetOpacities
    PROVE  /\ Changed /\ attributes' = clock'
           /\ UNCHANGED <<points, normals, bounds, cells, topology, scalars, look, instances>>
<1>1. /\ Change /\ attributes' = clock' /\ opacities' = clock'
      /\ UNCHANGED <<points, normals, bounds, cells, topology, scalars, look, instances>>
  BY DEF SetOpacities
<1>2. Changed
  BY <1>1, ChangeKeepsNumbers DEF DataInv, NumbersInv
<1> QED BY <1>1, <1>2

LEMMA InstancesStep ==
    ASSUME GpuGiven, DataInv, ChangesInstances
    PROVE  /\ Changed /\ InstancesInv' /\ instances'.time = clock'
           /\ Rewrites(instances.items, instances'.items, clock')
           /\ UNCHANGED instancesOnly
<1>1. Change /\ UNCHANGED instancesOnly
  BY DEF ChangesInstances, AddInstance, ClearInstances, SetInstances, BuildInstances
<1>2. Changed
  BY <1>1, ChangeKeepsNumbers DEF DataInv, NumbersInv, instancesOnly
<1> QED BY <1>1, <1>2, InstancesKept DEF DataInv

\* The device looks for a range of colours, which is a change of the look.
LEMMA MeshStep ==
    ASSUME DataInv, EnsureMesh
    PROVE  /\ NumbersInv' /\ clock <= clock' /\ look'.time <= clock'
           /\ look' = look \/ (look' = [look EXCEPT !.range = TRUE, !.time = clock'] /\ look'.time > look.time)
           /\ look' # look => ~Reusable \/ RebuildsColours(mesh)
           /\ UNCHANGED <<points, normals, bounds, cells, topology, attributes, scalars, opacities,
                          instances>>
<1>0. clock \in Nat /\ look \in Looks /\ look.time <= clock /\ look.time \in Nat
  BY DEF DataInv, NumbersInv, Looks, Times
<1>1. /\ drawn' = TRUE
      /\ UNCHANGED <<points, normals, bounds, cells, topology, attributes, scalars, opacities,
                     instances>>
  BY DEF EnsureMesh
<1>2. CASE Ranged /\ (~Reusable \/ RebuildsColours(mesh))
  <2>1. look' = [look EXCEPT !.range = TRUE, !.time = clock + 1] /\ clock' = clock + 1
    BY <1>2 DEF EnsureMesh, RangedLook
  <2>2. /\ look' = [look EXCEPT !.range = TRUE, !.time = clock']
        /\ look' \in Looks /\ look'.time = clock' /\ clock' \in Times /\ clock <= clock'
        /\ look'.time > look.time /\ look'.time <= clock'
    <3>1. clock' = clock + 1 /\ clock' \in Nat /\ clock' > 0 /\ clock <= clock' /\ look.time < clock'
      BY <2>1, <1>0
    <3>2. clock' \in Times
      BY <3>1 DEF Times
    <3>3. look' = [look EXCEPT !.range = TRUE, !.time = clock']
      BY <2>1
    <3>4. look' \in Looks /\ look'.time = clock'
      BY <3>2, <3>3, <1>0 DEF Looks
    <3> QED BY <3>1, <3>2, <3>3, <3>4, <1>0
  <2>3. NumbersInv'
    BY <1>1, <2>2, NumbersKept DEF DataInv, NumbersInv
  <2> QED BY <1>1, <1>2, <2>2, <2>3
<1>3. CASE ~(Ranged /\ (~Reusable \/ RebuildsColours(mesh)))
  <2>1. UNCHANGED <<look, clock>>
    BY <1>3 DEF EnsureMesh
  <2>2. clock' \in Times /\ clock <= clock' /\ look'.time <= clock'
    BY <2>1, <1>0 DEF DataInv, NumbersInv
  <2>3. NumbersInv'
    BY <1>1, <2>1, <2>2 DEF DataInv, NumbersInv
  <2> QED BY <1>1, <2>1, <2>2, <2>3
<1> QED BY <1>2, <1>3

LEMMA DataKept ==
    ASSUME GpuGiven, ~ExternalArrays, DataInv, Next
    PROVE  DataInv'
<1>c. ASSUME Changed PROVE NumbersInv' /\ clock' \in Nat /\ clock <= clock'
  BY <1>c, NextTime DEF Changed, DataInv, Times
<1>d. NumbersInv /\ PointsInv /\ ScalarsInv /\ InstancesInv
  BY DEF DataInv
<1>1. CASE ChangesPoints
  <2>1. Changed /\ PointsInv' /\ UNCHANGED geometryOnly
    BY <1>1, PointsStep
  <2> QED BY <1>c, <1>d, <2>1, ScalarsFrame, InstancesFrame DEF DataInv, geometryOnly
<1>2. CASE \E polygon \in BOOLEAN : AddCell(polygon)
  <2>1. Changed /\ PointsInv' /\ UNCHANGED <<attributes, scalars, opacities, look, instances>>
    BY <1>2, CellStep
  <2> QED BY <1>c, <1>d, <2>1, ScalarsFrame, InstancesFrame DEF DataInv
<1>3. CASE Clear
  <2>1. Changed /\ PointsInv' /\ scalars' = None /\ UNCHANGED <<opacities, look, instances>>
    BY <1>3, ClearStep
  <2>2. ScalarsInv'
    BY <2>1 DEF ScalarsInv
  <2> QED BY <1>c, <1>d, <2>1, <2>2, InstancesFrame DEF DataInv
<1>4. CASE ChangesScalars
  <2>1. Changed /\ ScalarsInv' /\ UNCHANGED <<points, normals, bounds, instances>>
    BY <1>4, ScalarsStep
  <2> QED BY <1>c, <1>d, <2>1, PointsFrame, InstancesFrame DEF DataInv
<1>5. CASE SetOpacities
  <2>1. Changed /\ UNCHANGED <<points, normals, bounds, scalars, instances>>
    BY <1>5, OpacitiesStep
  <2> QED BY <1>c, <1>d, <2>1, PointsFrame, ScalarsFrame, InstancesFrame DEF DataInv
<1>6. CASE ChangesLook
  <2>1. Changed /\ UNCHANGED <<points, normals, bounds, scalars, instances>>
    BY <1>6, LookStep
  <2> QED BY <1>c, <1>d, <2>1, PointsFrame, ScalarsFrame, InstancesFrame DEF DataInv
<1>7. CASE ChangesInstances
  <2>1. Changed /\ InstancesInv' /\ UNCHANGED <<points, normals, bounds, scalars>>
    BY <1>7, InstancesStep DEF instancesOnly
  <2> QED BY <1>c, <1>d, <2>1, PointsFrame, ScalarsFrame DEF DataInv
<1>8. CASE AskBounds
  <2>1. UNCHANGED <<clock, points, normals, geometryOnly, mesh, glyphs, drawn, surface>>
        /\ bounds' = ToSet(points.items)
    BY <1>8 DEF AskBounds
  <2>2. NumbersInv' /\ clock' \in Nat /\ clock <= clock'
    BY <2>1, <1>d DEF NumbersInv, geometryOnly, Times
  <2>3. PointsInv'
    BY <2>1, <1>d DEF PointsInv, BoundsFresh
  <2> QED BY <1>d, <2>1, <2>2, <2>3, ScalarsFrame, InstancesFrame DEF DataInv, geometryOnly
<1>9. CASE EnsureMesh
  <2>1. NumbersInv' /\ clock <= clock' /\ UNCHANGED <<points, normals, bounds, scalars, instances>>
    BY <1>9, MeshStep
  <2>2. clock' \in Nat
    BY <2>1 DEF NumbersInv, Times
  <2> QED BY <1>d, <2>1, <2>2, PointsFrame, ScalarsFrame, InstancesFrame DEF DataInv
<1>10. CASE EnsureGlyphs \/ Destroy
  <2>1. /\ UNCHANGED <<clock, points, normals, bounds, cells, topology, attributes, scalars,
                       opacities, look, instances>>
        /\ drawn' \in BOOLEAN
    BY <1>10 DEF EnsureGlyphs, Destroy
  <2>2. NumbersInv' /\ clock' \in Nat /\ clock <= clock'
    BY <2>1, <1>d DEF NumbersInv, Times
  <2> QED BY <1>d, <2>1, <2>2, PointsFrame, ScalarsFrame, InstancesFrame DEF DataInv
<1> QED BY <1>1, <1>2, <1>3, <1>4, <1>5, <1>6, <1>7, <1>8, <1>9, <1>10, StepCases

LEMMA DataBegins == ASSUME GpuGiven, Init PROVE DataInv
<1>1. 1 \in Times /\ MaxPoints \in 0 .. MaxPoints /\ MaxPoints # 0
  BY DEF Times, GpuGiven
<1> DEFINE f == Full(MaxPoints, 1)
<1>2. Sound(f) /\ f.time = 1 /\ f.items = Stamps(MaxPoints, 1)
  BY <1>1, FullSound
<1>3. Len(f.items) = MaxPoints /\ ToSet(f.items) = {1}
  <2>1. MaxPoints \in Nat /\ MaxPoints # 0
    BY DEF GpuGiven
  <2>2. Len(Stamps(MaxPoints, 1)) = MaxPoints
    BY <2>1 DEF Stamps
  <2> QED BY <1>1, <1>2, <2>1, <2>2, ToSetOfStamps
<1> HIDE DEF f
<1>4. /\ points = f /\ normals = 0 /\ bounds = {1} /\ instances = f
      /\ scalars = [address |-> 1, data |-> f] /\ clock = 1
  BY DEF Init, f
<1>5. NumbersInv
  <2>1. look = [visible |-> TRUE, field |-> FALSE, opacity |-> FALSE, range |-> FALSE, time |-> 1]
    BY DEF Init
  <2>2. look \in Looks /\ look.time = 1
    BY <1>1, <2>1 DEF Looks
  <2>3. cells = 1 /\ topology = 1 /\ attributes = 1 /\ opacities = 1 /\ drawn = FALSE
    BY DEF Init
  <2>4. drawn \in BOOLEAN
    BY <2>3
  <2>5. clock \in Times /\ topology <= clock /\ attributes <= clock /\ opacities <= clock
    BY <1>1, <1>4, <2>3
  <2>6. look.time <= clock
    BY <1>4, <2>2
  <2>7. cells \in {0, 1} /\ topology \in Times /\ attributes \in Times /\ opacities \in Times
    BY <1>1, <2>3
  <2> QED BY <2>2, <2>4, <2>5, <2>6, <2>7 DEF NumbersInv
<1>6. PointsInv
  BY <1>2, <1>3, <1>4, <1>1 DEF PointsInv, BoundsFresh
<1>7. ScalarsInv
  BY <1>2, <1>3, <1>4, <1>1 DEF ScalarsInv, Sound
<1>8. InstancesInv
  BY <1>2, <1>3, <1>4, <1>1 DEF InstancesInv
<1> QED BY <1>5, <1>6, <1>7, <1>8 DEF DataInv

-----------------------------------------------------------------------------
(* The mesh while the data changes *)

LEMMA SeenRewritten ==
    ASSUME NEW buffer, NEW items, NEW changed, NEW time \in Nat, NEW t \in Nat, time < t,
           Seen(buffer, items, time), Rewrites(items, changed, t)
    PROVE  Seen(buffer, changed, time)
<1> SUFFICES ASSUME NEW i \in DOMAIN changed, changed[i] <= time
             PROVE  i \in DOMAIN buffer /\ buffer[i] = changed[i]
  BY DEF Seen
<1>1. changed[i] # t
  <2>1. ~(t <= time)
    OBVIOUS
  <2> QED BY <2>1
<1>2. i \in DOMAIN items /\ changed[i] = items[i]
  BY <1>1 DEF Rewrites
<1> QED BY <1>2 DEF Seen

LEMMA MeshUnchanged ==
    ASSUME MeshInv, UNCHANGED mesh, \A m : Kept(m) => Kept(m)'
    PROVE  MeshInv'
<1>1. PICK m : m = mesh
  OBVIOUS
<1>2. m # None => Kept(m)
  BY <1>1 DEF MeshInv, Kept, MeshTyped, GeometryKept, Grown, SameSurface, ColoursCurrent,
              ColoursSeen, ColoursVisible
<1>3. m # None => Kept(m)'
  BY <1>2
<1>4. mesh' = m
  BY <1>1
<1> QED BY <1>3, <1>4 DEF MeshInv, Kept, MeshTyped, GeometryKept, Grown, SameSurface,
                          ColoursCurrent, ColoursSeen, ColoursVisible

\* The times of a mesh are of before a change.
LEMMA MeshTimes ==
    ASSUME DataInv, NEW m, MeshTyped(m), Change
    PROVE  /\ m.geometry \in Nat /\ m.geometry <= points.time /\ m.geometry # clock'
           /\ m.geometry < clock'
           /\ m.topology # clock' /\ m.attributes # clock' /\ m.look # clock'
           /\ m.arrayTime \in Nat /\ m.arrayTime < clock'
<1>1. /\ m.geometry \in Nat /\ m.topology \in Nat /\ m.attributes \in Nat /\ m.look \in Nat
      /\ m.arrayTime \in Nat
  BY DEF MeshTyped, MeshRecord, Times
<1>2. /\ m.geometry <= points.time /\ m.topology <= clock /\ m.attributes <= clock
      /\ m.look <= clock /\ m.arrayTime <= clock
  BY DEF MeshTyped
<1>3. points.time \in Nat /\ points.time <= clock /\ clock \in Nat
  BY PointsTypes, NextTime DEF DataInv
<1>4. m.geometry <= clock
  BY <1>1, <1>2, <1>3
<1>5. \A t \in Nat : t <= clock => t < clock' /\ t # clock'
  BY NextTime DEF DataInv
<1> QED BY <1>1, <1>2, <1>4, <1>5

\* What a step must leave of a mesh that it does not touch.
LEMMA KeptByStep ==
    ASSUME DataInv, Changed, NEW m, Kept(m),
           points'.time = points.time \/ points'.time = clock',
           GeometryKept(m)', Grown(m)', ColoursCurrent(m)',
           look' = look \/ look'.time = clock',
           look' = look => ColoursSeen(m)'
    PROVE  Kept(m)'
<1>1. Change /\ clock \in Nat /\ clock' \in Nat /\ clock <= clock'
  BY NextTime DEF DataInv, Changed, Times
<1>2. MeshTyped(m) /\ (m.colours # <<>> => Len(m.colours) = Len(m.positions)) /\ ColoursVisible(m)
  BY DEF Kept
<1>3. m.geometry <= points'.time
  BY <1>1, <1>2, MeshTimes
<1>4. m.topology <= clock' /\ m.attributes <= clock' /\ m.look <= clock' /\ m.arrayTime <= clock'
  <2>1. /\ m.topology \in Nat /\ m.attributes \in Nat /\ m.look \in Nat /\ m.arrayTime \in Nat
    BY <1>2 DEF MeshTyped, MeshRecord, Times
  <2>2. m.topology <= clock /\ m.attributes <= clock /\ m.look <= clock /\ m.arrayTime <= clock
    BY <1>2 DEF MeshTyped
  <2> QED BY <2>1, <2>2, <1>1
<1>5. MeshTyped(m)'
  BY <1>2, <1>3, <1>4 DEF MeshTyped
<1>6. CASE look' = look
  <2>1. ColoursVisible(m)'
    BY <1>2, <1>6 DEF ColoursVisible
  <2> QED BY <1>2, <1>5, <1>6, <2>1 DEF Kept
<1>7. CASE look'.time = clock'
  <2>1. m.look # look'.time
    BY <1>1, <1>2, <1>7, MeshTimes
  <2>2. ColoursVisible(m)' /\ ColoursSeen(m)'
    BY <2>1 DEF ColoursVisible, ColoursSeen
  <2> QED BY <1>2, <1>5, <2>2 DEF Kept
<1> QED BY <1>6, <1>7

LEMMA GeometryFrame ==
    ASSUME NEW m, GeometryKept(m), UNCHANGED <<points, normals>>
    PROVE  GeometryKept(m)'
BY DEF GeometryKept, Count

LEMMA GeometryChanged ==
    ASSUME DataInv, Change, NEW m, MeshTyped(m), GeometryKept(m), points'.time = clock',
           Rewrites(points.items, points'.items, clock')
    PROVE  GeometryKept(m)'
<1>1. m.geometry # points'.time /\ m.geometry \in Nat /\ m.geometry < clock'
  BY MeshTimes
<1>2. clock' \in Nat
  BY NextTime DEF DataInv, Times
<1>3. Seen(m.positions, points.items, m.geometry)
  BY DEF GeometryKept
<1>4. Seen(m.positions, points'.items, m.geometry)
  <2>1. PICK items : items = points.items
    OBVIOUS
  <2>2. PICK changed : changed = points'.items
    OBVIOUS
  <2>3. PICK t : t = clock'
    OBVIOUS
  <2> QED BY <1>1, <1>2, <1>3, <2>1, <2>2, <2>3, SeenRewritten
<1> QED BY <1>1, <1>4 DEF GeometryKept

LEMMA ColoursFrame ==
    ASSUME UNCHANGED <<scalars, opacities, look>>, Count' = Count, NEW t
    PROVE  Colours(t)' = Colours(t)
BY DEF Colours, Colourable, Colour

LEMMA SeenFrame ==
    ASSUME UNCHANGED <<scalars, look>>, NEW m, ColoursSeen(m)
    PROVE  ColoursSeen(m)'
BY DEF ColoursSeen

\* Colours of other attributes, of another look or of other cells are not current.
LEMMA NotCurrent ==
    ASSUME DataInv, Change, NEW m, MeshTyped(m),
           topology' = clock' \/ attributes' = clock' \/ look'.time = clock'
    PROVE  ColoursCurrent(m)'
<1>1. m.topology # clock' /\ m.attributes # clock' /\ m.look # clock'
  BY MeshTimes
<1> QED BY <1>1 DEF ColoursCurrent, SameSurface

LEMMA NotGrown ==
    ASSUME DataInv, Change, NEW m, MeshTyped(m), topology' = clock'
    PROVE  Grown(m)'
<1>1. m.topology # clock'
  BY MeshTimes
<1> QED BY <1>1 DEF Grown

LEMMA GrownFrame ==
    ASSUME NEW m, Grown(m), UNCHANGED <<points, cells, topology>>
    PROVE  Grown(m)'
BY DEF Grown, Count

LEMMA MeshKeptByData ==
    ASSUME GpuGiven, DataInv, MeshInv,
           \/ ChangesPoints \/ (\E polygon \in BOOLEAN : AddCell(polygon)) \/ Clear
           \/ ChangesScalars \/ SetOpacities \/ ChangesLook \/ ChangesInstances
    PROVE  MeshInv'
<1>0. UNCHANGED mesh
  BY PointsStep, CellStep, ClearStep, ScalarsStep, OpacitiesStep, LookStep, InstancesStep
     DEF Changed, Change
<1> SUFFICES ASSUME NEW m, Kept(m) PROVE Kept(m)'
  BY <1>0, MeshUnchanged
<1>k. /\ MeshTyped(m) /\ GeometryKept(m) /\ Grown(m)
      /\ ColoursCurrent(m) /\ ColoursSeen(m) /\ ColoursVisible(m)
  BY DEF Kept
<1>t. Len(m.positions) \in Nat /\ Count \in Nat
  BY <1>k, PointsTypes DEF MeshTyped, MeshRecord, DataInv
<1>1. CASE ChangesPoints
  <2>1. /\ Changed /\ Change /\ points'.time = clock'
        /\ Rewrites(points.items, points'.items, clock')
        /\ cells = 1 => Len(points'.items) = Count \/ Len(points'.items) = Count + 1
        /\ UNCHANGED <<cells, topology, attributes, scalars, opacities, look>>
    BY <1>1, PointsStep DEF Changed, geometryOnly
  <2>2. GeometryKept(m)'
    BY <1>k, <2>1, GeometryChanged
  <2>3. Grown(m)'
    <3> SUFFICES ASSUME m.topology = topology PROVE cells = 1 /\ Len(m.positions) <= Count'
      BY <2>1 DEF Grown
    <3>1. cells = 1 /\ Len(m.positions) <= Count
      BY <1>k DEF Grown
    <3>2. Count' = Count \/ Count' = Count + 1
      BY <2>1, <3>1 DEF Count
    <3> QED BY <3>1, <3>2, <1>t
  <2>4. ColoursCurrent(m)'
    <3> SUFFICES ASSUME m.topology = topology, Len(m.positions) = Count',
                        m.attributes = attributes, m.look = look.time
                 PROVE  m.colours = Colours(look.time)'
      BY <2>1 DEF ColoursCurrent, SameSurface
    <3>1. cells = 1 /\ Len(m.positions) <= Count
      BY <1>k DEF Grown
    <3>2. Count' = Count
      <4>1. Count' = Count \/ Count' = Count + 1
        BY <2>1, <3>1 DEF Count
      <4> QED BY <4>1, <3>1, <1>t
    <3>3. m.colours = Colours(look.time)
      BY <1>k, <3>2 DEF ColoursCurrent, SameSurface
    <3>4. PICK t : t = look.time
      OBVIOUS
    <3>5. Colours(t)' = Colours(t)
      BY <2>1, <3>2, ColoursFrame
    <3>6. look'.time = t
      BY <2>1, <3>4
    <3> QED BY <3>3, <3>4, <3>5, <3>6 DEF Colours, Colourable, Colour
  <2>5. ColoursSeen(m)'
    BY <1>k, <2>1, SeenFrame
  <2> QED BY <2>1, <2>2, <2>3, <2>4, <2>5, KeptByStep
<1>2. CASE \E polygon \in BOOLEAN : AddCell(polygon)
  <2>1. /\ Changed /\ Change /\ points'.items = points.items
        /\ points'.time = clock' \/ UNCHANGED <<points, normals>>
        /\ topology' = clock' /\ UNCHANGED <<scalars, look>>
    BY <1>2, CellStep DEF Changed
  <2>2. Rewrites(points.items, points'.items, clock')
    BY <2>1 DEF Rewrites
  <2>3. GeometryKept(m)'
    BY <1>k, <2>1, <2>2, GeometryChanged, GeometryFrame
  <2>4. Grown(m)' /\ ColoursCurrent(m)'
    BY <1>k, <2>1, NotGrown, NotCurrent
  <2>5. ColoursSeen(m)'
    BY <1>k, <2>1, SeenFrame
  <2> QED BY <2>1, <2>3, <2>4, <2>5, KeptByStep
<1>3. CASE Clear
  <2>1. /\ Changed /\ Change /\ points'.time = clock' /\ points'.items = <<>>
        /\ topology' = clock' /\ scalars' = None /\ UNCHANGED look
    BY <1>3, ClearStep DEF Changed
  <2>2. Rewrites(points.items, points'.items, clock')
    BY <2>1 DEF Rewrites
  <2>3. GeometryKept(m)'
    BY <1>k, <2>1, <2>2, GeometryChanged
  <2>4. Grown(m)' /\ ColoursCurrent(m)'
    BY <1>k, <2>1, NotGrown, NotCurrent
  <2>5. ColoursSeen(m)'
    BY <2>1 DEF ColoursSeen
  <2> QED BY <2>1, <2>3, <2>4, <2>5, KeptByStep
<1>4. CASE ChangesScalars
  <2>1. /\ Changed /\ Change /\ attributes' = clock'
        /\ UNCHANGED <<points, normals, cells, topology, look>>
        /\ \/ /\ scalars # None /\ scalars' # None => scalars'.address = scalars.address
              /\ scalars # None
              /\ scalars' # None => Rewrites(scalars.data.items, scalars'.data.items, clock')
           \/ scalars' # None => \A i \in DOMAIN scalars'.data.items :
                                     scalars'.data.items[i] = clock'
    BY <1>4, ScalarsStep DEF Changed
  <2>2. GeometryKept(m)' /\ Grown(m)'
    BY <1>k, <2>1, GeometryFrame, GrownFrame
  <2>3. ColoursCurrent(m)'
    BY <1>k, <2>1, NotCurrent
  <2>4. m.arrayTime \in Nat /\ m.arrayTime < clock' /\ clock' \in Nat
    BY <1>k, <2>1, MeshTimes, NextTime DEF DataInv, Times
  <2>5. ColoursSeen(m)'
    <3> SUFFICES ASSUME m.colours # <<>>, m.look = look.time, scalars' # None,
                        m.array = scalars'.address, ~look.field, ~look.opacity,
                        NEW i \in DOMAIN scalars'.data.items,
                        scalars'.data.items[i] <= m.arrayTime
                 PROVE  /\ i \in DOMAIN m.colours
                        /\ m.colours[i] = <<scalars'.data.items[i], look.time, 0>>
      BY <2>1 DEF ColoursSeen
    <3>1. scalars'.data.items[i] # clock'
      BY <2>4
    <3>2. /\ scalars # None /\ scalars'.address = scalars.address
          /\ Rewrites(scalars.data.items, scalars'.data.items, clock')
      BY <2>1, <3>1
    <3>3. i \in DOMAIN scalars.data.items /\ scalars'.data.items[i] = scalars.data.items[i]
      BY <3>1, <3>2 DEF Rewrites
    <3> QED BY <1>k, <3>2, <3>3 DEF ColoursSeen
  <2> QED BY <2>1, <2>2, <2>3, <2>5, KeptByStep
<1>5. CASE SetOpacities
  <2>1. /\ Changed /\ Change /\ attributes' = clock'
        /\ UNCHANGED <<points, normals, cells, topology, scalars, look>>
    BY <1>5, OpacitiesStep DEF Changed
  <2>2. GeometryKept(m)' /\ Grown(m)'
    BY <1>k, <2>1, GeometryFrame, GrownFrame
  <2>3. ColoursCurrent(m)' /\ ColoursSeen(m)'
    BY <1>k, <2>1, NotCurrent, SeenFrame
  <2> QED BY <2>1, <2>2, <2>3, KeptByStep
<1>6. CASE ChangesLook
  <2>1. /\ Changed /\ Change /\ look'.time = clock'
        /\ UNCHANGED <<points, normals, cells, topology, scalars>>
    BY <1>6, LookStep DEF Changed
  <2>2. GeometryKept(m)' /\ Grown(m)'
    BY <1>k, <2>1, GeometryFrame, GrownFrame
  <2>3. ColoursCurrent(m)'
    BY <1>k, <2>1, NotCurrent
  <2>4. look' = look => ColoursSeen(m)'
    BY <1>k, <2>1, SeenFrame
  <2> QED BY <2>1, <2>2, <2>3, <2>4, KeptByStep
<1>7. CASE ChangesInstances
  <2>1. /\ Changed /\ Change
        /\ UNCHANGED <<points, normals, cells, topology, attributes, scalars, opacities, look>>
    BY <1>7, InstancesStep DEF Changed, instancesOnly
  <2>2. GeometryKept(m)' /\ Grown(m)' /\ ColoursSeen(m)'
    BY <1>k, <2>1, GeometryFrame, GrownFrame, SeenFrame
  <2>3. ColoursCurrent(m)'
    BY <1>k, <2>1 DEF ColoursCurrent, SameSurface, Colours, Colourable, Colour, Count
  <2> QED BY <2>1, <2>2, <2>3, KeptByStep
<1> QED BY <1>1, <1>2, <1>3, <1>4, <1>5, <1>6, <1>7

-----------------------------------------------------------------------------
(* The mesh made ready *)

LEMMA PatchedItems ==
    ASSUME NEW S, NEW buffer \in Seq(S), NEW items \in Seq(S), NEW range,
           \A i \in 1 .. Len(buffer) : In(i, range) => i \in 1 .. Len(items)
    PROVE  /\ Patched(buffer, items, range) \in Seq(S)
           /\ Len(Patched(buffer, items, range)) = Len(buffer)
           /\ \A i \in 1 .. Len(buffer) :
                 Patched(buffer, items, range)[i] = IF In(i, range) THEN items[i] ELSE buffer[i]
<1>1. DOMAIN buffer = 1 .. Len(buffer) /\ Len(buffer) \in Nat
  OBVIOUS
<1>2. Patched(buffer, items, range) =
          [i \in 1 .. Len(buffer) |-> IF In(i, range) THEN items[i] ELSE buffer[i]]
  BY <1>1 DEF Patched, In
<1>3. \A i \in 1 .. Len(buffer) : (IF In(i, range) THEN items[i] ELSE buffer[i]) \in S
  OBVIOUS
<1> QED BY <1>1, <1>2, <1>3

LEMMA SameItems ==
    ASSUME NEW S, NEW a \in Seq(S), NEW b \in Seq(S), Len(a) = Len(b),
           \A i \in 1 .. Len(a) : a[i] = b[i]
    PROVE  a = b
OBVIOUS

LEMMA StampsItems ==
    ASSUME NEW n \in Nat, NEW t
    PROVE  /\ Stamps(n, t) \in Seq({t}) /\ Len(Stamps(n, t)) = n
           /\ \A i \in 1 .. n : Stamps(n, t)[i] = t
BY DEF Stamps

\* Either the dirty range or everything is taken, and it holds what the buffer has not seen.
LEMMA TakenRange ==
    ASSUME GpuGiven, DataInv, NEW time \in Nat
    PROVE  LET range == UsableOr(DirtySince(points, time))
           IN  /\ \A i \in 1 .. Count : points.items[i] <= time \/ In(i, range)
               /\ \A i \in 1 .. Count : DirtySince(points, time).full => In(i, range)
<1> DEFINE dirty == DirtySince(points, time)
<1>0. Sound(points) /\ Count \in Nat /\ DOMAIN points.items = 1 .. Count
  BY PointsTypes DEF DataInv, PointsInv
<1>1. dirty.full \in BOOLEAN /\ \A i \in 1 .. Count : points.items[i] <= time \/ Tells(dirty, i)
  BY <1>0, DirtyTells
<1>2. \A i \in 1 .. Count : In(i, Everything)
  BY <1>0 DEF In, Everything
<1> HIDE DEF dirty
<1>3. CASE Usable(dirty, Count)
  <2>1. UsableOr(dirty) = dirty /\ ~dirty.full
    BY <1>3 DEF UsableOr, Usable
  <2> QED BY <1>1, <2>1 DEF Tells, dirty
<1>4. CASE ~Usable(dirty, Count)
  <2>1. UsableOr(dirty) = Everything
    BY <1>4 DEF UsableOr
  <2> QED BY <1>2, <2>1 DEF dirty
<1> QED BY <1>3, <1>4

LEMMA GeometryUpdated ==
    ASSUME GpuGiven, DataInv, NEW m, MeshTyped(m), GeometryKept(m), Len(m.positions) = Count
    PROVE  LET u == UpdatedGeometry(m)
           IN  /\ u \in MeshRecord /\ u.positions = points.items /\ Len(u.normals) = Count
               /\ normals # 0 => u.normals = Stamps(Count, normals)
               /\ u.geometry = points.time
               /\ u.topology = m.topology /\ u.colours = m.colours /\ u.array = m.array
               /\ u.arrayTime = m.arrayTime /\ u.attributes = m.attributes /\ u.look = m.look
<1>0. /\ points.time \in Nat /\ points.time \in Times /\ points.items \in Seq(Times)
      /\ Count \in Nat /\ Len(points.items) = Count
      /\ \A i \in 1 .. Count : points.items[i] \in Nat /\ points.items[i] <= points.time
      /\ Sound(points)
  BY PointsTypes, SoundTypes DEF DataInv, PointsInv, Count, Times
<1>1. /\ m \in MeshRecord /\ m.positions \in Seq(Times) /\ m.normals \in Seq(Nat)
      /\ Len(m.normals) = Len(m.positions) /\ m.geometry \in Nat /\ m.geometry <= points.time
      /\ DOMAIN m.positions = 1 .. Count
  BY DEF MeshTyped, MeshRecord, Times
<1>2. \A i \in 1 .. Count : points.items[i] <= m.geometry => m.positions[i] = points.items[i]
  BY <1>0 DEF GeometryKept, Seen
<1>3. CASE m.geometry = points.time
  <2>1. UpdatedGeometry(m) = m
    BY <1>3 DEF UpdatedGeometry
  <2>2. \A i \in 1 .. Count : m.positions[i] = points.items[i]
    BY <1>0, <1>2, <1>3
  <2>3. m.positions = points.items
    BY <1>0, <1>1, <2>2, SameItems
  <2> QED BY <1>1, <1>3, <2>1, <2>3 DEF GeometryKept
<1>4. CASE m.geometry # points.time
  <2> DEFINE range == UsableOr(DirtySince(points, m.geometry))
             p == Patched(m.positions, points.items, range)
             q == IF normals = 0 THEN m.normals ELSE Patched(m.normals, Stamps(Count, normals), range)
             u == UpdatedGeometry(m)
  <2>1. u = [m EXCEPT !.positions = p, !.normals = q, !.geometry = points.time]
    BY <1>4 DEF UpdatedGeometry, WithGeometry
  <2>2. /\ \A i \in 1 .. Count : points.items[i] <= m.geometry \/ In(i, range)
        /\ \A i \in 1 .. Count : DirtySince(points, m.geometry).full => In(i, range)
    BY <1>1, TakenRange
  <2> HIDE DEF range
  <2>3. p \in Seq(Times) /\ p = points.items
    <3>1. /\ p \in Seq(Times) /\ Len(p) = Count
          /\ \A i \in 1 .. Count : p[i] = IF In(i, range) THEN points.items[i] ELSE m.positions[i]
      <4>1. /\ m.positions \in Seq(Times) /\ points.items \in Seq(Times)
            /\ Len(m.positions) = Count /\ Len(points.items) = Count
        BY <1>0, <1>1
      <4>2. \A i \in 1 .. Len(m.positions) : In(i, range) => i \in 1 .. Len(points.items)
        BY <4>1
      <4> QED BY <4>1, <4>2, PatchedItems
    <3>2. \A i \in 1 .. Count : p[i] = points.items[i]
      BY <3>1, <2>2, <1>2
    <3> HIDE DEF p
    <3> QED BY <3>1, <3>2, <1>0, SameItems
  <2>4. q \in Seq(Nat) /\ Len(q) = Count /\ (normals # 0 => q = Stamps(Count, normals))
    <3>1. CASE normals = 0
      BY <3>1, <1>1
    <3>2. CASE normals # 0
      <4>1. /\ normals \in Nat /\ normals = points.time
            /\ \A j \in DOMAIN points.history : points.history[j].time < points.time
        BY <3>2 DEF DataInv, PointsInv
      <4>2. m.geometry < points.time
        BY <1>0, <1>1, <1>4
      <4>3. DirtySince(points, m.geometry).full
        BY <1>0, <1>1, <4>1, <4>2, UnrecordedTells
      <4>4. \A i \in 1 .. Count : In(i, range)
        BY <4>3, <2>2
      <4> DEFINE s == Stamps(Count, normals)
      <4>5. s \in Seq(Nat) /\ Len(s) = Count
        BY <1>0, <4>1 DEF Stamps
      <4> HIDE DEF s
      <4>6. /\ Patched(m.normals, s, range) \in Seq(Nat)
            /\ Len(Patched(m.normals, s, range)) = Count
            /\ \A i \in 1 .. Count : Patched(m.normals, s, range)[i] = s[i]
        BY <1>1, <4>4, <4>5, PatchedItems
      <4>7. Patched(m.normals, s, range) = s
        BY <4>5, <4>6, SameItems
      <4> QED BY <3>2, <4>5, <4>6, <4>7 DEF s
    <3> QED BY <3>1, <3>2
  <2> HIDE DEF p, q, u
  <2>5. u \in MeshRecord
    BY <2>1, <2>3, <2>4, <1>0, <1>1 DEF MeshRecord
  <2>6. /\ u.positions = p /\ u.normals = q /\ u.geometry = points.time
        /\ u.topology = m.topology /\ u.colours = m.colours /\ u.array = m.array
        /\ u.arrayTime = m.arrayTime /\ u.attributes = m.attributes /\ u.look = m.look
    BY <2>1, <1>1 DEF MeshRecord
  <2> QED BY <2>3, <2>4, <2>5, <2>6 DEF u
<1> QED BY <1>3, <1>4

\* The colours that a new buffer would have.
LEMMA ColoursTypes ==
    ASSUME DataInv, NEW time \in Times
    PROVE  /\ Colours(time) \in Seq(ColourTimes)
           /\ Colourable => /\ Len(Colours(time)) = Count
                            /\ \A i \in 1 .. Count : Colours(time)[i] = Colour(i, time)
           /\ ~Colourable => Colours(time) = <<>>
<1>0. Count \in Nat /\ opacities \in Nat
  BY PointsTypes DEF DataInv, NumbersInv, Times
<1>1. CASE Colourable
  <2>1. Colours(time) = [i \in 1 .. Count |-> Colour(i, time)]
    BY <1>1 DEF Colours
  <2>2. ASSUME NEW i \in 1 .. Count PROVE Colour(i, time) \in ColourTimes
    <3>1. /\ scalars.data.items \in Seq(Times) /\ Len(scalars.data.items) \in Nat
          /\ \A j \in 1 .. Len(scalars.data.items) : scalars.data.items[j] \in Times
      BY <1>1, ScalarsTypes DEF DataInv, Colourable
    <3>2. CASE look.field
      <4>1. 1 \in 1 .. Len(scalars.data.items)
        BY <1>1, <3>1, <3>2 DEF Colourable
      <4> QED BY <4>1, <3>1, <3>2, <1>0 DEF Colour, ColourTimes
    <3>3. CASE ~look.field
      <4>1. i \in 1 .. Len(scalars.data.items)
        BY <1>1, <3>1, <3>3 DEF Colourable
      <4> QED BY <4>1, <3>1, <3>3, <1>0 DEF Colour, ColourTimes
    <3> QED BY <3>2, <3>3
  <2> QED BY <1>0, <1>1, <2>1, <2>2
<1>2. CASE ~Colourable
  BY <1>2 DEF Colours
<1> QED BY <1>1, <1>2

\* What new colours or updated ones are made of.
ColoursOf(v, time) ==
    /\ v.colours = Colours(time) /\ v.attributes = attributes /\ v.look = time
    /\ v.arrayTime \in Nat /\ v.arrayTime <= clock
    /\ (v.colours # <<>> /\ scalars # None /\ v.array = scalars.address /\ ~look.field
        /\ ~look.opacity)
       => \A i \in DOMAIN scalars.data.items :
              scalars.data.items[i] <= v.arrayTime =>
                  i \in DOMAIN v.colours /\ v.colours[i] = <<scalars.data.items[i], time, 0>>

LEMMA ColoursBuilt ==
    ASSUME DataInv, NEW m \in MeshRecord, NEW time \in Times
    PROVE  LET v == BuiltColours(m, time)
           IN  /\ v \in MeshRecord /\ ColoursOf(v, time)
               /\ v.positions = m.positions /\ v.normals = m.normals
               /\ v.geometry = m.geometry /\ v.topology = m.topology
<1> DEFINE v == BuiltColours(m, time)
           c == Colours(time)
           a == IF Colourable THEN scalars.address ELSE 0
           t == IF Colourable THEN scalars.data.time ELSE 0
<1>1. v = [m EXCEPT !.colours = c, !.array = a, !.arrayTime = t, !.attributes = attributes,
                    !.look = time]
  BY DEF BuiltColours
<1>2. /\ c \in Seq(ColourTimes)
      /\ Colourable => Len(c) = Count /\ \A i \in 1 .. Count : c[i] = Colour(i, time)
      /\ ~Colourable => c = <<>>
  BY ColoursTypes
<1>3. a \in 0 .. 2 /\ t \in Nat /\ t <= clock /\ attributes \in Times
  <2>1. clock \in Nat /\ attributes \in Times
    BY DEF DataInv, NumbersInv, Times
  <2>2. Colourable => /\ scalars.address \in {1, 2} /\ scalars.data.time \in Nat
                      /\ scalars.data.time <= clock
    BY ScalarsTypes DEF DataInv, Colourable
  <2> QED BY <2>1, <2>2
<1> HIDE DEF v, c, a, t
<1>4. v \in MeshRecord
  BY <1>1, <1>2, <1>3 DEF MeshRecord
<1>5. /\ v.colours = c /\ v.array = a /\ v.arrayTime = t /\ v.attributes = attributes
      /\ v.look = time /\ v.positions = m.positions /\ v.normals = m.normals
      /\ v.geometry = m.geometry /\ v.topology = m.topology
  BY <1>1 DEF MeshRecord
<1>6. ASSUME c # <<>>, scalars # None, ~look.field, ~look.opacity,
             NEW i \in DOMAIN scalars.data.items
      PROVE  i \in DOMAIN c /\ c[i] = <<scalars.data.items[i], time, 0>>
  <2>1. Colourable /\ Len(scalars.data.items) = Count
    BY <1>2, <1>6 DEF Colourable
  <2>2. i \in 1 .. Count
    BY <2>1, <1>6, ScalarsTypes DEF DataInv
  <2>3. i \in DOMAIN c /\ c[i] = Colour(i, time)
    BY <1>2, <2>1, <2>2
  <2> QED BY <1>6, <2>3 DEF Colour
<1>7. ColoursOf(v, time)
  BY <1>3, <1>5, <1>6 DEF ColoursOf, c
<1> QED BY <1>4, <1>5, <1>7 DEF v

LEMMA ColoursUpdated ==
    ASSUME GpuGiven, DataInv, NEW m \in MeshRecord, NEW time \in Times,
           Len(m.positions) = Count, m.topology = topology, m.arrayTime <= clock,
           m.colours # <<>> => Len(m.colours) = Len(m.positions),
           ColoursCurrent(m), ColoursSeen(m), ColoursVisible(m),
           time = look.time \/ RebuildsColours(m)
    PROVE  LET v == UpdatedColours(m, time)
           IN  /\ v \in MeshRecord /\ ColoursOf(v, time)
               /\ v.positions = m.positions /\ v.normals = m.normals
               /\ v.geometry = m.geometry /\ v.topology = m.topology
<1> DEFINE v == UpdatedColours(m, time)
<1>0. /\ m.colours \in Seq(ColourTimes) /\ m.arrayTime \in Nat /\ attributes \in Times
      /\ clock \in Nat
  BY DEF MeshRecord, DataInv, NumbersInv, Times
<1>1. CASE m.attributes = attributes /\ m.look = look.time
  <2>1. v = m /\ time = look.time
    BY <1>1 DEF UpdatedColours, RebuildsColours
  <2>2. m.colours = Colours(time)
    BY <1>1, <2>1 DEF ColoursCurrent, SameSurface
  <2>3. ColoursOf(m, time)
    BY <1>0, <1>1, <2>1, <2>2 DEF ColoursOf, ColoursSeen
  <2> QED BY <2>1, <2>3
<1>2. CASE ~(m.attributes = attributes /\ m.look = look.time) /\ PartlyColoured(m)
  <2> DEFINE range == DirtySince(scalars.data, m.arrayTime)
             c == Patched(m.colours, Colours(look.time), range)
             t == IF range.count = 0 THEN m.arrayTime ELSE scalars.data.time
             items == scalars.data.items
  <2>1. time = look.time
    BY <1>2 DEF RebuildsColours
  <2>2. v = [m EXCEPT !.colours = c, !.arrayTime = t, !.attributes = attributes]
    BY <1>2 DEF UpdatedColours
  <2>3. /\ m.colours # <<>> /\ m.look = look.time /\ scalars # None
        /\ m.array = scalars.address /\ ~look.field /\ ~look.opacity
        /\ Len(items) = Count /\ Usable(range, Count)
    BY <1>2 DEF PartlyColoured
  <2>4. look.visible /\ Colourable /\ Len(m.colours) = Count
    BY <2>3 DEF ColoursVisible, Colourable
  <2>5. /\ Sound(scalars.data) /\ DOMAIN items = 1 .. Count /\ scalars.data.time \in Nat
        /\ scalars.data.time <= clock
        /\ \A i \in 1 .. Count : items[i] \in Nat /\ items[i] <= scalars.data.time
    BY <2>3, ScalarsTypes DEF DataInv, Times
  <2>6. /\ ~range.full
        /\ \A i \in DOMAIN items : items[i] <= m.arrayTime \/ In(i, range)
        /\ range.count = 0 => \A i \in DOMAIN items : items[i] <= m.arrayTime
    <3>1. ~range.full
      BY <2>3 DEF Usable
    <3>2. /\ \A i \in DOMAIN items : items[i] <= m.arrayTime \/ Tells(range, i)
          /\ range.count = 0 => \A i \in DOMAIN items : items[i] <= m.arrayTime \/ range.full
      BY <1>0, <2>5, DirtyTells
    <3> QED BY <3>1, <3>2 DEF Tells
  <2> DEFINE d == Colours(time)
  <2>7. /\ d \in Seq(ColourTimes) /\ Len(d) = Count
        /\ \A i \in 1 .. Count : d[i] = <<items[i], time, 0>>
    <3>1. /\ d \in Seq(ColourTimes) /\ Len(d) = Count
          /\ \A i \in 1 .. Count : d[i] = Colour(i, time)
      BY <2>4, ColoursTypes
    <3> QED BY <3>1, <2>3 DEF Colour
  <2>8. \A i \in 1 .. Count : items[i] <= m.arrayTime => m.colours[i] = <<items[i], time, 0>>
    BY <2>1, <2>3, <2>5 DEF ColoursSeen
  <2> HIDE DEF d, range, items, v
  <2>9. c = d
    <3>1. c = Patched(m.colours, d, range)
      BY <2>1 DEF d
    <3>2. \A i \in 1 .. Len(m.colours) : In(i, range) => i \in 1 .. Len(d)
      BY <2>4, <2>7
    <3>3. /\ c \in Seq(ColourTimes) /\ Len(c) = Count
          /\ \A i \in 1 .. Count : c[i] = IF In(i, range) THEN d[i] ELSE m.colours[i]
      BY <3>1, <3>2, <1>0, <2>4, <2>7, PatchedItems
    <3> HIDE DEF c
    <3>4. \A i \in 1 .. Count : c[i] = d[i]
      BY <3>3, <2>5, <2>6, <2>7, <2>8
    <3> QED BY <3>3, <3>4, <2>7, SameItems
  <2>10. t \in Nat /\ t <= clock
    BY <1>0, <2>5
  <2> HIDE DEF c, t
  <2>11. v \in MeshRecord
    BY <2>2, <2>9, <2>7, <2>10, <1>0 DEF MeshRecord
  <2>12. /\ v.colours = d /\ v.arrayTime = t /\ v.attributes = attributes /\ v.look = m.look
         /\ v.positions = m.positions /\ v.normals = m.normals /\ v.array = m.array
         /\ v.geometry = m.geometry /\ v.topology = m.topology
    BY <2>2, <2>9 DEF MeshRecord
  <2>13. \A i \in DOMAIN items : i \in DOMAIN d /\ d[i] = <<items[i], time, 0>>
    BY <2>5, <2>7
  <2>14. ColoursOf(v, time)
    BY <2>1, <2>3, <2>10, <2>12, <2>13 DEF ColoursOf, d, items
  <2> QED BY <2>11, <2>12, <2>14 DEF v
<1>3. CASE ~(m.attributes = attributes /\ m.look = look.time) /\ ~PartlyColoured(m)
  <2>1. v = BuiltColours(m, time)
    BY <1>3 DEF UpdatedColours
  <2> QED BY <2>1, ColoursBuilt
<1> QED BY <1>1, <1>2, <1>3

\* What a mesh made ready is.
Ready(v, time) ==
    /\ v \in MeshRecord /\ ColoursOf(v, time)
    /\ v.positions = points.items /\ Len(v.normals) = Count
    /\ normals # 0 => v.normals = Stamps(Count, normals)
    /\ v.geometry = points.time /\ v.topology = topology

LEMMA MeshReady ==
    ASSUME GpuGiven, DataInv, MeshInv, NEW time \in Times,
           time = look.time \/ ~Reusable \/ RebuildsColours(mesh)
    PROVE  Ready(IF Reusable THEN UpdatedColours(UpdatedGeometry(mesh), time) ELSE NewMesh(time),
                 time)
<1>1. CASE Reusable
  <2>1. PICK m : m = mesh
    OBVIOUS
  <2>2. mesh # None /\ m.topology = topology /\ Len(m.positions) = Count
    BY <1>1, <2>1 DEF Reusable
  <2>3. Kept(m)
    BY <2>1, <2>2 DEF MeshInv
  <2>4. PICK u : u = UpdatedGeometry(m)
    OBVIOUS
  <2>5. /\ u \in MeshRecord /\ u.positions = points.items /\ Len(u.normals) = Count
        /\ normals # 0 => u.normals = Stamps(Count, normals)
        /\ u.geometry = points.time
        /\ u.topology = m.topology /\ u.colours = m.colours /\ u.array = m.array
        /\ u.arrayTime = m.arrayTime /\ u.attributes = m.attributes /\ u.look = m.look
    BY <2>2, <2>3, <2>4, GeometryUpdated DEF Kept
  <2>6. Len(u.positions) = Count
    BY <2>5 DEF Count
  <2>7. u.arrayTime <= clock
    BY <2>3, <2>5 DEF Kept, MeshTyped
  <2>8. u.colours # <<>> => Len(u.colours) = Len(u.positions)
    BY <2>2, <2>3, <2>5, <2>6 DEF Kept
  <2>9. ColoursCurrent(u) /\ ColoursSeen(u) /\ ColoursVisible(u)
    BY <2>2, <2>3, <2>5, <2>6 DEF Kept, ColoursCurrent, ColoursSeen, ColoursVisible, SameSurface
  <2>10. time = look.time \/ RebuildsColours(u)
    BY <1>1, <2>1, <2>5 DEF RebuildsColours, PartlyColoured
  <2>11. LET v == UpdatedColours(u, time)
         IN  /\ v \in MeshRecord /\ ColoursOf(v, time)
             /\ v.positions = u.positions /\ v.normals = u.normals
             /\ v.geometry = u.geometry /\ v.topology = u.topology
    BY <2>2, <2>5, <2>6, <2>7, <2>8, <2>9, <2>10, ColoursUpdated
  <2> QED BY <1>1, <2>1, <2>2, <2>4, <2>5, <2>11 DEF Ready
<1>2. CASE ~Reusable
  <2> DEFINE m == [positions |-> points.items, normals |-> Stamps(Count, normals),
                   geometry |-> points.time, topology |-> topology,
                   colours |-> <<>>, array |-> 0, arrayTime |-> 0,
                   attributes |-> attributes, look |-> time]
  <2>1. NewMesh(time) = BuiltColours(m, time)
    BY DEF NewMesh
  <2>2. /\ points.items \in Seq(Times) /\ points.time \in Times /\ Count \in Nat
        /\ topology \in Times /\ attributes \in Times /\ normals \in Nat
    BY PointsTypes, SoundTypes DEF DataInv, PointsInv, NumbersInv
  <2>3. Stamps(Count, normals) \in Seq(Nat) /\ Len(Stamps(Count, normals)) = Count
    BY <2>2 DEF Stamps
  <2>4. m \in MeshRecord
    <3>1. <<>> \in Seq(ColourTimes) /\ 0 \in 0 .. 2 /\ 0 \in Nat
      OBVIOUS
    <3> QED BY <2>2, <2>3, <3>1 DEF MeshRecord
  <2>5. /\ m.positions = points.items /\ m.normals = Stamps(Count, normals)
        /\ m.geometry = points.time /\ m.topology = topology
    OBVIOUS
  <2> HIDE DEF m
  <2>6. LET v == BuiltColours(m, time)
        IN  /\ v \in MeshRecord /\ ColoursOf(v, time)
            /\ v.positions = m.positions /\ v.normals = m.normals
            /\ v.geometry = m.geometry /\ v.topology = m.topology
    BY <2>4, ColoursBuilt
  <2> QED BY <1>2, <2>1, <2>3, <2>5, <2>6 DEF Ready
<1> QED BY <1>1, <1>2

LEMMA EnsureMeshKeeps ==
    ASSUME GpuGiven, DataInv, MeshInv, EnsureMesh
    PROVE  MeshInv' /\ MeshFresh'
<1>1. /\ NumbersInv' /\ clock <= clock' /\ look'.time <= clock'
      /\ look' = look \/ (look' = [look EXCEPT !.range = TRUE, !.time = clock'] /\ look'.time > look.time)
      /\ look' # look => ~Reusable \/ RebuildsColours(mesh)
      /\ UNCHANGED <<points, normals, bounds, cells, topology, attributes, scalars, opacities,
                     instances>>
  BY MeshStep
<1>2. PICK time : time = look'.time
  OBVIOUS
<1>3. time \in Times /\ clock \in Nat /\ clock' \in Nat
  BY <1>1, <1>2 DEF NumbersInv, Looks, Times, DataInv
<1>4. time = look.time \/ ~Reusable \/ RebuildsColours(mesh)
  BY <1>1, <1>2
<1>5. PICK v : v = IF Reusable THEN UpdatedColours(UpdatedGeometry(mesh), time) ELSE NewMesh(time)
  OBVIOUS
<1>6. Ready(v, time)
  BY <1>3, <1>4, <1>5, MeshReady
<1>7. mesh' = v
  BY <1>2, <1>5 DEF EnsureMesh
<1>8. /\ look'.visible = look.visible /\ look'.field = look.field /\ look'.opacity = look.opacity
      /\ look.visible \in BOOLEAN /\ look.field \in BOOLEAN /\ look.opacity \in BOOLEAN
  <2>1. look \in Looks
    BY DEF DataInv, NumbersInv
  <2> QED BY <1>1, <2>1 DEF Looks
<1>9. Colours(time)' = Colours(time)
  BY <1>1, <1>8 DEF Colours, Colourable, Colour, Count
<1>10. /\ v \in MeshRecord /\ v.positions = points.items /\ Len(v.normals) = Count
       /\ normals # 0 => v.normals = Stamps(Count, normals)
       /\ v.geometry = points.time /\ v.topology = topology
       /\ v.colours = Colours(time) /\ v.attributes = attributes /\ v.look = time
       /\ v.arrayTime \in Nat /\ v.arrayTime <= clock
  BY <1>6 DEF Ready, ColoursOf
<1>11. /\ Count \in Nat /\ Len(v.positions) = Count /\ points.time \in Nat
       /\ DOMAIN points.items = 1 .. Count
  BY <1>10, PointsTypes DEF DataInv, Count
<1>12. cells = 1
  BY DEF EnsureMesh, DataInv, NumbersInv
<1>13. /\ v.colours # <<>> => Len(v.colours) = Len(v.positions)
       /\ v.colours # <<>> => look.visible
  BY <1>3, <1>10, <1>11, ColoursTypes DEF Colourable
<1>14. MeshTyped(v)'
  <2>1. /\ v.geometry <= points'.time /\ v.topology <= clock' /\ v.attributes <= clock'
        /\ v.look <= clock' /\ v.arrayTime <= clock'
    <3>1. topology <= clock /\ attributes <= clock /\ topology \in Nat /\ attributes \in Nat
      BY DEF DataInv, NumbersInv, Times
    <3> QED BY <3>1, <1>1, <1>2, <1>3, <1>10, <1>11
  <2> QED BY <2>1, <1>10, <1>11 DEF MeshTyped
<1>15. GeometryKept(v)'
  BY <1>1, <1>10 DEF GeometryKept, Seen, Count
<1>16. Grown(v)'
  <2>1. Len(v.positions) <= Count
    BY <1>11
  <2> QED BY <2>1, <1>1, <1>12 DEF Grown, Count
<1>17. ColoursCurrent(v)'
  <2> USE DEF ColoursCurrent, SameSurface
  <2>1. PICK c : c = Colours(time)
    OBVIOUS
  <2>2. c = Colours(time)' /\ v.colours = c
    BY <2>1, <1>9, <1>10
  <2>3. Colours(look.time)' = Colours(time)'
    BY <1>2 DEF Colours, Colourable, Colour
  <2> QED BY <2>2, <2>3
<1>18. ColoursSeen(v)'
  <2>1. (v.colours # <<>> /\ scalars # None /\ v.array = scalars.address /\ ~look.field
         /\ ~look.opacity)
         => \A i \in DOMAIN scalars.data.items :
              scalars.data.items[i] <= v.arrayTime =>
                  i \in DOMAIN v.colours /\ v.colours[i] = <<scalars.data.items[i], time, 0>>
    BY <1>6 DEF Ready, ColoursOf
  <2> QED BY <2>1, <1>1, <1>2, <1>8 DEF ColoursSeen
<1>19. ColoursVisible(v)'
  BY <1>8, <1>13 DEF ColoursVisible
<1>20. Kept(v)'
  BY <1>13, <1>14, <1>15, <1>16, <1>17, <1>18, <1>19 DEF Kept
<1>21. MeshInv'
  BY <1>7, <1>20 DEF MeshInv, Kept, MeshTyped, GeometryKept, Grown, SameSurface, ColoursCurrent,
                     ColoursSeen, ColoursVisible
<1>22. MeshFresh'
  <2>1. PICK c : c = Colours(time)
    OBVIOUS
  <2>2. c = Colours(time)' /\ v.colours = c
    BY <2>1, <1>9, <1>10
  <2>3. Colours(look.time)' = Colours(time)'
    BY <1>2 DEF Colours, Colourable, Colour
  <2>4. v.positions = points'.items
    BY <1>1, <1>10
  <2>5. normals' # 0 => v.normals = Stamps(Count, normals)'
    BY <1>1, <1>10 DEF Stamps, Count
  <2> QED BY <1>7, <2>2, <2>3, <2>4, <2>5 DEF MeshFresh
<1> QED BY <1>21, <1>22

-----------------------------------------------------------------------------
(* The glyphs *)

LEMMA LatestOf ==
    ASSUME NEW p \in Times, NEW q \in Times, NEW r \in Times, NEW c \in Nat,
           p <= c, q <= c, r <= c
    PROVE  /\ Max({p, q, r}) \in {p, q, r}
           /\ p <= Max({p, q, r}) /\ q <= Max({p, q, r}) /\ r <= Max({p, q, r})
<1> DEFINE S == {p, q, r}
<1>1. S \in SUBSET Nat /\ S # {} /\ \A x \in S : x <= c
  BY DEF Times
<1>2. Max(S) \in S /\ \A x \in S : x <= Max(S)
  <2> HIDE DEF S
  <2> QED BY <1>1, GreatestOf
<1> QED BY <1>2

\* The time of the surface is the latest of three, and moves on with any of them.
LEMMA SourceTimes ==
    ASSUME DataInv
    PROVE  MTime \in Times /\ MTime <= clock
<1>1. /\ points.time \in Times /\ topology \in Times /\ attributes \in Times /\ clock \in Nat
      /\ points.time <= clock /\ topology <= clock /\ attributes <= clock
  BY SoundTypes, PointsTypes DEF DataInv, NumbersInv, PointsInv, Times
<1>2. MTime \in {points.time, topology, attributes}
  BY <1>1, LatestOf DEF MTime
<1> QED BY <1>1, <1>2

LEMMA SourceChanged ==
    ASSUME DataInv, DataInv', clock < clock',
           points'.time = clock' \/ topology' = clock' \/ attributes' = clock'
    PROVE  MTime' > clock
<1>1. PICK p, q, r, c : p = points'.time /\ q = topology' /\ r = attributes' /\ c = clock'
  OBVIOUS
<1>2. /\ points'.time \in Times /\ topology' \in Times /\ attributes' \in Times
      /\ clock' \in Times /\ clock \in Nat
      /\ points'.time <= clock' /\ topology' <= clock' /\ attributes' <= clock'
  BY SoundTypes DEF DataInv, NumbersInv, PointsInv, Times
<1>3. p \in Times /\ q \in Times /\ r \in Times /\ c \in Nat /\ p <= c /\ q <= c /\ r <= c
  BY <1>1, <1>2 DEF Times
<1>4. /\ Max({p, q, r}) \in {p, q, r}
      /\ p <= Max({p, q, r}) /\ q <= Max({p, q, r}) /\ r <= Max({p, q, r})
  BY <1>3, LatestOf
<1>5. MTime' = Max({p, q, r})
  BY <1>1 DEF MTime
<1>6. Max({p, q, r}) \in Nat /\ Max({p, q, r}) >= c
  <2>1. p = c \/ q = c \/ r = c
    BY <1>1
  <2> QED BY <1>3, <1>4, <2>1 DEF Times
<1>7. PICK latest : latest = Max({p, q, r})
  OBVIOUS
<1>8. latest \in Nat /\ latest >= c /\ clock \in Nat /\ clock < c
  BY <1>1, <1>2, <1>6, <1>7
<1>9. latest > clock
  BY <1>3, <1>8
<1> QED BY <1>5, <1>7, <1>9

LEMMA GlyphsUnchanged ==
    ASSUME GlyphsInv, UNCHANGED glyphs, \A g : GlyphsKept(g) => GlyphsKept(g)'
    PROVE  GlyphsInv'
<1>1. PICK g : g = glyphs
  OBVIOUS
<1>2. g # None => GlyphsKept(g)
  BY <1>1 DEF GlyphsInv, GlyphsKept, SourceKept
<1>3. g # None => GlyphsKept(g)'
  BY <1>2
<1>4. glyphs' = g
  BY <1>1
<1> QED BY <1>3, <1>4 DEF GlyphsInv, GlyphsKept, SourceKept

\* What a step must leave of glyphs that it does not touch.
LEMMA GlyphsKeptByStep ==
    ASSUME DataInv, DataInv', Changed, NEW g, GlyphsKept(g),
           \/ UNCHANGED <<points, normals, topology, attributes>>
           \/ points'.time = clock' \/ topology' = clock' \/ attributes' = clock',
           UNCHANGED instances \/ Rewrites(instances.items, instances'.items, clock')
    PROVE  GlyphsKept(g)'
<1>1. /\ clock \in Nat /\ clock' \in Nat /\ clock < clock'
      /\ g.source \in Nat /\ g.time \in Nat /\ g.source <= clock /\ g.time <= clock
      /\ g \in GlyphsRecord
  BY NextTime DEF DataInv, Changed, Times, GlyphsKept, GlyphsRecord
<1>2. g.source <= clock' /\ g.time <= clock' /\ g.time < clock'
  BY <1>1
<1>3. SourceKept(g)'
  <2>1. CASE UNCHANGED <<points, normals, topology, attributes>>
    BY <2>1 DEF GlyphsKept, SourceKept, MTime, Count
  <2>2. CASE points'.time = clock' \/ topology' = clock' \/ attributes' = clock'
    <3>1. MTime' > clock
      BY <2>2, <1>1, SourceChanged
    <3>2. PICK s : s = MTime'
      OBVIOUS
    <3>3. g.source # s
      BY <1>1, <3>1, <3>2
    <3> QED BY <3>2, <3>3 DEF SourceKept
  <2> QED BY <2>1, <2>2
<1>4. Seen(g.buffer, instances'.items, g.time)
  <2>1. Seen(g.buffer, instances.items, g.time)
    BY DEF GlyphsKept
  <2>2. CASE UNCHANGED instances
    BY <2>1, <2>2
  <2>3. CASE Rewrites(instances.items, instances'.items, clock')
    <3>1. PICK items, changed, t : items = instances.items /\ changed = instances'.items /\ t = clock'
      OBVIOUS
    <3> QED BY <1>1, <1>2, <2>1, <2>3, <3>1, SeenRewritten
  <2> QED BY <2>2, <2>3
<1> QED BY <1>1, <1>2, <1>3, <1>4 DEF GlyphsKept

LEMMA GlyphsKeptByData ==
    ASSUME GpuGiven, DataInv, DataInv', GlyphsInv,
           \/ ChangesPoints \/ (\E polygon \in BOOLEAN : AddCell(polygon)) \/ Clear
           \/ ChangesScalars \/ SetOpacities \/ ChangesLook \/ ChangesInstances
    PROVE  GlyphsInv'
<1>1. /\ Changed /\ UNCHANGED glyphs
      /\ \/ UNCHANGED <<points, normals, topology, attributes>>
         \/ points'.time = clock' \/ topology' = clock' \/ attributes' = clock'
      /\ UNCHANGED instances \/ Rewrites(instances.items, instances'.items, clock')
  BY PointsStep, CellStep, ClearStep, ScalarsStep, OpacitiesStep, LookStep, InstancesStep
     DEF Changed, Change, geometryOnly, instancesOnly
<1>2. \A g : GlyphsKept(g) => GlyphsKept(g)'
  BY <1>1, GlyphsKeptByStep
<1> QED BY <1>1, <1>2, GlyphsUnchanged

\* A range that a buffer of n items can take is in it.
LEMMA UsableWithin ==
    ASSUME NEW range, NEW n \in Nat, range.first \in Nat, range.count \in Nat, Usable(range, n)
    PROVE  \A i \in Nat : In(i, range) => i \in 1 .. n
<1> SUFFICES ASSUME NEW i \in Nat, In(i, range) PROVE i \in 1 .. n
  OBVIOUS
<1>1. range.first <= i - 1 /\ i - 1 <= range.first + range.count - 1
  BY DEF In
<1>2. range.first <= n /\ range.count <= n - range.first
  BY DEF Usable
<1> QED BY <1>1, <1>2

\* After an upload the buffer holds every instance.
LEMMA InstancesUploaded ==
    ASSUME GpuGiven, DataInv, NEW g \in GlyphsRecord, Seen(g.buffer, instances.items, g.time),
           NEW since \in Nat, since = g.time \/ g.buffer = <<>>
    PROVE  LET v == UploadedInstances(g, DirtySince(instances, since))
           IN  /\ v \in GlyphsRecord /\ v.count = Len(instances.items) /\ v.time = instances.time
               /\ v.positions = g.positions /\ v.normals = g.normals /\ v.source = g.source
               /\ v.count <= Len(v.buffer)
               /\ \A i \in 1 .. v.count : v.buffer[i] = instances.items[i]
<1> DEFINE range == DirtySince(instances, since)
           items == instances.items
           n == Len(instances.items)
           all == [first |-> 0, count |-> n, full |-> TRUE]
           b == IF PartlyUploaded(g, range) THEN Patched(g.buffer, items, range)
                ELSE Rewritten(g.buffer)
           v == UploadedInstances(g, range)
<1>0. /\ Sound(instances) /\ items \in Seq(Times) /\ n \in Nat /\ DOMAIN items = 1 .. n
      /\ instances.time \in Nat /\ g.buffer \in Seq(Times) /\ g.time \in Nat
      /\ Len(g.buffer) \in Nat /\ DOMAIN g.buffer = 1 .. Len(g.buffer)
  BY InstancesTypes DEF DataInv, GlyphsRecord
<1>1. v = [g EXCEPT !.buffer = b, !.count = n, !.time = instances.time]
  BY DEF UploadedInstances
<1>2. /\ range.first \in Nat /\ range.count \in Nat
      /\ \A i \in DOMAIN items : items[i] <= since \/ Tells(range, i)
  BY <1>0, DirtyTells
<1> HIDE DEF range, items, v
<1>3. CASE PartlyUploaded(g, range)
  <2>1. /\ g.buffer # <<>> /\ Usable(range, n) /\ Len(g.buffer) >= n /\ ~range.full
    BY <1>3 DEF PartlyUploaded, Usable
  <2>2. \A i \in 1 .. Len(g.buffer) : In(i, range) => i \in 1 .. Len(items)
    <3>1. \A i \in Nat : In(i, range) => i \in 1 .. n
      BY <1>0, <1>2, <2>1, UsableWithin
    <3> QED BY <3>1, <1>0 DEF items
  <2>3. /\ b \in Seq(Times) /\ Len(b) = Len(g.buffer)
        /\ \A i \in 1 .. Len(g.buffer) : b[i] = IF In(i, range) THEN items[i] ELSE g.buffer[i]
    BY <1>0, <1>3, <2>2, PatchedItems
  <2>4. ASSUME NEW i \in 1 .. n PROVE b[i] = items[i]
    <3>1. i \in 1 .. Len(g.buffer) /\ i \in DOMAIN items
      BY <1>0, <2>1
    <3>2. CASE In(i, range)
      BY <3>1, <3>2, <2>3
    <3>3. CASE ~In(i, range)
      <4>1. items[i] <= since /\ since = g.time
        BY <3>1, <3>3, <1>2, <2>1 DEF Tells
      <4>2. g.buffer[i] = items[i]
        BY <3>1, <4>1 DEF Seen, items
      <4> QED BY <3>1, <3>3, <4>2, <2>3
    <3> QED BY <3>2, <3>3
  <2> QED
    <3>1. b \in Seq(Times) /\ n <= Len(b) /\ \A i \in 1 .. n : b[i] = items[i]
      BY <2>1, <2>3, <2>4, <1>0
    <3> HIDE DEF b
    <3>2. v \in GlyphsRecord
      BY <1>0, <1>1, <3>1 DEF GlyphsRecord
    <3>3. /\ v.buffer = b /\ v.count = n /\ v.time = instances.time
          /\ v.positions = g.positions /\ v.normals = g.normals /\ v.source = g.source
      BY <1>1 DEF GlyphsRecord
    <3> QED BY <3>1, <3>2, <3>3 DEF v, range, items
<1>4. CASE ~PartlyUploaded(g, range)
  <2>1. b = Rewritten(g.buffer)
    BY <1>4
  <2>2. b \in Seq(Times) /\ n <= Len(b) /\ \A i \in 1 .. n : b[i] = items[i]
    <3>1. CASE Len(g.buffer) >= n
      <4>1. b = Patched(g.buffer, items, all)
        BY <2>1, <3>1 DEF Rewritten, items
      <4>2. \A i \in Nat : In(i, all) <=> i \in 1 .. n
        BY <1>0 DEF In
      <4>3. \A i \in 1 .. Len(g.buffer) : In(i, all) => i \in 1 .. Len(items)
        BY <4>2, <1>0 DEF items
      <4>4. /\ b \in Seq(Times) /\ Len(b) = Len(g.buffer)
            /\ \A i \in 1 .. Len(g.buffer) : b[i] = IF In(i, all) THEN items[i] ELSE g.buffer[i]
        <5> HIDE DEF b, all
        <5> QED BY <1>0, <4>1, <4>3, PatchedItems
      <4> HIDE DEF b, all
      <4>5. \A i \in 1 .. n : i \in 1 .. Len(g.buffer) /\ In(i, all)
        BY <1>0, <3>1, <4>2
      <4> QED BY <3>1, <4>4, <4>5, <1>0
    <3>2. CASE ~(Len(g.buffer) >= n)
      <4>1. b = items
        BY <2>1, <3>2 DEF Rewritten, items
      <4> QED BY <4>1, <1>0 DEF items
    <3> QED BY <3>1, <3>2
  <2> QED
    <3> HIDE DEF b
    <3>2. v \in GlyphsRecord
      BY <1>0, <1>1, <2>2 DEF GlyphsRecord
    <3>3. /\ v.buffer = b /\ v.count = n /\ v.time = instances.time
          /\ v.positions = g.positions /\ v.normals = g.normals /\ v.source = g.source
      BY <1>1 DEF GlyphsRecord
    <3> QED BY <2>2, <3>2, <3>3 DEF v, range, items
<1> QED BY <1>3, <1>4

\* A surface has not changed since the device made its glyphs, or they are made anew.
GlyphsReady(v) ==
    /\ v \in GlyphsRecord /\ v.source = MTime /\ v.time = instances.time
    /\ v.count = Len(instances.items) /\ v.count <= Len(v.buffer)
    /\ \A i \in 1 .. v.count : v.buffer[i] = instances.items[i]
    /\ v.positions = points.items
    /\ normals # 0 => v.normals = Stamps(Count, normals)

LEMMA NewGlyphsReady ==
    ASSUME GpuGiven, DataInv
    PROVE  GlyphsReady(UploadedInstances(NewGlyphs, DirtySince(instances, 0)))
<1> DEFINE g == NewGlyphs
<1>1. /\ points.items \in Seq(Times) /\ Count \in Nat /\ normals \in Nat /\ MTime \in Times
  BY PointsTypes, SourceTimes DEF DataInv, PointsInv
<1>2. Stamps(Count, normals) \in Seq(Nat)
  BY <1>1 DEF Stamps
<1>3. /\ g.positions = points.items /\ g.normals = Stamps(Count, normals) /\ g.source = MTime
      /\ g.buffer = <<>> /\ g.count = 0 /\ g.time = 0
  BY DEF NewGlyphs
<1>4. g \in GlyphsRecord
  <2>1. <<>> \in Seq(Times) /\ 0 \in Nat
    OBVIOUS
  <2> QED BY <1>1, <1>2, <2>1 DEF NewGlyphs, GlyphsRecord
<1>5. Seen(g.buffer, instances.items, g.time)
  <2>1. \A i \in DOMAIN instances.items : ~(instances.items[i] <= 0)
    BY InstancesTypes DEF DataInv, Times
  <2> QED BY <1>3, <2>1 DEF Seen
<1> HIDE DEF g
<1>6. LET v == UploadedInstances(g, DirtySince(instances, 0))
      IN  /\ v \in GlyphsRecord /\ v.count = Len(instances.items) /\ v.time = instances.time
          /\ v.positions = g.positions /\ v.normals = g.normals /\ v.source = g.source
          /\ v.count <= Len(v.buffer)
          /\ \A i \in 1 .. v.count : v.buffer[i] = instances.items[i]
  <2>1. 0 \in Nat /\ (0 = g.time \/ g.buffer = <<>>)
    BY <1>3
  <2> QED BY <1>4, <1>5, <2>1, InstancesUploaded
<1> QED BY <1>3, <1>6 DEF GlyphsReady, g

LEMMA KeptGlyphsReady ==
    ASSUME GpuGiven, DataInv, NEW g, GlyphsKept(g), g.source = MTime
    PROVE  GlyphsReady(IF g.time = instances.time /\ g.count = Len(instances.items) THEN g
                       ELSE UploadedInstances(g, DirtySince(instances, g.time)))
<1>1. /\ g \in GlyphsRecord /\ g.time \in Nat /\ Seen(g.buffer, instances.items, g.time)
      /\ g.positions = points.items /\ (normals # 0 => g.normals = Stamps(Count, normals))
      /\ g.buffer \in Seq(Times) /\ Len(g.buffer) \in Nat
  BY DEF GlyphsKept, SourceKept, GlyphsRecord
<1>2. CASE g.time = instances.time /\ g.count = Len(instances.items)
  <2>1. /\ Len(instances.items) \in Nat /\ DOMAIN instances.items = 1 .. Len(instances.items)
        /\ \A i \in 1 .. Len(instances.items) : instances.items[i] <= instances.time
    BY InstancesTypes DEF DataInv
  <2>2. \A i \in 1 .. g.count : i \in DOMAIN g.buffer /\ g.buffer[i] = instances.items[i]
    BY <1>1, <1>2, <2>1 DEF Seen
  <2>3. g.count <= Len(g.buffer)
    <3>1. CASE g.count = 0
      BY <3>1, <1>1
    <3>2. CASE g.count # 0
      <4>1. g.count \in 1 .. g.count
        BY <3>2, <1>2, <2>1
      <4>2. g.count \in 1 .. Len(g.buffer)
        BY <4>1, <2>2, <1>1
      <4> QED BY <4>2
    <3> QED BY <3>1, <3>2
  <2> QED BY <1>1, <1>2, <2>2, <2>3 DEF GlyphsReady
<1>3. CASE ~(g.time = instances.time /\ g.count = Len(instances.items))
  <2>1. LET v == UploadedInstances(g, DirtySince(instances, g.time))
        IN  /\ v \in GlyphsRecord /\ v.count = Len(instances.items) /\ v.time = instances.time
            /\ v.positions = g.positions /\ v.normals = g.normals /\ v.source = g.source
            /\ v.count <= Len(v.buffer)
            /\ \A i \in 1 .. v.count : v.buffer[i] = instances.items[i]
    BY <1>1, InstancesUploaded
  <2> QED BY <1>1, <1>3, <2>1 DEF GlyphsReady
<1> QED BY <1>2, <1>3

LEMMA EnsureGlyphsKeeps ==
    ASSUME GpuGiven, DataInv, GlyphsInv, EnsureGlyphs
    PROVE  GlyphsInv' /\ GlyphsFresh'
<1>1. UNCHANGED <<clock, points, normals, bounds, cells, topology, attributes, scalars,
                  opacities, look, instances, mesh, surface>>
  BY DEF EnsureGlyphs
<1>2. PICK g : g = glyphs
  OBVIOUS
<1>3. PICK v : v = glyphs'
  OBVIOUS
<1>4. GlyphsReady(v)
  <2>1. CASE g # None /\ g.source = MTime
    <3>1. GlyphsKept(g)
      BY <1>2, <2>1 DEF GlyphsInv, GlyphsKept, SourceKept
    <3>2. v = IF g.time = instances.time /\ g.count = Len(instances.items) THEN g
              ELSE UploadedInstances(g, DirtySince(instances, g.time))
      BY <1>2, <1>3, <2>1 DEF EnsureGlyphs
    <3> QED BY <2>1, <3>1, <3>2, KeptGlyphsReady
  <2>2. CASE ~(g # None /\ g.source = MTime)
    <3>1. v = UploadedInstances(NewGlyphs, DirtySince(instances, 0))
      BY <1>2, <1>3, <2>2 DEF EnsureGlyphs
    <3> QED BY <3>1, NewGlyphsReady
  <2> QED BY <2>1, <2>2
<1>5. /\ v \in GlyphsRecord /\ v.source = MTime /\ v.time = instances.time
      /\ v.count = Len(instances.items) /\ v.count <= Len(v.buffer)
      /\ \A i \in 1 .. v.count : v.buffer[i] = instances.items[i]
      /\ v.positions = points.items /\ (normals # 0 => v.normals = Stamps(Count, normals))
  BY <1>4 DEF GlyphsReady
<1>6. /\ Len(instances.items) \in Nat /\ DOMAIN instances.items = 1 .. Len(instances.items)
      /\ instances.items \in Seq(Times) /\ v.buffer \in Seq(Times)
      /\ DOMAIN v.buffer = 1 .. Len(v.buffer) /\ Len(v.buffer) \in Nat
      /\ v.source <= clock /\ v.time <= clock
  BY <1>5, InstancesTypes, SourceTimes DEF DataInv, GlyphsRecord
<1>7. SourceKept(v) /\ Seen(v.buffer, instances.items, v.time)
  <2>1. \A i \in DOMAIN instances.items : i \in DOMAIN v.buffer /\ v.buffer[i] = instances.items[i]
    BY <1>5, <1>6
  <2> QED BY <1>5, <2>1 DEF SourceKept, Seen
<1>8. GlyphsKept(v)
  BY <1>5, <1>6, <1>7 DEF GlyphsKept
<1>9. GlyphsInv'
  BY <1>1, <1>3, <1>8 DEF GlyphsInv, GlyphsKept, SourceKept, MTime, Count
<1>10. GlyphsFresh'
  <2>1. SubSeq(v.buffer, 1, v.count) \in Seq(Times) /\ Len(SubSeq(v.buffer, 1, v.count)) = v.count
    BY <1>5, <1>6
  <2>2. \A i \in 1 .. v.count : SubSeq(v.buffer, 1, v.count)[i] = v.buffer[i]
    BY <1>5, <1>6
  <2>3. SubSeq(v.buffer, 1, v.count) = instances.items
    BY <1>5, <1>6, <2>1, <2>2, SameItems
  <2> QED BY <1>1, <1>3, <1>5, <2>3 DEF GlyphsFresh, Count
<1> QED BY <1>9, <1>10

-----------------------------------------------------------------------------
(* What is kept is shown as it is *)

LEMMA InvKept ==
    ASSUME GpuGiven, ~ExternalArrays, Inv, [Next]_gpuVars
    PROVE  Inv'
<1>0. DataInv /\ MeshInv /\ GlyphsInv /\ MeshFresh /\ GlyphsFresh
  BY DEF Inv
<1>1. CASE UNCHANGED gpuVars
  BY <1>0, <1>1
     DEF gpuVars, Inv, DataInv, NumbersInv, PointsInv, BoundsFresh, ScalarsInv, InstancesInv,
         MeshInv, Kept, MeshTyped, GeometryKept, Grown, SameSurface, ColoursCurrent, ColoursSeen,
         ColoursVisible, Count, Colours, Colourable, Colour, GlyphsInv, GlyphsKept, SourceKept,
         MTime, MeshFresh, GlyphsFresh
<1>2. CASE Next
  <2>0. DataInv'
    BY <1>0, <1>2, DataKept
  <2>1. CASE \/ ChangesPoints \/ (\E polygon \in BOOLEAN : AddCell(polygon)) \/ Clear
             \/ ChangesScalars \/ SetOpacities \/ ChangesLook \/ ChangesInstances
    <3>1. MeshInv' /\ GlyphsInv'
      BY <1>0, <2>0, <2>1, MeshKeptByData, GlyphsKeptByData
    <3>2. drawn' = FALSE
      BY <1>0, <2>1, PointsStep, CellStep, ClearStep, ScalarsStep, OpacitiesStep, LookStep,
         InstancesStep DEF Changed, Change
    <3>3. MeshFresh' /\ GlyphsFresh'
      BY <3>2 DEF MeshFresh, GlyphsFresh
    <3> QED BY <2>0, <3>1, <3>3 DEF Inv
  <2>2. CASE AskBounds
    <3>1. UNCHANGED <<clock, points, normals, cells, topology, attributes, scalars, opacities, look,
                      instances, mesh, glyphs, drawn, surface>>
      BY <2>2 DEF AskBounds, geometryOnly
    <3>2. MeshInv' /\ GlyphsInv' /\ MeshFresh' /\ GlyphsFresh'
      BY <1>0, <3>1
         DEF MeshInv, Kept, MeshTyped, GeometryKept, Grown, SameSurface, ColoursCurrent,
             ColoursSeen, ColoursVisible, Count, Colours, Colourable, Colour, GlyphsInv,
             GlyphsKept, SourceKept, MTime, MeshFresh, GlyphsFresh
    <3> QED BY <2>0, <3>2 DEF Inv
  <2>3. CASE EnsureMesh
    <3>1. MeshInv' /\ MeshFresh'
      BY <1>0, <2>3, EnsureMeshKeeps
    <3>2. /\ UNCHANGED <<points, normals, topology, attributes, instances, glyphs>>
          /\ clock <= clock' /\ clock \in Nat /\ clock' \in Nat
      BY <1>0, <2>3, <2>0, MeshStep DEF DataInv, NumbersInv, Times, EnsureMesh
    <3>3. GlyphsInv'
      <4>1. \A g : GlyphsKept(g) => GlyphsKept(g)'
        <5> SUFFICES ASSUME NEW g, GlyphsKept(g) PROVE GlyphsKept(g)'
          OBVIOUS
        <5>1. g.source \in Nat /\ g.time \in Nat /\ g.source <= clock /\ g.time <= clock
          BY DEF GlyphsKept, GlyphsRecord, Times
        <5>2. g.source <= clock' /\ g.time <= clock'
          BY <3>2, <5>1
        <5>3. SourceKept(g)'
          BY <3>2 DEF GlyphsKept, SourceKept, MTime, Count
        <5> QED BY <3>2, <5>2, <5>3 DEF GlyphsKept
      <4> QED BY <1>0, <3>2, <4>1, GlyphsUnchanged
    <3>4. GlyphsFresh'
      BY <2>3 DEF EnsureMesh, GlyphsFresh
    <3> QED BY <2>0, <3>1, <3>3, <3>4 DEF Inv
  <2>4. CASE EnsureGlyphs
    <3>1. GlyphsInv' /\ GlyphsFresh'
      BY <1>0, <2>4, EnsureGlyphsKeeps
    <3>2. UNCHANGED <<clock, points, normals, bounds, cells, topology, attributes, scalars,
                      opacities, look, instances, mesh, surface>>
      BY <2>4 DEF EnsureGlyphs
    <3>3. MeshInv'
      BY <1>0, <3>2 DEF MeshInv, Kept, MeshTyped, GeometryKept, Grown, SameSurface,
             ColoursCurrent, ColoursSeen, ColoursVisible, Count, Colours, Colourable, Colour
    <3>4. MeshFresh'
      BY <2>4 DEF EnsureGlyphs, MeshFresh
    <3> QED BY <2>0, <3>1, <3>3, <3>4 DEF Inv
  <2>5. CASE Destroy
    <3>1. mesh' = None /\ glyphs' = None /\ drawn' = FALSE
      BY <2>5 DEF Destroy
    <3>2. MeshInv' /\ GlyphsInv' /\ MeshFresh' /\ GlyphsFresh'
      BY <3>1 DEF MeshInv, GlyphsInv, MeshFresh, GlyphsFresh
    <3> QED BY <2>0, <3>2 DEF Inv
  <2> QED BY <1>2, <2>1, <2>2, <2>3, <2>4, <2>5, StepCases
<1> QED BY <1>1, <1>2

LEMMA InvBegins == ASSUME GpuGiven, Init PROVE Inv
<1>1. DataInv
  BY DataBegins
<1>2. mesh = None /\ glyphs = None /\ drawn = FALSE
  BY DEF Init
<1> QED BY <1>1, <1>2 DEF Inv, MeshInv, GlyphsInv, MeshFresh, GlyphsFresh

\* Whatever is edited, cleared, coloured and computed in between, a mesh made ready shows the
\* coordinates, normals and colours of now, and glyphs every instance: a history that is too
\* short, or does not know of a change, tells of everything.  Bounds are those of the points.
\* Arrays over the program's own memory are left out: they have no history.
THEOREM ShownAsItIs ==
    ASSUME GpuGiven, ~ExternalArrays
    PROVE  Spec => [](MeshFresh /\ GlyphsFresh /\ BoundsFresh)
<1>1. Init => Inv
  BY InvBegins
<1>2. Inv /\ [Next]_gpuVars => Inv'
  BY InvKept
<1>3. Inv => MeshFresh /\ GlyphsFresh /\ BoundsFresh
  BY DEF Inv, DataInv, PointsInv
<1> QED BY <1>1, <1>2, <1>3, PTL DEF Spec
=============================================================================
