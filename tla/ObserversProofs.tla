--------------------------- MODULE ObserversProofs ---------------------------
(***************************************************************************)
(* What a dispatch calls, and in which order, and what the reference       *)
(* counts of commands are, for every number of observers, commands and     *)
(* dispatches and every depth of nesting.                                  *)
(*                                                                         *)
(* While a dispatch is in progress the list only grows at its end and      *)
(* loses no entry: the positions that its loop counts stay those of the    *)
(* same observers.  What was there when the outermost dispatch began is    *)
(* in order; what came later is told by its activation.                    *)
(***************************************************************************)
EXTENDS Observers, FiniteSetTheorems, TLAPS

-----------------------------------------------------------------------------
(* The invariant *)

InOrder(l) == \A i, j \in DOMAIN l : i < j => Precedes(l[i], l[j])
Apart(l) == \A i, j \in DOMAIN l : l[i].tag = l[j].tag => i = j

\* References to a command: of the observers, and of the program.
Referenced(l, c) == Cardinality(HoldersOf(ToSet(l), c)) + (IF c \in owned THEN 1 ELSE 0)

FrameRecord ==
    [event : Events \cup {"DELETE"}, next : Nat \ {0}, count : Nat, calling : Nat \cup {None},
     called : Seq(Nat), aborted : BOOLEAN, due : SUBSET Nat, fresh : Nat]

Types ==
    /\ list \in Seq(Entry) /\ stack \in Seq(FrameRecord)
    /\ nextTag \in 1 .. MaxObservers + 1
    /\ serial \in 0 .. MaxDispatches + 1
    /\ needsCompaction \in BOOLEAN /\ needsSort \in BOOLEAN
    /\ references \in 0 .. 2
    /\ state \in {"live", "deleting", "freed"}
    /\ owned \subseteq Commands
    /\ state = "live" => references >= 1 /\ serial <= MaxDispatches
    /\ \A k \in DOMAIN stack : stack[k].event = "DELETE" => k = 1

\* An entry has a tag of its own, was added by now, and is counted where its command is.
ListInv ==
    /\ Apart(list)
    /\ \A i \in DOMAIN list : list[i].tag < nextTag /\ list[i].activation <= serial
    /\ needsSort \/ InOrder(list)
    /\ Depth = 0 => ~needsSort /\ ~needsCompaction
Exact(l, refs) == refs = [c \in Commands |-> Referenced(l, c)]
CommandInv == Exact(list, commandRefs)

\* The outermost dispatch knows what was there when it began.
Older(i) == i <= stack[1].count
BaseInv ==
    /\ stack[1].count <= Len(list) /\ stack[1].fresh <= nextTag
    /\ \A i \in DOMAIN list :
        IF Older(i) THEN list[i].tag < stack[1].fresh /\ list[i].activation < serial
        ELSE list[i].tag >= stack[1].fresh /\ list[i].activation = serial
    /\ \A i, j \in DOMAIN list : i < j /\ Older(j) => Precedes(list[i], list[j])

\* Where the loop of a dispatch stands; who was called was passed, in order.
Placed(f) ==
    /\ f.fresh = stack[1].fresh
    /\ stack[1].count <= f.count /\ f.count <= Len(list) /\ f.next <= f.count + 1
    /\ f.calling # None =>
        Older(f.next) /\ list[f.next].tag = f.calling /\ f.calling \in ToSet(f.called)
Passed(f, p) == p < f.next \/ (p = f.next /\ f.calling # None)
Called(f) ==
    \A i \in DOMAIN f.called :
        \E p \in DOMAIN list : Older(p) /\ Passed(f, p) /\ list[p].tag = f.called[i]
CallsInOrder(f) ==
    \A i, j \in DOMAIN f.called :
        i < j => Precedes(EntryOf(f.called[i]), EntryOf(f.called[j]))

\* Who is due and was passed has been called, or removed.
DueMatch(f) ==
    /\ \A t \in f.due : t < f.fresh
    /\ \A p \in DOMAIN list : list[p].tag \in f.due => Matches(list[p].event, f.event)
NonePassedOver(f) ==
    \A p \in DOMAIN list :
        p < f.next /\ list[p].active /\ list[p].tag \in f.due => list[p].tag \in ToSet(f.called)

FrameInv(f) ==
    Placed(f) /\ Called(f) /\ CallsInOrder(f) /\ DueMatch(f) /\ NonePassedOver(f)
StackInv == Depth > 0 => BaseInv /\ \A k \in DOMAIN stack : FrameInv(stack[k])

Inv == Types /\ ListInv /\ CommandInv /\ StackInv

-----------------------------------------------------------------------------
(* A set of observers has one arrangement *)

\* Tags that nobody has twice.
TagsApart(S) == \A o, p \in S : o.tag = p.tag => o = p

LEMMA PrecedesOrders ==
    ASSUME ObserversGiven, NEW o \in Entry, NEW p \in Entry
    PROVE  /\ ~Precedes(o, o)
           /\ o.tag # p.tag => Precedes(o, p) \/ Precedes(p, o)
           /\ \A q \in Entry : Precedes(o, p) /\ Precedes(p, q) => Precedes(o, q)
<1>1. \A q \in Entry : q.priority \in Priorities /\ q.tag \in 1 .. MaxObservers
  BY DEF Entry, Tags
<1>2. Priorities \subseteq Int /\ 1 .. MaxObservers \subseteq Int
  BY DEF ObserversGiven
<1>3. \A q \in Entry : q.priority \in Int /\ q.tag \in Int
  BY <1>1, <1>2
<1> QED BY <1>3 DEF Precedes

LEMMA ObserversFinite ==
    ASSUME ObserversGiven, NEW S \in SUBSET Entry, TagsApart(S)
    PROVE  IsFiniteSet(S)
<1> DEFINE f == [o \in S |-> o.tag]
<1>1. IsFiniteSet(Tags)
  BY FS_Interval DEF ObserversGiven, Tags
<1>2. f \in Injection(S, Tags)
  BY DEF Injection, IsInjective, TagsApart, Entry
<1> QED BY <1>1, <1>2, FS_Injection

LEMMA ArrangementExists ==
    ASSUME ObserversGiven, NEW S \in SUBSET Entry, TagsApart(S)
    PROVE  \E s \in [1 .. Cardinality(S) -> S] : InOrder(s)
<1> DEFINE before(o) == {p \in S : Precedes(p, o)}
           upTo(o) == before(o) \cup {o}
           rank == [o \in S |-> Cardinality(upTo(o))]
           n == Cardinality(S)
<1>1. IsFiniteSet(S) /\ n \in Nat
  BY ObserversFinite, FS_CardinalityType
<1>2. \A o \in S : IsFiniteSet(upTo(o)) /\ upTo(o) \subseteq S
  BY <1>1, FS_Subset
<1>3. rank \in [S -> 1 .. n]
  <2> SUFFICES ASSUME NEW o \in S PROVE Cardinality(upTo(o)) \in 1 .. n
    OBVIOUS
  <2>1. Cardinality(upTo(o)) \in Nat /\ Cardinality(upTo(o)) <= n
    BY <1>1, <1>2, FS_Subset, FS_CardinalityType
  <2>2. Cardinality(upTo(o)) # 0
    BY <1>2, FS_EmptySet
  <2> QED BY <2>1, <2>2, <1>1
<1>4. \A o, p \in S : Precedes(o, p) => rank[o] < rank[p]
  <2> SUFFICES ASSUME NEW o \in S, NEW p \in S, Precedes(o, p) PROVE rank[o] < rank[p]
    OBVIOUS
  <2>1. upTo(o) \subseteq upTo(p)
    BY PrecedesOrders
  <2>2. p \notin upTo(o)
    BY PrecedesOrders
  <2>3. Cardinality(upTo(o)) <= Cardinality(upTo(p)) /\ Cardinality(upTo(o)) # Cardinality(upTo(p))
    <3>1. p \in upTo(p)
      OBVIOUS
    <3> HIDE DEF upTo
    <3> QED BY <1>2, <2>1, <2>2, <3>1, FS_Subset
  <2> QED BY <1>3, <2>3
<1>5. rank \in Injection(S, 1 .. n)
  <2> SUFFICES ASSUME NEW o \in S, NEW p \in S, rank[o] = rank[p] PROVE o = p
    BY <1>3 DEF Injection, IsInjective
  <2>1. ~Precedes(o, p) /\ ~Precedes(p, o)
    BY <1>3, <1>4
  <2> QED BY <2>1, PrecedesOrders DEF TagsApart
<1>6. rank \in Surjection(S, 1 .. n)
  <2>1. IsFiniteSet(1 .. n) /\ Cardinality(1 .. n) = n
    BY <1>1, FS_Interval
  <2> HIDE DEF rank
  <2> QED BY <1>5, <2>1, FS_Injection
<1> DEFINE s == [k \in 1 .. n |-> CHOOSE o \in S : rank[o] = k]
<1>7. \A k \in 1 .. n : s[k] \in S /\ rank[s[k]] = k
  BY <1>6 DEF Surjection
<1>8. s \in [1 .. n -> S]
  BY <1>7
<1>9. InOrder(s)
  <2> SUFFICES ASSUME NEW i \in 1 .. n, NEW j \in 1 .. n, i < j PROVE Precedes(s[i], s[j])
    BY DEF InOrder
  <2>1. s[i] \in S /\ s[j] \in S /\ rank[s[i]] = i /\ rank[s[j]] = j
    BY <1>7
  <2> HIDE DEF rank, s
  <2>2. s[i].tag # s[j].tag
    BY <2>1, <1>1 DEF TagsApart
  <2>3. ~Precedes(s[j], s[i])
    BY <2>1, <1>1, <1>4
  <2> QED BY <2>1, <2>2, <2>3, PrecedesOrders
<1> QED BY <1>8, <1>9

\* It is in order, and of all of them.
LEMMA ArrangedIs ==
    ASSUME ObserversGiven, NEW S \in SUBSET Entry, TagsApart(S)
    PROVE  /\ Arranged(S) \in Seq(Entry)
           /\ ToSet(Arranged(S)) = S
           /\ InOrder(Arranged(S)) /\ Apart(Arranged(S))
<1> DEFINE n == Cardinality(S)
           s == Arranged(S)
<1>1. IsFiniteSet(S) /\ n \in Nat
  BY ObserversFinite, FS_CardinalityType
<1>2. s \in [1 .. n -> S] /\ InOrder(s)
  BY ArrangementExists DEF Arranged, InOrder
<1> HIDE DEF s
<1>3. \A i, j \in 1 .. n : i # j => s[i] # s[j] /\ s[i].tag # s[j].tag
  <2> SUFFICES ASSUME NEW i \in 1 .. n, NEW j \in 1 .. n, i < j
               PROVE  s[i] # s[j] /\ s[i].tag # s[j].tag
    BY <1>1
  <2>1. s[i] \in Entry /\ s[j] \in Entry /\ s[i] \in S /\ s[j] \in S /\ Precedes(s[i], s[j])
    BY <1>2 DEF InOrder
  <2>2. s[i] # s[j]
    BY <2>1, PrecedesOrders
  <2> QED BY <2>1, <2>2 DEF TagsApart
<1>4. s \in Injection(1 .. n, S)
  BY <1>2, <1>3 DEF Injection, IsInjective
<1>5. s \in Surjection(1 .. n, S)
  <2>1. IsFiniteSet(1 .. n) /\ Cardinality(1 .. n) = n
    BY <1>1, FS_Interval
  <2> QED BY <1>1, <1>4, <2>1, FS_Injection
<1>6. ToSet(s) = S
  BY <1>2, <1>5 DEF ToSet, Surjection
<1>7. s \in Seq(Entry)
  BY <1>1, <1>2
<1> QED BY <1>2, <1>3, <1>6, <1>7 DEF s, Apart

-----------------------------------------------------------------------------
(* Maintaining the list *)

LEMMA HoldersCounted ==
    ASSUME ObserversGiven, NEW S \in SUBSET Entry, NEW c
    PROVE  IsFiniteSet(HoldersOf(S, c)) /\ Cardinality(HoldersOf(S, c)) \in Nat
<1>1. IsFiniteSet(Tags)
  BY FS_Interval DEF ObserversGiven, Tags
<1>2. HoldersOf(S, c) \subseteq Tags
  BY DEF HoldersOf, Entry
<1> QED BY <1>1, <1>2, FS_Subset, FS_CardinalityType

LEMMA EntriesOfList ==
    ASSUME NEW l \in Seq(Entry), Apart(l)
    PROVE  ToSet(l) \in SUBSET Entry /\ TagsApart(ToSet(l))
BY DEF ToSet, Apart, TagsApart

LEMMA MaintainedIs ==
    ASSUME ObserversGiven, NEW depth, NEW l \in Seq(Entry), Apart(l), NEW refs, Exact(l, refs),
           NEW compact \in BOOLEAN, NEW sort \in BOOLEAN, sort \/ InOrder(l),
           Maintain(depth, l, refs, compact, sort)
    PROVE  /\ list' \in Seq(Entry) /\ Apart(list') /\ Exact(list', commandRefs')
           /\ \A i \in DOMAIN list' : \E j \in DOMAIN l : list'[i] = l[j]
           /\ needsSort' \in BOOLEAN /\ needsCompaction' \in BOOLEAN
           /\ needsSort' \/ InOrder(list')
           /\ IF depth = 0 THEN ~needsSort' /\ ~needsCompaction' ELSE list' = l
<1>1. CASE depth # 0
  BY <1>1 DEF Maintain, Deferred
<1>2. CASE depth = 0
  <2> DEFINE kept == {o \in ToSet(l) : compact => o.active}
  <2>1. /\ list' = IF compact \/ sort THEN Arranged(kept) ELSE l
        /\ commandRefs' = [c \in Commands |->
                             refs[c] - (Cardinality(HoldersOf(ToSet(l), c))
                                        - Cardinality(HoldersOf(kept, c)))]
        /\ needsCompaction' = FALSE /\ needsSort' = FALSE
    BY <1>2 DEF Maintain, Deferred
  <2>2. ToSet(l) \in SUBSET Entry /\ TagsApart(ToSet(l))
    BY EntriesOfList
  <2>3. kept \in SUBSET Entry /\ TagsApart(kept)
    BY <2>2 DEF TagsApart
  <2>4. ~compact => kept = ToSet(l)
    OBVIOUS
  <2>5. kept \subseteq ToSet(l)
    OBVIOUS
  <2> HIDE DEF kept
  <2>6. list' \in Seq(Entry) /\ Apart(list') /\ InOrder(list') /\ ToSet(list') = kept
    <3>1. CASE compact \/ sort
      BY <2>1, <2>3, <3>1, ArrangedIs
    <3>2. CASE ~compact /\ ~sort
      BY <2>1, <2>4, <3>2
    <3> QED BY <3>1, <3>2
  <2>7. Exact(list', commandRefs')
    <3> SUFFICES ASSUME NEW c \in Commands
                 PROVE  refs[c] - (Cardinality(HoldersOf(ToSet(l), c))
                                   - Cardinality(HoldersOf(kept, c))) = Referenced(list', c)
      BY <2>1 DEF Exact
    <3>1. /\ Cardinality(HoldersOf(ToSet(l), c)) \in Nat
          /\ Cardinality(HoldersOf(kept, c)) \in Nat
      BY <2>2, <2>3, HoldersCounted
    <3>2. refs[c] = Cardinality(HoldersOf(ToSet(l), c)) + (IF c \in owned THEN 1 ELSE 0)
      BY DEF Exact, Referenced
    <3> QED BY <2>6, <3>1, <3>2 DEF Referenced
  <2>8. \A i \in DOMAIN list' : \E j \in DOMAIN l : list'[i] = l[j]
    BY <2>5, <2>6 DEF ToSet
  <2> QED BY <1>2, <2>1, <2>6, <2>7, <2>8
<1> QED BY <1>1, <1>2

-----------------------------------------------------------------------------
(* Edits of the list *)

\* Entries keep their places and what they are, but may be deactivated; new ones are last.
SameEntry(o, p) ==
    /\ o.tag = p.tag /\ o.event = p.event /\ o.priority = p.priority
    /\ o.activation = p.activation /\ o.command = p.command
    /\ p.active => o.active
Edited(l) ==
    /\ l \in Seq(Entry) /\ Apart(l) /\ Len(list) <= Len(l)
    /\ \A i \in DOMAIN list : SameEntry(list[i], l[i])
    /\ \A i \in DOMAIN l : i > Len(list) => l[i].tag >= nextTag /\ l[i].activation = serial

LEMMA EntryAt ==
    ASSUME NEW l, Apart(l), NEW i \in DOMAIN l
    PROVE  l[CHOOSE j \in DOMAIN l : l[j].tag = l[i].tag] = l[i]
<1>1. (CHOOSE j \in DOMAIN l : l[j].tag = l[i].tag) = i
  BY DEF Apart
<1> QED BY <1>1

LEMMA PrecedesSame ==
    ASSUME NEW o, NEW p, NEW q, NEW r, SameEntry(o, q), SameEntry(p, r), Precedes(o, p)
    PROVE  Precedes(q, r)
BY DEF SameEntry, Precedes

LEMMA BaseIs ==
    ASSUME ObserversGiven, Types
    PROVE  /\ nextTag \in Nat /\ serial \in Nat
           /\ Depth > 0 => /\ 1 \in DOMAIN stack
                           /\ stack[1].count \in Nat /\ stack[1].fresh \in Nat
<1>1. nextTag \in Nat /\ serial \in Nat
  BY DEF Types, ObserversGiven
<1>2. ASSUME Depth > 0 PROVE 1 \in DOMAIN stack
  BY <1>2 DEF Types, Depth
<1>3. \A f \in FrameRecord : f.count \in Nat /\ f.fresh \in Nat
  BY DEF FrameRecord
<1>4. \A k \in DOMAIN stack : stack[k] \in FrameRecord
  BY DEF Types
<1> QED BY <1>1, <1>2, <1>3, <1>4

\* A dispatch goes on with the list that a callback has edited.
LEMMA FrameKept ==
    ASSUME ObserversGiven, Types, ListInv, Depth > 0, BaseInv, Edited(list'),
           UNCHANGED <<stack, serial>>,
           NEW f \in FrameRecord, FrameInv(f)
    PROVE  FrameInv(f)'
<1>1. /\ Len(list) <= Len(list') /\ Len(list) \in Nat /\ Len(list') \in Nat
      /\ DOMAIN list = 1 .. Len(list) /\ DOMAIN list' = 1 .. Len(list')
      /\ \A i \in DOMAIN list : i \in DOMAIN list' /\ SameEntry(list[i], list'[i])
  BY DEF Edited, Types
<1>2. /\ stack[1].count \in Nat /\ stack[1].fresh \in Nat /\ stack[1].count <= Len(list)
      /\ stack'[1] = stack[1]
  BY BaseIs DEF BaseInv
<1>3. f.next \in Nat /\ f.count \in Nat /\ f.called \in Seq(Nat)
  BY DEF FrameRecord
<1>4. Placed(f)'
  <2>1. ASSUME f.calling # None
        PROVE  Older(f.next)' /\ list'[f.next].tag = f.calling /\ f.calling \in ToSet(f.called)
    <3>1. Older(f.next) /\ list[f.next].tag = f.calling /\ f.calling \in ToSet(f.called)
      BY <2>1 DEF FrameInv, Placed
    <3>2. f.next \in DOMAIN list
      BY <3>1, <1>1, <1>2, <1>3 DEF Older, FrameRecord
    <3> QED BY <3>1, <3>2, <1>1, <1>2 DEF Older, SameEntry
  <2> QED BY <2>1, <1>1, <1>2, <1>3 DEF FrameInv, Placed
<1>5. ASSUME NEW i \in DOMAIN f.called
      PROVE  \E p \in DOMAIN list :
                 /\ Older(p) /\ Older(p)' /\ Passed(f, p) /\ list[p].tag = f.called[i]
                 /\ p \in DOMAIN list' /\ list'[p].tag = f.called[i]
                 /\ EntryOf(f.called[i]) = list[p] /\ EntryOf(f.called[i])' = list'[p]
  <2>1. PICK p \in DOMAIN list : Older(p) /\ Passed(f, p) /\ list[p].tag = f.called[i]
    BY DEF FrameInv, Called
  <2>2. p \in DOMAIN list' /\ list'[p].tag = f.called[i] /\ Older(p)'
    BY <2>1, <1>1, <1>2 DEF SameEntry, Older
  <2>3. EntryOf(f.called[i]) = list[p]
    BY <2>1, EntryAt DEF EntryOf, ListInv
  <2>4. EntryOf(f.called[i])' = list'[p]
    <3>1. Apart(list')
      BY DEF Edited
    <3> QED BY <2>2, <3>1, EntryAt DEF EntryOf
  <2> QED BY <2>1, <2>2, <2>3, <2>4
<1>6. Called(f)'
  BY <1>5 DEF Called, Passed
<1>7. CallsInOrder(f)'
  <2> SUFFICES ASSUME NEW i \in DOMAIN f.called, NEW j \in DOMAIN f.called, i < j
               PROVE  Precedes(EntryOf(f.called[i])', EntryOf(f.called[j])')
    BY DEF CallsInOrder
  <2>1. Precedes(EntryOf(f.called[i]), EntryOf(f.called[j]))
    BY DEF FrameInv, CallsInOrder
  <2>2. /\ SameEntry(EntryOf(f.called[i]), EntryOf(f.called[i])')
        /\ SameEntry(EntryOf(f.called[j]), EntryOf(f.called[j])')
    BY <1>1, <1>5
  <2> QED BY <2>1, <2>2, PrecedesSame
<1>8. \A p \in DOMAIN list' : p \notin DOMAIN list => list'[p].tag >= f.fresh
  <2>1. f.fresh <= nextTag /\ f.fresh \in Nat /\ nextTag \in Nat
    BY <1>2 DEF FrameInv, Placed, BaseInv, Types, ObserversGiven
  <2>2. \A p \in DOMAIN list' : p \notin DOMAIN list => list'[p].tag >= nextTag
    BY <1>1 DEF Edited
  <2>3. \A p \in DOMAIN list' : list'[p].tag \in Nat
    <3>1. \A p \in DOMAIN list' : list'[p] \in Entry
      BY DEF Edited
    <3>2. Tags \subseteq Nat
      BY DEF Tags, ObserversGiven
    <3> QED BY <3>1, <3>2 DEF Entry
  <2> QED BY <2>1, <2>2, <2>3
<1>9. \A p \in DOMAIN list' : list'[p].tag \in f.due => p \in DOMAIN list
  <2> SUFFICES ASSUME NEW p \in DOMAIN list', list'[p].tag \in f.due, p \notin DOMAIN list
               PROVE  FALSE
    OBVIOUS
  <2>1. list'[p].tag < f.fresh /\ list'[p].tag >= f.fresh
    BY <1>8 DEF FrameInv, DueMatch
  <2>2. list'[p].tag \in Nat /\ f.fresh \in Nat
    BY DEF FrameRecord
  <2> QED BY <2>1, <2>2
<1>10. DueMatch(f)'
  BY <1>1, <1>9 DEF FrameInv, DueMatch, SameEntry
<1>11. NonePassedOver(f)'
  <2> SUFFICES ASSUME NEW p \in DOMAIN list', p < f.next, list'[p].active, list'[p].tag \in f.due
               PROVE  list'[p].tag \in ToSet(f.called)
    BY DEF NonePassedOver
  <2>1. p \in DOMAIN list /\ SameEntry(list[p], list'[p])
    BY <1>1, <1>9
  <2> QED BY <2>1 DEF SameEntry, FrameInv, NonePassedOver
<1> QED BY <1>4, <1>6, <1>7, <1>10, <1>11 DEF FrameInv

LEMMA BaseKept ==
    ASSUME ObserversGiven, Types, ListInv, Depth > 0, BaseInv, Edited(list'),
           UNCHANGED <<stack, serial>>, nextTag <= nextTag', nextTag' \in Nat
    PROVE  BaseInv'
<1>1. /\ Len(list) <= Len(list') /\ Len(list) \in Nat /\ Len(list') \in Nat
      /\ DOMAIN list = 1 .. Len(list) /\ DOMAIN list' = 1 .. Len(list')
      /\ \A i \in DOMAIN list : i \in DOMAIN list' /\ SameEntry(list[i], list'[i])
  BY DEF Edited, Types
<1>2. /\ stack[1].count \in Nat /\ stack[1].fresh \in Nat /\ nextTag \in Nat
      /\ stack[1].count <= Len(list) /\ stack[1].fresh <= nextTag
      /\ stack'[1] = stack[1] /\ serial' = serial
  BY BaseIs DEF BaseInv
<1>3. \A i \in DOMAIN list' : list'[i].tag \in Nat
  <2>1. \A p \in DOMAIN list' : list'[p] \in Entry
    BY DEF Edited
  <2>2. Tags \subseteq Nat
    BY DEF Tags, ObserversGiven
  <2> QED BY <2>1, <2>2 DEF Entry
<1>4. ASSUME NEW i \in DOMAIN list'
      PROVE  IF Older(i) THEN list'[i].tag < stack[1].fresh /\ list'[i].activation < serial
             ELSE list'[i].tag >= stack[1].fresh /\ list'[i].activation = serial
  <2>1. CASE i \in DOMAIN list
    BY <2>1, <1>1 DEF BaseInv, SameEntry
  <2>2. CASE i \notin DOMAIN list
    <3>1. i > Len(list)
      BY <2>2, <1>1
    <3>2. list'[i].tag >= nextTag /\ list'[i].activation = serial
      BY <3>1 DEF Edited
    <3> QED BY <3>1, <3>2, <1>1, <1>2, <1>3 DEF Older
  <2> QED BY <2>1, <2>2
<1>5. ASSUME NEW i \in DOMAIN list', NEW j \in DOMAIN list', i < j, Older(j)
      PROVE  Precedes(list'[i], list'[j])
  <2>1. i \in DOMAIN list /\ j \in DOMAIN list
    BY <1>1, <1>2, <1>5 DEF Older
  <2>2. Precedes(list[i], list[j])
    BY <2>1, <1>5 DEF BaseInv
  <2> QED BY <2>1, <2>2, <1>1, PrecedesSame
<1> QED BY <1>1, <1>2, <1>4, <1>5 DEF BaseInv, Older

LEMMA EditKept ==
    ASSUME ObserversGiven, Inv, NEW l, Edited(l), NEW refs, Exact(l, refs),
           NEW compact \in BOOLEAN, NEW sort \in BOOLEAN, sort \/ InOrder(l),
           Maintain(Depth, l, refs, compact, sort),
           nextTag' \in 1 .. MaxObservers + 1, nextTag <= nextTag',
           \A i \in DOMAIN l : l[i].tag < nextTag' /\ l[i].activation <= serial,
           UNCHANGED <<serial, stack, references, state, owned>>
    PROVE  Inv'
<1>1. Types /\ ListInv /\ StackInv
  BY DEF Inv
<1>2. /\ list' \in Seq(Entry) /\ Apart(list') /\ Exact(list', commandRefs')
      /\ \A i \in DOMAIN list' : \E j \in DOMAIN l : list'[i] = l[j]
      /\ needsSort' \in BOOLEAN /\ needsCompaction' \in BOOLEAN
      /\ needsSort' \/ InOrder(list')
      /\ IF Depth = 0 THEN ~needsSort' /\ ~needsCompaction' ELSE list' = l
  BY MaintainedIs DEF Edited
<1>3. Types'
  BY <1>1, <1>2 DEF Types
<1>4. ListInv'
  BY <1>2 DEF ListInv, Depth
<1>5. CommandInv'
  BY <1>2 DEF CommandInv, Exact, Referenced
<1>6. StackInv'
  <2>1. CASE Depth = 0
    BY <2>1 DEF StackInv, Depth
  <2>2. CASE Depth # 0
    <3>1. Depth > 0 /\ BaseInv /\ Edited(list')
      BY <2>2, <1>1, <1>2 DEF StackInv, Depth, Types
    <3>2. BaseInv'
      BY <3>1, <1>1, BaseKept DEF ObserversGiven
    <3>3. \A k \in DOMAIN stack : FrameInv(stack[k])'
      BY <3>1, <1>1, FrameKept DEF StackInv, Types
    <3> QED BY <3>2, <3>3 DEF StackInv
  <2> QED BY <2>1, <2>2
<1> QED BY <1>3, <1>4, <1>5, <1>6 DEF Inv

LEMMA AddKept ==
    ASSUME ObserversGiven, Inv,
           NEW event \in ObservedEvents, NEW p \in Priorities, NEW c \in Commands \cup {None},
           AddObserver(event, p, c)
    PROVE  Inv'
<1> DEFINE o == [tag |-> nextTag, event |-> event, priority |-> p,
                 activation |-> Activation, command |-> c, active |-> TRUE]
           l == Append(list, o)
           refs == [d \in Commands |-> IF d = c THEN commandRefs[d] + 1 ELSE commandRefs[d]]
<1>0. Types /\ ListInv /\ CommandInv /\ nextTag \in Nat /\ serial \in Nat
  BY BaseIs DEF Inv
<1>1. /\ nextTag <= MaxObservers /\ nextTag' = nextTag + 1
      /\ Maintain(Depth, l, refs, needsCompaction, TRUE)
      /\ UNCHANGED <<serial, stack, references, state, owned>>
  BY DEF AddObserver, SortNeeded
<1>2. o \in Entry
  BY <1>0, <1>1 DEF Entry, Tags, Activation, Types, ObserversGiven
<1>3. /\ l \in Seq(Entry) /\ Len(l) = Len(list) + 1 /\ Len(list) \in Nat
      /\ \A i \in DOMAIN list : i \in DOMAIN l /\ l[i] = list[i]
      /\ \A i \in DOMAIN l : i \in DOMAIN list \/ (i = Len(list) + 1 /\ l[i] = o)
  BY <1>0, <1>2 DEF Types
<1>4. o.tag = nextTag /\ o.activation = serial /\ o.command = c
  BY DEF Activation
<1> HIDE DEF o, l
<1>5. Apart(l)
  <2>1. \A i \in DOMAIN list : list[i].tag < nextTag /\ list[i].tag \in Nat
    <3>1. \A e \in Entry : e.tag \in Nat
      BY DEF Entry, Tags, ObserversGiven
    <3> QED BY <1>0, <3>1 DEF ListInv, Types
  <2> QED BY <1>0, <1>3, <1>4, <2>1 DEF Apart, ListInv
<1>6. Edited(l)
  BY <1>0, <1>3, <1>4, <1>5 DEF Edited, SameEntry
<1>7. Exact(l, refs)
  <2> SUFFICES ASSUME NEW d \in Commands PROVE refs[d] = Referenced(l, d)
    BY DEF Exact
  <2>1. commandRefs[d] = Referenced(list, d)
    BY <1>0 DEF CommandInv, Exact
  <2>2. ToSet(list) \in SUBSET Entry
    BY <1>0 DEF ToSet, Types
  <2>3. /\ IsFiniteSet(HoldersOf(ToSet(list), d))
        /\ Cardinality(HoldersOf(ToSet(list), d)) \in Nat
    BY <2>2, HoldersCounted
  <2>4. ToSet(l) = ToSet(list) \cup {o}
    <3>1. Len(list) + 1 \in DOMAIN l /\ l[Len(list) + 1] = o
      BY <1>3
    <3> QED BY <1>3, <3>1 DEF ToSet
  <2>5. HoldersOf(ToSet(l), d) = IF d = c THEN HoldersOf(ToSet(list), d) \cup {nextTag}
                                 ELSE HoldersOf(ToSet(list), d)
    BY <2>4, <1>4 DEF HoldersOf
  <2>6. nextTag \notin HoldersOf(ToSet(list), d)
    BY <1>0 DEF HoldersOf, ToSet, ListInv
  <2>7. d = c => Cardinality(HoldersOf(ToSet(l), d)) = Cardinality(HoldersOf(ToSet(list), d)) + 1
    BY <2>3, <2>5, <2>6, FS_AddElement
  <2> QED BY <2>1, <2>3, <2>5, <2>7 DEF Referenced
<1>8. \A i \in DOMAIN l : l[i].tag < nextTag' /\ l[i].activation <= serial
  <2>1. \A i \in DOMAIN list : list[i].tag < nextTag /\ list[i].tag \in Nat
    <3>1. \A e \in Entry : e.tag \in Nat
      BY DEF Entry, Tags, ObserversGiven
    <3> QED BY <1>0, <3>1 DEF ListInv, Types
  <2> QED BY <1>0, <1>1, <1>3, <1>4, <2>1 DEF ListInv
<1>9. nextTag' \in 1 .. MaxObservers + 1 /\ nextTag <= nextTag'
  BY <1>0, <1>1 DEF ObserversGiven
<1> HIDE DEF refs
<1>10. needsCompaction \in BOOLEAN
  BY <1>0 DEF Types
<1> QED BY <1>1, <1>6, <1>7, <1>8, <1>9, <1>10, EditKept

\* Entries that are deactivated keep their references until they are compacted.
LEMMA DeactivatedKept ==
    ASSUME ObserversGiven, Inv, NEW tags,
           Maintain(Depth, Deactivated(tags), commandRefs, TRUE, needsSort),
           UNCHANGED <<nextTag, serial, stack, references, state, owned>>
    PROVE  Inv'
<1> DEFINE l == Deactivated(tags)
<1>0. Types /\ ListInv /\ CommandInv
  BY DEF Inv
<1>1. /\ l \in Seq(Entry) /\ DOMAIN l = DOMAIN list /\ Len(l) = Len(list)
      /\ \A i \in DOMAIN list : SameEntry(list[i], l[i])
  <2>1. \A e \in Entry : /\ [e EXCEPT !.active = FALSE] \in Entry
                         /\ SameEntry(e, [e EXCEPT !.active = FALSE])
    BY DEF Entry, SameEntry
  <2>2. \A i \in DOMAIN list : list[i] \in Entry /\ SameEntry(list[i], list[i])
    BY <1>0 DEF Types, SameEntry
  <2>3. DOMAIN list = 1 .. Len(list) /\ Len(list) \in Nat
    BY <1>0 DEF Types
  <2>4. DOMAIN l = 1 .. Len(list)
    BY <2>3 DEF Deactivated
  <2>5. \A i \in DOMAIN list : l[i] \in Entry /\ SameEntry(list[i], l[i])
    BY <2>1, <2>2 DEF Deactivated
  <2>6. l = [i \in 1 .. Len(list) |-> l[i]]
    BY <2>3 DEF Deactivated
  <2> HIDE DEF l
  <2> QED BY <2>3, <2>4, <2>5, <2>6
<1> HIDE DEF l
<1>2. Apart(l)
  BY <1>0, <1>1 DEF Apart, ListInv, SameEntry
<1>3. Edited(l)
  BY <1>0, <1>1, <1>2 DEF Edited, Types
<1>4. Exact(l, commandRefs)
  <2>1. \A d \in Commands : HoldersOf(ToSet(l), d) = HoldersOf(ToSet(list), d)
    BY <1>1 DEF HoldersOf, ToSet, SameEntry
  <2> QED BY <1>0, <2>1 DEF CommandInv, Exact, Referenced
<1>5. needsSort \/ InOrder(l)
  <2>1. \A i, j \in DOMAIN list : Precedes(list[i], list[j]) => Precedes(l[i], l[j])
    BY <1>1, PrecedesSame
  <2> QED BY <1>0, <1>1, <2>1 DEF ListInv, InOrder
<1>6. \A i \in DOMAIN l : l[i].tag < nextTag' /\ l[i].activation <= serial
  BY <1>0, <1>1 DEF ListInv, SameEntry
<1>7. nextTag' \in 1 .. MaxObservers + 1 /\ nextTag <= nextTag' /\ needsSort \in BOOLEAN
  BY <1>0, BaseIs DEF Types
<1>8. Maintain(Depth, l, commandRefs, TRUE, needsSort)
  BY DEF l
<1> QED BY <1>3, <1>4, <1>5, <1>6, <1>7, <1>8, EditKept

-----------------------------------------------------------------------------
(* Steps that leave the list *)

\* What is said of a dispatch depends on the list and on what the outermost one knows.
LEMMA FrameSame ==
    ASSUME list' = list, stack'[1].count = stack[1].count, stack'[1].fresh = stack[1].fresh,
           NEW f, FrameInv(f)
    PROVE  FrameInv(f)'
<1>1. \A i : Older(i)' <=> Older(i)
  BY DEF Older
<1>2. \A t : EntryOf(t)' = EntryOf(t)
  BY DEF EntryOf
<1>3. Placed(f)'
  BY <1>1 DEF FrameInv, Placed
<1>4. Called(f)' /\ CallsInOrder(f)'
  BY <1>1, <1>2 DEF FrameInv, Called, CallsInOrder, Passed
<1>5. DueMatch(f)' /\ NonePassedOver(f)'
  BY DEF FrameInv, DueMatch, NonePassedOver
<1> QED BY <1>3, <1>4, <1>5 DEF FrameInv

LEMMA BaseSame ==
    ASSUME BaseInv, UNCHANGED <<list, serial, nextTag>>,
           stack'[1].count = stack[1].count, stack'[1].fresh = stack[1].fresh
    PROVE  BaseInv'
BY DEF BaseInv, Older

\* Only the program's references change.
LEMMA ReferencesKept ==
    ASSUME Inv, Types', CommandInv',
           UNCHANGED <<list, nextTag, serial, needsCompaction, needsSort, stack>>
    PROVE  Inv'
<1>1. ListInv'
  BY DEF Inv, ListInv, Apart, InOrder, Depth
<1>2. StackInv'
  <2> SUFFICES ASSUME Depth > 0 PROVE BaseInv' /\ \A k \in DOMAIN stack' : FrameInv(stack[k])'
    BY DEF StackInv, Depth
  <2>1. BaseInv /\ \A k \in DOMAIN stack : FrameInv(stack[k])
    BY DEF Inv, StackInv
  <2> QED BY <2>1, BaseSame, FrameSame
<1> QED BY <1>1, <1>2 DEF Inv

LEMMA ReleaseCommandKept ==
    ASSUME ObserversGiven, Inv, NEW c \in Commands, ReleaseCommand(c)
    PROVE  Inv'
<1>1. Types'
  BY DEF ReleaseCommand, Inv, Types
<1>2. CommandInv'
  <2>1. /\ c \in owned /\ owned' = owned \ {c} /\ list' = list
        /\ commandRefs' = [commandRefs EXCEPT ![c] = @ - 1]
    BY DEF ReleaseCommand
  <2>2. commandRefs = [d \in Commands |-> Referenced(list, d)]
    BY DEF Inv, CommandInv, Exact
  <2>3. ToSet(list) \in SUBSET Entry
    BY DEF ToSet, Inv, Types
  <2>4. Cardinality(HoldersOf(ToSet(list), c)) \in Nat
    BY <2>3, HoldersCounted
  <2>5. \A d \in Commands : commandRefs'[d] = Referenced(list, d)'
    BY <2>1, <2>2, <2>4 DEF Referenced
  <2>6. commandRefs' = [d \in Commands |-> commandRefs'[d]]
    BY <2>1, <2>2
  <2> QED BY <2>1, <2>5, <2>6 DEF CommandInv, Exact
<1> QED BY <1>1, <1>2, ReferencesKept DEF ReleaseCommand

LEMMA RetainKept == ASSUME ObserversGiven, Inv, Retain PROVE Inv'
<1>1. Types'
  BY DEF Retain, Inv, Types
<1>2. CommandInv'
  BY DEF Retain, Inv, CommandInv, Exact, Referenced
<1> QED BY <1>1, <1>2, ReferencesKept DEF Retain

-----------------------------------------------------------------------------
(* A dispatch begins *)

LEMMA FrameBegins ==
    ASSUME ObserversGiven, Types, ListInv, NEW event \in Events \cup {"DELETE"},
           NEW f, f = Frame(event, list), list' = list,
           stack'[1].fresh = f.fresh, stack'[1].count <= Len(list)
    PROVE  f \in FrameRecord /\ FrameInv(f)'
<1>1. nextTag \in Nat /\ Len(list) \in Nat
  BY BaseIs DEF Types
<1>2. f.fresh \in Nat
  <2>1. CASE Depth = 0
    BY <2>1, <1>1 DEF Frame
  <2>2. CASE Depth # 0
    <3>1. Depth > 0
      BY <2>2 DEF Depth, Types
    <3> QED BY <2>2, <3>1, BaseIs DEF Frame
  <2> QED BY <2>1, <2>2
<1>3. /\ f.event = event /\ f.next = 1 /\ f.count = Len(list) /\ f.calling = None
      /\ f.called = <<>> /\ f.aborted = FALSE
  BY DEF Frame
<1>4. /\ \A t \in f.due : t < f.fresh
      /\ \A t \in f.due : \E i \in DOMAIN list : list[i].tag = t /\ Matches(list[i].event, event)
  BY DEF Frame
<1>5. f.due \subseteq Nat
  <2>1. \A i \in DOMAIN list : list[i].tag \in Nat
    <3>1. \A e \in Entry : e.tag \in Nat
      BY DEF Entry, Tags, ObserversGiven
    <3> QED BY <3>1 DEF Types
  <2> QED BY <1>4, <2>1
<1>6. f \in FrameRecord
  <2>1. f = [event |-> f.event, next |-> f.next, count |-> f.count, calling |-> f.calling,
             called |-> f.called, aborted |-> f.aborted, due |-> f.due, fresh |-> f.fresh]
    BY DEF Frame
  <2>2. /\ f.event \in Events \cup {"DELETE"} /\ f.next \in Nat \ {0} /\ f.count \in Nat
        /\ f.calling \in Nat \cup {None} /\ f.called \in Seq(Nat) /\ f.aborted \in BOOLEAN
        /\ f.due \in SUBSET Nat /\ f.fresh \in Nat
    <3>1. <<>> \in Seq(Nat)
      OBVIOUS
    <3>2. f.called \in Seq(Nat)
      BY <1>3, <3>1
    <3>3. f.event \in Events \cup {"DELETE"} /\ f.next \in Nat \ {0}
      BY <1>3
    <3>4. f.count \in Nat /\ f.calling \in Nat \cup {None}
      BY <1>1, <1>3
    <3>5. f.aborted = FALSE
      BY <1>3
    <3>6. f.aborted \in BOOLEAN
      BY <3>5, Zenon
    <3> QED BY <1>2, <1>5, <3>2, <3>3, <3>4, <3>6
  <2> QED BY <2>1, <2>2 DEF FrameRecord
<1>7. Placed(f)'
  BY <1>1, <1>3 DEF Placed
<1>8. Called(f)' /\ CallsInOrder(f)'
  BY <1>3 DEF Called, CallsInOrder
<1>9. DueMatch(f)'
  BY <1>3, <1>4 DEF DueMatch, ListInv, Apart
<1>10. NonePassedOver(f)'
  <2>1. \A p \in DOMAIN list : ~(p < 1)
    BY DEF Types
  <2> QED BY <1>3, <2>1 DEF NonePassedOver
<1> QED BY <1>6, <1>7, <1>8, <1>9, <1>10 DEF FrameInv

\* Outside every dispatch the list is in order and nothing is left to maintain.
LEMMA BeginKept ==
    ASSUME ObserversGiven, Inv, NEW event \in Events \cup {"DELETE"}, Begin(event),
           event = "DELETE" => Depth = 0,
           UNCHANGED <<nextTag, owned>>,
           references' \in 0 .. 2, state' \in {"live", "deleting", "freed"},
           Depth = 0 => serial <= MaxDispatches,
           state' = "live" => references' >= 1 /\ serial' <= MaxDispatches
    PROVE  Inv'
<1> PICK f : f = Frame(event, list)
  OBVIOUS
<1>0. Types /\ ListInv /\ CommandInv /\ StackInv /\ serial \in Nat /\ nextTag \in Nat
  BY BaseIs DEF Inv
<1>1. CASE Depth = 0
  <2>1. Maintain(0, list, commandRefs, needsCompaction, needsSort) /\ serial' = serial + 1
    BY <1>1 DEF Begin
  <2>2. ~needsCompaction /\ ~needsSort
    BY <1>0, <1>1 DEF ListInv
  <2>3. list' = list
    BY <2>1, <2>2 DEF Maintain, Deferred
  <2>4. Exact(list', commandRefs') /\ needsSort' = FALSE /\ needsCompaction' = FALSE
    BY <1>0, <2>1, <2>2, <2>3, MaintainedIs DEF CommandInv, ListInv, Types
  <2>5. stack = <<>> /\ stack' = <<f>>
    BY <1>0, <1>1, <2>3 DEF Begin, Depth, Types
  <2>6. f.fresh = nextTag /\ f.count = Len(list) /\ f.event = event /\ Len(list) \in Nat
    BY <1>0, <1>1 DEF Frame, Types
  <2>7. stack'[1] = f /\ DOMAIN stack' = {1}
    BY <2>5
  <2>8. f \in FrameRecord /\ FrameInv(f)'
    BY <1>0, <2>3, <2>6, <2>7, FrameBegins
  <2>9. Types'
    <3>1. stack' \in Seq(FrameRecord)
      BY <2>5, <2>8
    <3>2. serial' \in 0 .. MaxDispatches + 1
      BY <1>0, <1>1, <2>1 DEF ObserversGiven
    <3> QED BY <1>0, <2>3, <2>4, <2>6, <2>7, <3>1, <3>2 DEF Types
  <2>10. \A i \in DOMAIN list : list[i].activation \in Nat /\ list[i].activation <= serial
    <3>1. \A e \in Entry : e.activation \in Nat
      BY DEF Entry, ObserversGiven
    <3> QED BY <1>0, <3>1 DEF ListInv, Types
  <2>11. ListInv'
    <3>1. InOrder(list)
      BY <1>0, <2>2 DEF ListInv
    <3> QED BY <1>0, <2>1, <2>3, <2>4, <2>10, <3>1 DEF ListInv
  <2>12. CommandInv'
    BY <2>4 DEF CommandInv, Exact, Referenced
  <2>13. BaseInv'
    <3>1. \A i \in DOMAIN list : i <= Len(list)
      BY <1>0 DEF Types
    <3>2. \A i \in DOMAIN list : list[i].activation < serial'
      BY <1>0, <2>1, <2>10
    <3>3. InOrder(list)
      BY <1>0, <2>2 DEF ListInv
    <3> QED BY <1>0, <2>3, <2>6, <2>7, <3>1, <3>2, <3>3 DEF BaseInv, Older, ListInv, InOrder
  <2>14. StackInv'
    <3>1. ASSUME NEW k \in DOMAIN stack' PROVE FrameInv(stack[k])'
      <4>1. f = stack'[k]
        BY <2>7
      <4> QED BY <2>8, <4>1
    <3> QED BY <2>13, <3>1 DEF StackInv
  <2> QED BY <2>9, <2>11, <2>12, <2>14 DEF Inv
<1>2. CASE Depth # 0
  <2>1. /\ UNCHANGED <<list, needsSort, needsCompaction, commandRefs, serial, nextTag, owned>>
        /\ stack' = Append(stack, f)
    BY <1>2 DEF Begin
  <2>2. Depth > 0 /\ 1 \in DOMAIN stack /\ stack \in Seq(FrameRecord)
    BY <1>0, <1>2, BaseIs DEF Depth, Types
  <2>3. BaseInv /\ \A k \in DOMAIN stack : FrameInv(stack[k])
    BY <1>0, <2>2 DEF StackInv
  <2>4. f.fresh = stack[1].fresh /\ f.event = event
    BY <1>2 DEF Frame
  <2>5. stack'[1] = stack[1]
    BY <2>1, <2>2
  <2>6. f \in FrameRecord /\ FrameInv(f)'
    BY <1>0, <2>1, <2>3, <2>4, <2>5, FrameBegins DEF BaseInv
  <2>7. stack' \in Seq(FrameRecord) /\ Len(stack') > 0
    BY <2>1, <2>2, <2>6
  <2>8. \A k \in DOMAIN stack' : (k \in DOMAIN stack /\ stack'[k] = stack[k]) \/ stack'[k] = f
    BY <2>1, <2>2
  <2>9. Types'
    <3>1. event # "DELETE"
      BY <1>2
    <3> QED BY <1>0, <2>1, <2>4, <2>7, <2>8, <3>1 DEF Types
  <2>10. ListInv'
    BY <1>0, <2>1, <2>7 DEF ListInv, Depth, Apart, InOrder
  <2>11. CommandInv'
    BY <1>0, <2>1 DEF CommandInv, Exact, Referenced
  <2>12. StackInv'
    <3>1. BaseInv'
      BY <2>1, <2>3, <2>5, BaseSame
    <3>2. ASSUME NEW k \in DOMAIN stack' PROVE FrameInv(stack[k])'
      <4> PICK g : g = stack'[k]
        OBVIOUS
      <4>1. FrameInv(g)'
        BY <2>1, <2>3, <2>5, <2>6, <2>8, FrameSame
      <4> QED BY <4>1
    <3> QED BY <3>1, <3>2 DEF StackInv
  <2> QED BY <2>9, <2>10, <2>11, <2>12 DEF Inv
<1> QED BY <1>1, <1>2

-----------------------------------------------------------------------------
(* A dispatch goes on *)

LEMMA TopIs ==
    ASSUME ObserversGiven, Inv, Depth > 0
    PROVE  /\ Top \in FrameRecord /\ FrameInv(Top) /\ BaseInv
           /\ Depth \in DOMAIN stack /\ Depth \in Nat /\ stack \in Seq(FrameRecord)
<1>1. stack \in Seq(FrameRecord) /\ Depth \in Nat /\ Depth \in DOMAIN stack
  BY DEF Inv, Types, Depth
<1> QED BY <1>1 DEF Inv, StackInv, Top

LEMMA FrameFields ==
    ASSUME NEW f \in FrameRecord
    PROVE  /\ f.next \in Nat \ {0} /\ f.next + 1 \in Nat \ {0}
           /\ f.called \in Seq(Nat) /\ f.calling \in Nat \cup {None} /\ f.aborted \in BOOLEAN
BY DEF FrameRecord

LEMMA FramePasses ==
    ASSUME NEW f \in FrameRecord, NEW n \in Nat \ {0}, NEW g, g = [f EXCEPT !.next = n]
    PROVE  /\ g \in FrameRecord /\ g.event = f.event /\ g.next = n /\ g.count = f.count
           /\ g.calling = f.calling /\ g.called = f.called /\ g.due = f.due /\ g.fresh = f.fresh
BY DEF FrameRecord

LEMMA TopMoves ==
    ASSUME ObserversGiven, Inv, Depth > 0, NEW g \in FrameRecord, SetTop(g), FrameInv(g),
           g.event = Top.event, g.count = Top.count, g.fresh = Top.fresh,
           UNCHANGED <<list, nextTag, serial, needsCompaction, needsSort, references,
                       state, commandRefs, owned>>
    PROVE  Inv'
<1>1. Depth \in DOMAIN stack /\ stack \in Seq(FrameRecord)
  BY TopIs
<1>2. stack' = [stack EXCEPT ![Depth] = g]
  BY DEF SetTop
<1>3. /\ stack' \in Seq(FrameRecord) /\ Len(stack') = Len(stack) /\ DOMAIN stack' = DOMAIN stack
      /\ \A k \in DOMAIN stack : stack'[k] = IF k = Depth THEN g ELSE stack[k]
  BY <1>1, <1>2
<1>4. /\ 1 \in DOMAIN stack
      /\ stack'[1].count = stack[1].count /\ stack'[1].fresh = stack[1].fresh
  <2>1. 1 \in DOMAIN stack
    BY BaseIs DEF Inv
  <2> QED BY <1>3, <2>1 DEF Top
<1>5. Types'
  <2>1. \A k \in DOMAIN stack : stack'[k].event = stack[k].event
    BY <1>3 DEF Top
  <2> QED BY <1>3, <2>1 DEF Inv, Types
<1>6. ListInv'
  BY <1>3 DEF Inv, ListInv, Apart, InOrder, Depth
<1>7. CommandInv'
  BY DEF Inv, CommandInv, Exact, Referenced
<1>8. StackInv'
  <2>1. BaseInv'
    BY <1>4, BaseSame, TopIs
  <2>2. ASSUME NEW k \in DOMAIN stack' PROVE FrameInv(stack[k])'
    <3> PICK h : h = stack'[k]
      OBVIOUS
    <3>1. FrameInv(h)
      BY <1>3 DEF Inv, StackInv
    <3>2. FrameInv(h)'
      BY <1>4, <3>1, FrameSame
    <3> QED BY <3>2
  <2> QED BY <2>1, <2>2 DEF StackInv
<1> QED BY <1>5, <1>6, <1>7, <1>8 DEF Inv

\* What its loop looks at is in the list.
LEMMA PositionIs ==
    ASSUME ObserversGiven, Inv, Depth > 0, NEW f, f = Top, f.next <= f.count
    PROVE  /\ f.next \in DOMAIN list /\ list[f.next] \in Entry
           /\ list[f.next].tag \in Nat /\ list[f.next].tag # None
<1>1. f \in FrameRecord /\ FrameInv(f) /\ list \in Seq(Entry)
  BY TopIs DEF Inv, Types
<1>2. f.next \in Nat \ {0} /\ f.count \in Nat /\ f.count <= Len(list)
  BY <1>1 DEF FrameRecord, FrameInv, Placed
<1>3. f.next \in DOMAIN list
  BY <1>1, <1>2
<1>4. \A e \in Entry : e.tag \in Nat
  BY DEF Entry, Tags, ObserversGiven
<1> QED BY <1>1, <1>3, <1>4 DEF ObserversGiven

\* An observer is called: it was there when the outermost dispatch began.
LEMMA CallKept ==
    ASSUME ObserversGiven, Inv, Visit, Calls(list[Top.next], Top.event)
    PROVE  Inv'
<1> PICK f : f = Top
  OBVIOUS
<1> PICK o : o = list[f.next]
  OBVIOUS
<1>1. /\ Depth > 0 /\ f.calling = None /\ f.next <= f.count
      /\ UNCHANGED <<list, nextTag, serial, needsCompaction, needsSort, references,
                     state, commandRefs, owned>>
  BY DEF Visit, DispatchCount
<1> PICK g : g = [f EXCEPT !.calling = o.tag, !.called = Append(@, o.tag)]
  OBVIOUS
<1>2. SetTop(g)
  BY DEF Visit
<1>3. f \in FrameRecord /\ FrameInv(f) /\ BaseInv /\ list \in Seq(Entry)
  BY <1>1, TopIs DEF Inv, Types
<1>4. f.next \in DOMAIN list /\ o.tag \in Nat /\ o.tag # None
  BY <1>1, PositionIs
<1>5. /\ g \in FrameRecord /\ g.event = f.event /\ g.next = f.next /\ g.count = f.count
      /\ g.calling = o.tag /\ g.called = Append(f.called, o.tag)
      /\ g.due = f.due /\ g.fresh = f.fresh
  <2> PICK cs : cs = Append(f.called, o.tag)
    OBVIOUS
  <2> PICK c : c = o.tag
    OBVIOUS
  <2>1. cs \in Seq(Nat) /\ c \in Nat \cup {None}
    BY <1>3, <1>4, FrameFields
  <2>2. g = [f EXCEPT !.calling = c, !.called = cs]
    OBVIOUS
  <2>3. /\ g \in FrameRecord /\ g.event = f.event /\ g.next = f.next /\ g.count = f.count
        /\ g.calling = c /\ g.called = cs /\ g.due = f.due /\ g.fresh = f.fresh
    BY <1>3, <2>1, <2>2 DEF FrameRecord
  <2> QED BY <2>3
<1>6. f.called \in Seq(Nat) /\ f.next \in Nat
  BY <1>3 DEF FrameRecord
<1>7. /\ Len(f.called) \in Nat
      /\ DOMAIN g.called = 1 .. Len(f.called) + 1
      /\ g.called[Len(f.called) + 1] = o.tag
      /\ \A i \in DOMAIN g.called : \/ i \in DOMAIN f.called /\ g.called[i] = f.called[i]
                                    \/ i = Len(f.called) + 1 /\ i \notin DOMAIN f.called
      /\ \A i \in DOMAIN f.called : i \in DOMAIN g.called /\ g.called[i] = f.called[i]
  BY <1>4, <1>5, <1>6
<1>8. Older(f.next)
  <2>1. o.activation < serial
    BY DEF Calls
  <2>2. o.activation \in Nat /\ serial \in Nat
    <3>1. \A e \in Entry : e.activation \in Nat
      BY DEF Entry, ObserversGiven
    <3> QED BY <1>3, <1>4, <3>1, BaseIs DEF Inv
  <2> QED BY <1>3, <1>4, <2>1, <2>2 DEF BaseInv
<1>9. Placed(g)
  <2>1. o.tag \in ToSet(g.called)
    BY <1>7 DEF ToSet
  <2> QED BY <1>3, <1>5, <1>8, <2>1 DEF FrameInv, Placed
<1>10. ASSUME NEW i \in DOMAIN f.called
       PROVE  \E p \in DOMAIN list : Older(p) /\ p < f.next /\ list[p].tag = f.called[i]
  BY <1>1, <1>3 DEF FrameInv, Called, Passed
<1>11. Called(g)
  <2> SUFFICES ASSUME NEW i \in DOMAIN g.called
               PROVE  \E p \in DOMAIN list : Older(p) /\ Passed(g, p) /\ list[p].tag = g.called[i]
    BY DEF Called
  <2>1. CASE i \in DOMAIN f.called
    BY <2>1, <1>5, <1>7, <1>10 DEF Passed
  <2>2. CASE i \notin DOMAIN f.called
    BY <2>2, <1>4, <1>5, <1>7, <1>8 DEF Passed
  <2> QED BY <2>1, <2>2
<1>12. CallsInOrder(g)
  <2> SUFFICES ASSUME NEW i \in DOMAIN g.called, NEW j \in DOMAIN g.called, i < j
               PROVE  Precedes(EntryOf(g.called[i]), EntryOf(g.called[j]))
    BY DEF CallsInOrder
  <2>1. i \in DOMAIN f.called /\ g.called[i] = f.called[i]
    BY <1>6, <1>7
  <2>2. CASE j \in DOMAIN f.called
    BY <1>3, <1>7, <2>1, <2>2 DEF FrameInv, CallsInOrder
  <2>3. CASE j \notin DOMAIN f.called
    <3>1. g.called[j] = o.tag
      BY <1>7, <2>3
    <3>2. EntryOf(g.called[j]) = list[f.next]
      BY <1>4, <3>1, EntryAt DEF EntryOf, Inv, ListInv
    <3>3. PICK p \in DOMAIN list : p < f.next /\ list[p].tag = f.called[i]
      BY <1>10, <2>1
    <3>4. EntryOf(g.called[i]) = list[p]
      BY <2>1, <3>3, EntryAt DEF EntryOf, Inv, ListInv
    <3> QED BY <1>3, <1>4, <1>8, <3>2, <3>3, <3>4 DEF BaseInv
  <2> QED BY <2>2, <2>3
<1>13. DueMatch(g)
  BY <1>3, <1>5 DEF FrameInv, DueMatch
<1>14. NonePassedOver(g)
  <2>1. ToSet(f.called) \subseteq ToSet(g.called)
    BY <1>7 DEF ToSet
  <2> QED BY <1>3, <1>5, <2>1 DEF FrameInv, NonePassedOver
<1>15. FrameInv(g)
  BY <1>9, <1>11, <1>12, <1>13, <1>14 DEF FrameInv
<1> QED BY <1>1, <1>2, <1>5, <1>15, TopMoves

\* An observer is passed over: it is removed, new, or was never due.
LEMMA PassKept ==
    ASSUME ObserversGiven, Inv, Visit, ~Calls(list[Top.next], Top.event)
    PROVE  Inv'
<1> PICK f : f = Top
  OBVIOUS
<1>1. /\ Depth > 0 /\ f.calling = None /\ f.next <= f.count
      /\ UNCHANGED <<list, nextTag, serial, needsCompaction, needsSort, references,
                     state, commandRefs, owned>>
  BY DEF Visit, DispatchCount
<1> PICK g : g = [f EXCEPT !.next = @ + 1]
  OBVIOUS
<1>2. SetTop(g)
  BY DEF Visit
<1>3. f \in FrameRecord /\ FrameInv(f) /\ BaseInv /\ list \in Seq(Entry)
  BY <1>1, TopIs DEF Inv, Types
<1>4. f.next \in DOMAIN list /\ list[f.next].tag \in Nat
  BY <1>1, PositionIs
<1>5. /\ g \in FrameRecord /\ g.event = f.event /\ g.next = f.next + 1 /\ g.count = f.count
      /\ g.calling = None /\ g.called = f.called /\ g.due = f.due /\ g.fresh = f.fresh
  <2>1. g = [f EXCEPT !.next = f.next + 1]
    OBVIOUS
  <2> QED BY <1>1, <1>3, <2>1, FrameFields, FramePasses
<1>6. f.next \in Nat /\ f.count \in Nat /\ f.fresh \in Nat
  BY <1>3 DEF FrameRecord
<1>7. Placed(g)
  BY <1>1, <1>3, <1>5, <1>6 DEF FrameInv, Placed
<1>8. Called(g) /\ CallsInOrder(g) /\ DueMatch(g)
  <2>1. \A p \in DOMAIN list : Passed(f, p) => Passed(g, p)
    BY <1>1, <1>3, <1>5, <1>6 DEF Passed
  <2> QED BY <1>3, <1>5, <2>1 DEF FrameInv, Called, CallsInOrder, DueMatch
<1>9. NonePassedOver(g)
  <2> SUFFICES ASSUME NEW p \in DOMAIN list, p < f.next + 1, list[p].active, list[p].tag \in f.due
               PROVE  list[p].tag \in ToSet(f.called)
    BY <1>5 DEF NonePassedOver
  <2>1. CASE p < f.next
    BY <1>3, <2>1 DEF FrameInv, NonePassedOver
  <2>2. CASE p = f.next
    <3>1. Matches(list[p].event, f.event) /\ list[p].tag < f.fresh /\ f.fresh = stack[1].fresh
      BY <1>3 DEF FrameInv, DueMatch, Placed
    <3>2. list[p].activation < serial
      BY <1>3, <1>4, <1>6, <2>2, <3>1 DEF BaseInv
    <3>3. Calls(list[p], f.event)
      BY <3>1, <3>2 DEF Calls
    <3> QED BY <2>2, <3>3
  <2> QED BY <1>3, <1>6, <2>1, <2>2
<1>10. FrameInv(g)
  BY <1>7, <1>8, <1>9 DEF FrameInv
<1> QED BY <1>1, <1>2, <1>5, <1>10, TopMoves

LEMMA CallbackReturnsKept ==
    ASSUME ObserversGiven, Inv, NEW abort \in BOOLEAN, CallbackReturns(abort)
    PROVE  Inv'
<1> PICK f : f = Top
  OBVIOUS
<1>1. /\ Depth > 0 /\ f.calling # None
      /\ UNCHANGED <<list, nextTag, serial, needsCompaction, needsSort, references,
                     state, commandRefs, owned>>
  BY DEF CallbackReturns
<1> PICK g : g = [f EXCEPT !.calling = None, !.next = @ + 1, !.aborted = abort]
  OBVIOUS
<1>2. SetTop(g)
  BY DEF CallbackReturns
<1>3. f \in FrameRecord /\ FrameInv(f) /\ BaseInv /\ list \in Seq(Entry)
  BY <1>1, TopIs DEF Inv, Types
<1>4. /\ g \in FrameRecord /\ g.event = f.event /\ g.next = f.next + 1 /\ g.count = f.count
      /\ g.calling = None /\ g.called = f.called /\ g.due = f.due /\ g.fresh = f.fresh
  <2> PICK n : n = f.next + 1
    OBVIOUS
  <2>1. n \in Nat \ {0}
    BY <1>3, FrameFields
  <2>2. g = [f EXCEPT !.calling = None, !.next = n, !.aborted = abort]
    OBVIOUS
  <2>3. /\ g \in FrameRecord /\ g.event = f.event /\ g.next = n /\ g.count = f.count
        /\ g.calling = None /\ g.called = f.called /\ g.due = f.due /\ g.fresh = f.fresh
    BY <1>3, <2>1, <2>2 DEF FrameRecord
  <2> QED BY <2>3
<1>5. f.next \in Nat /\ f.count \in Nat /\ stack[1].count \in Nat
  BY <1>1, <1>3, BaseIs DEF FrameRecord, Inv
<1>6. Older(f.next) /\ list[f.next].tag = f.calling /\ f.calling \in ToSet(f.called)
  BY <1>1, <1>3 DEF FrameInv, Placed
<1>7. Placed(g)
  BY <1>3, <1>4, <1>5, <1>6 DEF FrameInv, Placed, Older
<1>8. Called(g) /\ CallsInOrder(g) /\ DueMatch(g)
  <2>1. \A p \in DOMAIN list : Passed(f, p) => Passed(g, p)
    BY <1>3, <1>4, <1>5 DEF Passed
  <2> QED BY <1>3, <1>4, <2>1 DEF FrameInv, Called, CallsInOrder, DueMatch
<1>9. NonePassedOver(g)
  <2> SUFFICES ASSUME NEW p \in DOMAIN list, p < f.next + 1, list[p].active, list[p].tag \in f.due
               PROVE  list[p].tag \in ToSet(f.called)
    BY <1>4 DEF NonePassedOver
  <2>1. CASE p < f.next
    BY <1>3, <2>1 DEF FrameInv, NonePassedOver
  <2>2. CASE p = f.next
    BY <1>6, <2>2
  <2> QED BY <1>3, <1>5, <2>1, <2>2
<1>10. FrameInv(g)
  BY <1>7, <1>8, <1>9 DEF FrameInv
<1> QED BY <1>1, <1>2, <1>4, <1>10, TopMoves

-----------------------------------------------------------------------------
(* A dispatch ends *)

\* Without the object nothing is left of its list, and of the references it held.
LEMMA DestroyKept ==
    ASSUME ObserversGiven, Inv, DestroyList(list, commandRefs), stack' = <<>>,
           UNCHANGED <<nextTag, owned>>,
           serial' \in 0 .. MaxDispatches + 1, references' \in 0 .. 2
    PROVE  Inv'
<1>1. /\ list' = <<>> /\ needsCompaction' = FALSE /\ needsSort' = FALSE /\ state' = "freed"
      /\ commandRefs' = [c \in Commands |->
                           commandRefs[c] - Cardinality(HoldersOf(ToSet(list), c))]
  BY DEF DestroyList
<1>2. Types'
  <2>1. list' \in Seq(Entry) /\ stack' \in Seq(FrameRecord) /\ DOMAIN stack' = {}
    BY <1>1
  <2>2. nextTag' \in 1 .. MaxObservers + 1 /\ owned' \subseteq Commands
    BY DEF Inv, Types
  <2>3. needsCompaction' \in BOOLEAN /\ needsSort' \in BOOLEAN
    BY <1>1, Zenon
  <2> QED BY <1>1, <2>1, <2>2, <2>3 DEF Types
<1>3. ListInv'
  BY <1>1 DEF ListInv, Apart, InOrder
<1>4. CommandInv'
  <2>1. ToSet(list) \in SUBSET Entry
    BY DEF ToSet, Inv, Types
  <2>2. \A c : Cardinality(HoldersOf(ToSet(list), c)) \in Nat
    BY <2>1, HoldersCounted
  <2>3. \A c : Cardinality(HoldersOf(ToSet(<<>>), c)) = 0
    BY FS_EmptySet DEF HoldersOf, ToSet
  <2>4. commandRefs = [c \in Commands |-> Referenced(list, c)]
    BY DEF Inv, CommandInv, Exact
  <2>5. \A c \in Commands : commandRefs[c] - Cardinality(HoldersOf(ToSet(list), c))
                            = Referenced(list, c)'
    BY <1>1, <2>2, <2>3, <2>4 DEF Referenced
  <2> QED BY <1>1, <2>5 DEF CommandInv, Exact
<1>5. StackInv'
  BY DEF StackInv, Depth
<1> QED BY <1>2, <1>3, <1>4, <1>5 DEF Inv

LEMMA EndKept == ASSUME ObserversGiven, Inv, End PROVE Inv'
<1>1. /\ Depth > 0 /\ stack' = SubSeq(stack, 1, Depth - 1)
      /\ UNCHANGED <<nextTag, serial, references, owned>>
  BY DEF End, Front, Depth
<1>2. Types /\ ListInv /\ CommandInv /\ StackInv
  BY DEF Inv
<1>3. Depth \in DOMAIN stack /\ Depth \in Nat /\ stack \in Seq(FrameRecord) /\ Depth = Len(stack)
  BY <1>1, TopIs DEF Depth
<1>4. CASE Top.event = "DELETE"
  <2>1. Depth = 1
    BY <1>2, <1>3, <1>4 DEF Types, Top
  <2>2. stack' = <<>>
    BY <1>1, <1>3, <2>1
  <2>3. DestroyList(list, commandRefs)
    BY <1>4 DEF End
  <2> QED BY <1>1, <1>2, <2>2, <2>3, DestroyKept DEF Types
<1>5. CASE Top.event # "DELETE" /\ Depth = 1
  <2>1. Maintain(0, list, commandRefs, needsCompaction, needsSort) /\ state' = state
    BY <1>5 DEF End
  <2>2. stack' = <<>>
    BY <1>1, <1>3, <1>5
  <2>3. /\ list' \in Seq(Entry) /\ Apart(list') /\ Exact(list', commandRefs')
        /\ \A i \in DOMAIN list' : \E j \in DOMAIN list : list'[i] = list[j]
        /\ needsSort' \in BOOLEAN /\ needsCompaction' \in BOOLEAN
        /\ needsSort' \/ InOrder(list')
        /\ ~needsSort' /\ ~needsCompaction'
    BY <1>2, <2>1, MaintainedIs DEF CommandInv, ListInv, Types
  <2>4. Types'
    <3>1. stack' \in Seq(FrameRecord) /\ DOMAIN stack' = {}
      BY <2>2
    <3> QED BY <1>1, <1>2, <2>1, <2>3, <3>1 DEF Types
  <2>5. ListInv'
    BY <1>1, <1>2, <2>3 DEF ListInv
  <2>6. CommandInv'
    BY <1>1, <2>3 DEF CommandInv, Exact, Referenced
  <2>7. StackInv'
    BY <2>2 DEF StackInv, Depth
  <2> QED BY <2>4, <2>5, <2>6, <2>7 DEF Inv
<1>6. CASE Top.event # "DELETE" /\ Depth # 1
  <2>1. /\ UNCHANGED <<list, needsSort, needsCompaction, commandRefs, state>>
    BY <1>3, <1>6 DEF End, Maintain, Deferred
  <2>2. /\ Len(stack') = Depth - 1 /\ stack' \in Seq(FrameRecord) /\ 1 \in DOMAIN stack
        /\ \A k \in DOMAIN stack' : k \in DOMAIN stack /\ stack'[k] = stack[k]
        /\ stack'[1] = stack[1] /\ Len(stack') > 0
    BY <1>1, <1>3, <1>6
  <2>3. Types'
    BY <1>1, <1>2, <2>1, <2>2 DEF Types
  <2>4. ListInv'
    BY <1>1, <1>2, <1>3, <2>1, <2>2 DEF ListInv, Apart, InOrder, Depth
  <2>5. CommandInv'
    BY <1>1, <1>2, <2>1 DEF CommandInv, Exact, Referenced
  <2>6. StackInv'
    <3>1. BaseInv /\ \A k \in DOMAIN stack : FrameInv(stack[k])
      BY <1>1, <1>2 DEF StackInv
    <3>2. BaseInv'
      BY <1>1, <2>1, <2>2, <3>1, BaseSame
    <3>3. ASSUME NEW k \in DOMAIN stack' PROVE FrameInv(stack[k])'
      <4> PICK h : h = stack'[k]
        OBVIOUS
      <4>1. FrameInv(h)
        BY <2>2, <3>1
      <4>2. FrameInv(h)'
        BY <2>1, <2>2, <4>1, FrameSame
      <4> QED BY <4>2
    <3> QED BY <3>2, <3>3 DEF StackInv
  <2> QED BY <2>3, <2>4, <2>5, <2>6 DEF Inv
<1> QED BY <1>4, <1>5, <1>6

LEMMA InvokeEventKept ==
    ASSUME ObserversGiven, Inv, NEW event \in Events, InvokeEvent(event)
    PROVE  Inv'
<1>1. /\ Begin(event) /\ event # "DELETE" /\ serial < MaxDispatches
      /\ UNCHANGED <<nextTag, references, state, owned>>
  BY DEF InvokeEvent
<1>2. Types /\ serial \in Nat /\ MaxDispatches \in Nat
  BY BaseIs DEF Inv, ObserversGiven
<1>3. serial' \in {serial, serial + 1}
  BY <1>1 DEF Begin
<1>4. references' \in 0 .. 2 /\ state' \in {"live", "deleting", "freed"}
  BY <1>1, <1>2 DEF Types
<1>5. state' = "live" => references' >= 1 /\ serial' <= MaxDispatches
  BY <1>1, <1>2, <1>3 DEF Types
<1> QED BY <1>1, <1>2, <1>4, <1>5, BeginKept

LEMMA ReleaseKept == ASSUME ObserversGiven, Inv, Release PROVE Inv'
<1>1. /\ state = "live" /\ references' = references - 1 /\ UNCHANGED <<nextTag, owned>>
      /\ Depth = 0 \/ references > 1
  BY DEF Release
<1>2. Types /\ ListInv /\ CommandInv /\ references \in 1 .. 2 /\ serial <= MaxDispatches
  BY <1>1 DEF Inv, Types
<1>3. CASE references > 1
  <2>1. UNCHANGED <<list, serial, needsCompaction, needsSort, stack, state, commandRefs>>
    BY <1>3 DEF Release
  <2>2. Types'
    BY <1>1, <1>2, <1>3, <2>1 DEF Types
  <2>3. CommandInv'
    BY <1>1, <1>2, <2>1 DEF CommandInv, Exact, Referenced
  <2> QED BY <1>1, <2>1, <2>2, <2>3, ReferencesKept
<1>4. CASE ~(references > 1) /\ list = <<>>
  <2>1. DestroyList(list, commandRefs) /\ UNCHANGED <<serial, stack>>
    BY <1>4 DEF Release
  <2>2. stack' = <<>>
    BY <1>1, <1>2, <1>4, <2>1 DEF Depth, Types
  <2> QED BY <1>1, <1>2, <2>1, <2>2, DestroyKept DEF Types
<1>5. CASE ~(references > 1) /\ list # <<>>
  <2>1. Begin("DELETE") /\ state' = "deleting" /\ Depth = 0
    BY <1>1, <1>5 DEF Release
  <2> QED BY <1>1, <1>2, <2>1, BeginKept
<1> QED BY <1>3, <1>4, <1>5

-----------------------------------------------------------------------------
(* Every step *)

LEMMA InitInv == ASSUME ObserversGiven, Init PROVE Inv
<1>1. Types
  <2>1. /\ list \in Seq(Entry) /\ stack \in Seq(FrameRecord) /\ DOMAIN stack = {}
        /\ nextTag = 1 /\ serial = 0 /\ references = 1 /\ state = "live" /\ owned = Commands
    BY DEF Init
  <2>2. nextTag \in 1 .. MaxObservers + 1 /\ serial \in 0 .. MaxDispatches + 1
        /\ serial <= MaxDispatches
    BY <2>1 DEF ObserversGiven
  <2>3. needsCompaction \in BOOLEAN /\ needsSort \in BOOLEAN
    BY Zenon DEF Init
  <2> QED BY <2>1, <2>2, <2>3 DEF Types
<1>2. ListInv
  BY DEF Init, ListInv, Apart, InOrder
<1>3. CommandInv
  <2>1. \A c : Cardinality(HoldersOf(ToSet(<<>>), c)) = 0
    BY FS_EmptySet DEF HoldersOf, ToSet
  <2> QED BY <2>1 DEF Init, CommandInv, Exact, Referenced
<1>4. StackInv
  BY DEF Init, StackInv, Depth
<1> QED BY <1>1, <1>2, <1>3, <1>4 DEF Inv

LEMMA StutterKept == ASSUME ObserversGiven, Inv, UNCHANGED vars PROVE Inv'
<1>1. Types'
  BY DEF Inv, Types, vars
<1>2. CommandInv'
  BY DEF Inv, CommandInv, Exact, Referenced, vars
<1> QED BY <1>1, <1>2, ReferencesKept DEF vars

LEMMA NextKept == ASSUME ObserversGiven, Inv, [Next]_vars PROVE Inv'
<1>1. ASSUME NEW event \in ObservedEvents, NEW p \in Priorities, NEW c \in Commands \cup {None},
             AddObserver(event, p, c)
      PROVE  Inv'
  BY <1>1, AddKept
<1>2. ASSUME NEW tag \in Tags, RemoveObserver(tag) PROVE Inv'
  BY <1>2, DeactivatedKept DEF RemoveObserver
<1>3. ASSUME NEW event \in ObservedEvents, RemoveObservers(event) PROVE Inv'
  BY <1>3, DeactivatedKept DEF RemoveObservers
<1>4. ASSUME NEW c \in Commands, ReleaseCommand(c) PROVE Inv'
  BY <1>4, ReleaseCommandKept
<1>5. ASSUME NEW event \in Events, InvokeEvent(event) PROVE Inv'
  BY <1>5, InvokeEventKept
<1>6. ASSUME NEW abort \in BOOLEAN, CallbackReturns(abort) PROVE Inv'
  BY <1>6, CallbackReturnsKept
<1>7. CASE Visit
  BY <1>7, CallKept, PassKept
<1> QED BY <1>1, <1>2, <1>3, <1>4, <1>5, <1>6, <1>7, RetainKept, ReleaseKept, EndKept,
           StutterKept DEF Next, Program

THEOREM Invariant == ASSUME ObserversGiven PROVE Spec => []Inv
<1>1. Init => Inv
  BY InitInv
<1>2. Inv /\ [Next]_vars => Inv'
  BY NextKept
<1> QED BY <1>1, <1>2, PTL DEF Spec

-----------------------------------------------------------------------------
(* What the invariant says of a dispatch *)

LEMMA CalledOnes ==
    ASSUME Inv, NEW k \in DOMAIN stack, NEW i \in DOMAIN stack[k].called
    PROVE  stack[k].called[i] < stack[k].fresh
<1> PICK f : f = stack[k]
  OBVIOUS
<1>1. BaseInv /\ FrameInv(f)
  BY DEF Inv, Types, StackInv, Depth
<1>2. PICK p \in DOMAIN list : Older(p) /\ list[p].tag = f.called[i]
  BY <1>1 DEF FrameInv, Called
<1> QED BY <1>1, <1>2 DEF BaseInv, FrameInv, Placed

LEMMA DueOnes ==
    ASSUME ObserversGiven, Inv, Depth > 0, Top.next > Top.count,
           NEW p \in DOMAIN list, list[p].active, list[p].tag \in Top.due
    PROVE  list[p].tag \in ToSet(Top.called)
<1> PICK f : f = Top
  OBVIOUS
<1>1. f \in FrameRecord /\ FrameInv(f) /\ BaseInv
  BY TopIs
<1>2. /\ f.next \in Nat /\ f.count \in Nat /\ f.fresh \in Nat
      /\ stack[1].count \in Nat /\ stack[1].count <= f.count /\ f.fresh = stack[1].fresh
  BY <1>1, BaseIs DEF FrameRecord, FrameInv, Placed, Inv
<1>3. p \in Nat /\ list[p].tag \in Nat /\ list[p].tag < f.fresh
  <2>1. \A e \in Entry : e.tag \in Nat
    BY DEF Entry, Tags, ObserversGiven
  <2>2. list \in Seq(Entry)
    BY DEF Inv, Types
  <2> QED BY <1>1, <2>1, <2>2 DEF FrameInv, DueMatch
<1>4. Older(p)
  BY <1>1, <1>2, <1>3 DEF BaseInv
<1>5. p < f.next
  BY <1>2, <1>3, <1>4 DEF Older
<1> QED BY <1>1, <1>5 DEF FrameInv, NonePassedOver

\* Who is called has an entry, and its command a reference by that entry.
LEMMA CommandsHeld ==
    ASSUME ObserversGiven, Inv, NEW k \in DOMAIN stack, stack[k].calling # None
    PROVE  \E i \in DOMAIN list :
               /\ list[i].tag = stack[k].calling
               /\ list[i].command # None => commandRefs[list[i].command] > 0
<1> PICK f : f = stack[k]
  OBVIOUS
<1>1. /\ BaseInv /\ FrameInv(f) /\ f \in FrameRecord /\ Depth > 0 /\ list \in Seq(Entry)
      /\ commandRefs = [c \in Commands |-> Referenced(list, c)]
  BY DEF Inv, Types, StackInv, Depth, CommandInv, Exact
<1>2. Older(f.next) /\ list[f.next].tag = f.calling
  BY <1>1 DEF FrameInv, Placed
<1>3. f.next \in DOMAIN list
  <2>1. f.next \in Nat \ {0} /\ stack[1].count \in Nat /\ stack[1].count <= Len(list)
    BY <1>1, BaseIs DEF FrameRecord, BaseInv, Inv
  <2> QED BY <1>1, <1>2, <2>1 DEF Older
<1> PICK o : o = list[f.next]
  OBVIOUS
<1>4. ASSUME o.command # None PROVE commandRefs[o.command] > 0
  <2>1. o.command \in Commands
    <3>1. \A e \in Entry : e.command \in Commands \cup {None}
      BY DEF Entry
    <3>2. o \in Entry
      BY <1>1, <1>3
    <3> QED BY <1>4, <3>1, <3>2
  <2> PICK H : H = HoldersOf(ToSet(list), o.command)
    OBVIOUS
  <2>2. ToSet(list) \in SUBSET Entry
    BY <1>1 DEF ToSet
  <2>3. IsFiniteSet(H) /\ Cardinality(H) \in Nat
    BY <2>2, HoldersCounted
  <2>4. o.tag \in H
    BY <1>3 DEF HoldersOf, ToSet
  <2>5. Cardinality(H) # 0
    BY <2>3, <2>4, FS_EmptySet
  <2>6. commandRefs[o.command] = Cardinality(H) + (IF o.command \in owned THEN 1 ELSE 0)
    BY <1>1, <2>1 DEF Referenced
  <2> QED BY <2>3, <2>5, <2>6
<1> QED BY <1>2, <1>3, <1>4

LEMMA InvHolds ==
    ASSUME ObserversGiven, Inv
    PROVE  TypeOK /\ CalledInOrder /\ NoneSkipped /\ NewcomersWait /\ CommandAlive
<1>1. commandRefs \in [Commands -> Nat]
  <2>1. commandRefs = [c \in Commands |-> Referenced(list, c)]
    BY DEF Inv, CommandInv, Exact
  <2>2. ToSet(list) \in SUBSET Entry
    BY DEF ToSet, Inv, Types
  <2>3. \A c \in Commands : Referenced(list, c) \in Nat
    BY <2>2, HoldersCounted DEF Referenced
  <2> QED BY <2>1, <2>3
<1>2. \A k \in DOMAIN stack : FrameInv(stack[k])
  BY DEF Inv, StackInv, Types, Depth
<1>3. TypeOK
  BY <1>1, <1>2 DEF Inv, Types, TypeOK, FrameInv, Placed
<1>4. CalledInOrder
  BY <1>2 DEF FrameInv, CallsInOrder, CalledInOrder
<1>5. NoneSkipped
  BY DueOnes DEF NoneSkipped
<1>6. NewcomersWait
  BY CalledOnes DEF NewcomersWait
<1>7. CommandAlive
  BY CommandsHeld DEF CommandAlive, Inv, CommandInv, Exact, Referenced
<1> QED BY <1>3, <1>4, <1>5, <1>6, <1>7

\* fviz_object_invoke_event calls by priority and then by registration, nobody twice,
\* everyone who was there when the dispatch began and still is, and nobody who came
\* after the outermost dispatch began, whatever the callbacks do to the list.
THEOREM DispatchedInOrder ==
    ASSUME ObserversGiven
    PROVE  Spec => [](TypeOK /\ CalledInOrder /\ NoneSkipped /\ NewcomersWait)
<1>1. Inv => TypeOK /\ CalledInOrder /\ NoneSkipped /\ NewcomersWait
  BY InvHolds
<1> QED BY <1>1, Invariant, PTL

\* The reference count of a command is what the program and the list hold, and the
\* command of a callback that is running is alive.
THEOREM CommandsAlive == ASSUME ObserversGiven PROVE Spec => []CommandAlive
<1>1. Inv => CommandAlive
  BY InvHolds
<1> QED BY <1>1, Invariant, PTL
=============================================================================
