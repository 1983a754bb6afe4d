------------------------------- MODULE HashMap -------------------------------
(***************************************************************************)
(* FVizHashMap.c: open addressing with linear probing, tombstones and      *)
(* doubling.  Slots are numbered from zero, as in the code.                *)
(***************************************************************************)
EXTENDS Integers, Sequences, SequencesExt, FiniteSets, FiniteSetsExt

CONSTANTS
    Keys, Values,
    Hash,            \* key -> its hash
    MinCapacity,     \* eight in the code
    MaxCapacity,     \* bound: no growth beyond it
    None

VARIABLES
    slots,           \* slot number -> Empty, Tombstone or <<key, value>>
    count, tombstones,
    dictionary       \* ghost: what a map of the same history contains

mapVars == <<slots, count, tombstones, dictionary>>

Empty == <<>>
Tombstone == <<None>>
Occupied(x) == Len(x) = 2

SlotCount == Cardinality(DOMAIN slots)
Slots(n) == [i \in 0 .. n - 1 |-> Empty]

Init ==
    /\ slots = Slots(MinCapacity)
    /\ count = 0 /\ tombstones = 0
    /\ dictionary = [k \in Keys |-> None]

\* The slots in the order in which they are probed for k.
Probe(k, n) == [i \in 1 .. n |-> (Hash[k] + i - 1) % n]

\* fviz_hash_map_find_slot; None where the loop would not end.
FindSlot(table, k) ==
    LET probe == Probe(k, Cardinality(DOMAIN table))
        entry(i) == table[probe[i]]
        last == SelectInSubSeq(probe, 1, Len(probe),
                    LAMBDA j : table[j] = Empty \/ (Occupied(table[j]) /\ table[j][1] = k))
        reusable == SelectInSubSeq(probe, 1, last, LAMBDA j : table[j] = Tombstone)
    IN  CASE last = 0 -> None
          [] last > 0 /\ entry(last) = Empty /\ reusable > 0 -> probe[reusable]
          [] OTHER -> probe[last]

\* What fviz_hash_map_grow makes of the table: the tombstones are gone.
Grown(table) ==
    LET n == 2 * Cardinality(DOMAIN table)
        Rehash(grown, i) ==
            IF Occupied(table[i]) THEN [grown EXCEPT ![FindSlot(grown, table[i][1])] = table[i]]
            ELSE grown
    IN  FoldLeft(Rehash, Slots(n), [i \in 1 .. n \div 2 |-> i - 1])

MustGrowByCount(slot) ==
    slots[slot] # Tombstone /\ (count + 1) * 10 >= SlotCount * 7

\* A load of seven tenths, entries that were erased included.
MustGrow(slot) ==
    slots[slot] # Tombstone /\ (count + tombstones + 1) * 10 >= SlotCount * 7

Overwrite(k, v) ==
    LET slot == FindSlot(slots, k) IN
    /\ slot # None /\ Occupied(slots[slot])
    /\ slots' = [slots EXCEPT ![slot] = <<k, v>>]
    /\ dictionary' = [dictionary EXCEPT ![k] = v]
    /\ UNCHANGED <<count, tombstones>>

Insert(k, v) ==
    LET slot == FindSlot(slots, k)
        grows == MustGrow(slot)
        table == IF grows THEN Grown(slots) ELSE slots
        free == FindSlot(table, k)
    IN  /\ slot # None /\ ~Occupied(slots[slot])
        /\ grows => 2 * SlotCount <= MaxCapacity
        /\ slots' = [table EXCEPT ![free] = <<k, v>>]
        /\ count' = count + 1
        /\ tombstones' = IF grows THEN 0
                         ELSE tombstones - (IF table[free] = Tombstone THEN 1 ELSE 0)
        /\ dictionary' = [dictionary EXCEPT ![k] = v]

Set(k, v) == Overwrite(k, v) \/ Insert(k, v)

Erased(i) == [slots EXCEPT ![i] = Tombstone]

Erase(k) ==
    LET slot == FindSlot(slots, k) IN
    /\ slot # None /\ Occupied(slots[slot])
    /\ slots' = Erased(slot)
    /\ count' = count - 1 /\ tombstones' = tombstones + 1
    /\ dictionary' = [dictionary EXCEPT ![k] = None]

Clear ==
    /\ count # 0 \/ tombstones # 0
    /\ slots' = Slots(SlotCount)
    /\ count' = 0 /\ tombstones' = 0
    /\ dictionary' = [k \in Keys |-> None]

Next ==
    \/ \E k \in Keys : Erase(k) \/ \E v \in Values : Set(k, v)
    \/ Clear

-----------------------------------------------------------------------------
Get(k) ==
    LET slot == FindSlot(slots, k)
    IN  IF Occupied(slots[slot]) THEN slots[slot][2] ELSE None

\* However keys were set, erased and rehashed, every search ends, finds the last value
\* set, and finds nothing for a key that was erased; no key has two slots.
IsDictionary ==
    /\ \E i \in DOMAIN slots : slots[i] = Empty
    /\ \A k \in Keys : Get(k) = dictionary[k]
    /\ count = Cardinality({k \in Keys : dictionary[k] # None})
    /\ count = Cardinality({i \in DOMAIN slots : Occupied(slots[i])})
    /\ tombstones = Cardinality({i \in DOMAIN slots : slots[i] = Tombstone})
=============================================================================
