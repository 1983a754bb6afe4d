----------------------------- MODULE FrameCache -----------------------------
(***************************************************************************)
(* The cache of FVizTemporalFrameCache.c: loaded frames, kept in the order *)
(* of their loads, of which the least recently used go first when there    *)
(* are too many or they are too big.  Calls hold the cache's mutex.        *)
(***************************************************************************)
EXTENDS Integers, Sequences, SequencesExt, FiniteSetsExt

CONSTANTS
    Size,      \* of every frame
    Limits,    \* [frames, bytes]; no bytes are no limit
    MaxUses

VARIABLES
    entries, \* sequence of [key, use]
    bytes,   \* statistics.bytes
    serial,  \* use_serial
    limits

cacheVars == <<entries, bytes, serial, limits>>

FrameKeys == DOMAIN Size

Init ==
    /\ entries = <<>> /\ bytes = 0 /\ serial = 0
    /\ limits \in Limits

-----------------------------------------------------------------------------
Over(count, size) ==
    \/ count > limits'.frames
    \/ limits'.bytes # 0 /\ size > limits'.bytes

Oldest(list) ==
    CHOOSE i \in DOMAIN list : \A j \in DOMAIN list :
        list[i].use < list[j].use \/ (list[i].use = list[j].use /\ i <= j)

\* Until the limits are kept, or nothing is left: once for every frame there is.
Evicted(kept, f) ==
    IF kept.list = <<>> \/ ~Over(Len(kept.list), kept.size) THEN kept
    ELSE [list |-> RemoveAt(kept.list, Oldest(kept.list)),
          size |-> kept.size - Size[kept.list[Oldest(kept.list)].key]]
Enforced(list, size) == FoldLeft(Evicted, [list |-> list, size |-> size], list)

Keep(list, size) ==
    \E kept \in {Enforced(list, size)} : entries' = kept.list /\ bytes' = kept.size

SetOptions(new) ==
    /\ limits' = new
    /\ Keep(entries, bytes)
    /\ UNCHANGED serial

Find(k) == {i \in DOMAIN entries : entries[i].key = k}

Hit(k) ==
    /\ serial < MaxUses
    /\ serial' = serial + 1
    /\ \E i \in Find(k) : entries' = [entries EXCEPT ![i].use = serial']
    /\ UNCHANGED <<bytes, limits>>

\* What is bigger than the limit, or finds no room for any frame, is handed out only.
Oversize(k) == limits.frames = 0 \/ (limits.bytes # 0 /\ Size[k] > limits.bytes)

Load(k) ==
    /\ Find(k) = {} /\ serial < MaxUses
    /\ ~Oversize(k)
    /\ serial' = serial + 1
    /\ UNCHANGED limits
    /\ Keep(Append(entries, [key |-> k, use |-> serial']), bytes + Size[k])

Invalidate(k) ==
    /\ \E i \in Find(k) : entries' = RemoveAt(entries, i)
    /\ bytes' = bytes - Size[k]
    /\ UNCHANGED <<serial, limits>>

\* A frame that failed to load, was refused by its token or is too big leaves no trace.
Clear ==
    /\ entries' = <<>> /\ bytes' = 0
    /\ UNCHANGED <<serial, limits>>

Next ==
    \/ \E k \in FrameKeys : Hit(k) \/ Load(k) \/ Invalidate(k)
    \/ \E new \in Limits : SetOptions(new)
    \/ Clear

-----------------------------------------------------------------------------
\* The statistics are those of the frames that are kept; no frame is kept twice; the limits
\* hold after every call, also one that lowers them; and what was evicted was used before
\* what is kept (FVizTemporalFrameCache.c:226, :330).
WithinLimits ==
    LET kept == {entries[i].key : i \in DOMAIN entries}
    IN  /\ Cardinality(kept) = Len(entries)
        /\ bytes = MapThenSumSet(LAMBDA k : Size[k], kept)
        /\ Len(entries) <= limits.frames /\ (limits.bytes # 0 => bytes <= limits.bytes)
Evicts == serial' # serial \/ limits' # limits
LeastRecentGo ==
    Evicts => \A i \in DOMAIN entries, j \in DOMAIN entries' :
                  (\A k \in DOMAIN entries' : entries'[k].key # entries[i].key)
                      => entries[i].use < entries'[j].use
LeastRecentGoFirst == [][LeastRecentGo]_cacheVars
=============================================================================
