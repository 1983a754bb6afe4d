----------------------------- MODULE GpuMemory -----------------------------
(***************************************************************************)
(* Which resources FVizGLDevice.c keeps from frame to frame: retention,    *)
(* the byte budget, and the pins of mappers.                               *)
(***************************************************************************)
EXTENDS Integers, Sequences, SequencesExt, FiniteSets, FiniteSetsExt, Functions

CONSTANTS
    Actors, ActorSizes, \* the bytes that a resource may have
    MaxFrames

VARIABLES
    frame,      \* frame_serial
    inFrame,
    resources,  \* sequence of [actor, bytes, seen]
    pinned,
    options,    \* [budget, retention]; no budget is 0
    shown,      \* actors drawn in this frame
    evicted     \* those that the last end of a frame destroyed

memoryVars == <<frame, inFrame, resources, pinned, options, shown, evicted>>

Init ==
    /\ frame = 0 /\ inFrame = FALSE
    /\ resources = <<>>
    /\ pinned = {}
    /\ options \in [budget : {0, 2, 3}, retention : {0, 1}]
    /\ shown = {} /\ evicted = {}

Bytes(kept) == FoldFunction(+, 0, [i \in DOMAIN kept |-> kept[i].bytes])
Resident == {resources[i].actor : i \in DOMAIN resources}

BeginFrame ==
    /\ ~inFrame /\ frame < MaxFrames
    /\ frame' = frame + 1
    /\ inFrame' = TRUE
    /\ shown' = {} /\ evicted' = {}
    /\ UNCHANGED <<resources, pinned, options>>

\* A resource is built, or brought up to date and perhaps to another size.
Ensure(a, bytes) ==
    /\ inFrame
    /\ resources' =
        IF a \in Resident
        THEN [i \in DOMAIN resources |->
                IF resources[i].actor = a THEN [actor |-> a, bytes |-> bytes, seen |-> frame]
                ELSE resources[i]]
        ELSE Append(resources, [actor |-> a, bytes |-> bytes, seen |-> frame])
    /\ shown' = shown \cup {a}
    /\ UNCHANGED <<frame, inFrame, pinned, options, evicted>>

Unused(r) ==
    r.actor \notin pinned /\ r.seen # frame /\ frame - r.seen > options.retention

EvictableThoughPinned(r) == r.seen # frame
Evictable(r) == r.actor \notin pinned /\ r.seen # frame

\* The first of those that were seen longest ago.
Oldest(kept) ==
    CHOOSE i \in {j \in DOMAIN kept : Evictable(kept[j])} :
        \A j \in DOMAIN kept :
            Evictable(kept[j]) => \/ kept[i].seen < kept[j].seen
                                  \/ kept[i].seen = kept[j].seen /\ i <= j

OverBudget(kept) == options.budget # 0 /\ Bytes(kept) > options.budget

\* Once for every resource there may be.
EvictOldest(kept, r) ==
    IF OverBudget(kept) /\ \E j \in DOMAIN kept : Evictable(kept[j])
    THEN RemoveAt(kept, Oldest(kept)) ELSE kept

EndFrame ==
    /\ inFrame
    /\ inFrame' = FALSE
    /\ resources' = FoldLeft(EvictOldest, SelectSeq(resources, LAMBDA r : ~Unused(r)), resources)
    /\ evicted' = Resident \ {resources'[i].actor : i \in DOMAIN resources'}
    /\ UNCHANGED <<frame, pinned, options, shown>>

Pin(a) ==
    /\ pinned' = IF a \in pinned THEN pinned \ {a} ELSE pinned \cup {a}
    /\ UNCHANGED <<frame, inFrame, resources, options, shown, evicted>>

\* The manual purge asks no pin.
ReleaseAll ==
    /\ ~inFrame /\ resources # <<>>
    /\ resources' = <<>>
    /\ UNCHANGED <<frame, inFrame, pinned, options, shown, evicted>>

Next ==
    \/ BeginFrame \/ EndFrame \/ ReleaseAll
    \/ \E a \in Actors : Pin(a) \/ \E b \in ActorSizes : Ensure(a, b)

-----------------------------------------------------------------------------
\* "Visible or pinned mapper/glyph resources are never evicted to meet a budget"
\* (docs/api/PUBLIC_API_CONTRACTS.md:70), and the budget holds unless only they are left.
BudgetKept ==
    [][EndFrame =>
        /\ evicted' \cap (shown \cup pinned) = {}
        /\ OverBudget(resources') => \A i \in DOMAIN resources' : ~Evictable(resources'[i])
        /\ \A i \in DOMAIN resources' : ~Unused(resources'[i])]_memoryVars
=============================================================================
