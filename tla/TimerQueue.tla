----------------------------- MODULE TimerQueue -----------------------------
(***************************************************************************)
(* Timers of FVizRenderWindowInteractor.c.  A poll collects those that are *)
(* due and fires them one after the other; what hears of one may create,   *)
(* reset and destroy others before the next is fired.                      *)
(***************************************************************************)
EXTENDS Integers, Sequences, SequencesExt, FiniteSets

CONSTANTS Intervals, MaxTimers, MaxTimeline

VARIABLES
    timers,   \* in the order they were created; each with the time its phase is counted from
    nextId,
    now,      \* of the last call
    due,      \* of the poll under way: those not yet looked at, or <<0>> when there is none
    fires,    \* how often each fired in this poll
    destroyed \* ids

timerVars == <<timers, nextId, now, due, fires, destroyed>>

NoPoll == <<0>>
Ids == 1..MaxTimers
Find(id) == SelectInSeq(timers, LAMBDA t : t.id = id)

Init ==
    /\ timers = <<>> /\ nextId = 1 /\ now = 0 /\ due = NoPoll
    /\ fires = [id \in Ids |-> 0] /\ destroyed = {}

-----------------------------------------------------------------------------
Create(interval, repeating) ==
    /\ nextId <= MaxTimers
    /\ timers' = Append(timers, [id |-> nextId, interval |-> interval, base |-> now, next |-> now + interval,
                                 repeating |-> repeating, active |-> TRUE])
    /\ nextId' = nextId + 1
    /\ UNCHANGED <<now, due, fires, destroyed>>

Reset(id) ==
    /\ Find(id) # 0
    /\ timers' = [timers EXCEPT ![Find(id)].next = now + timers[Find(id)].interval,
                                ![Find(id)].base = now, ![Find(id)].active = TRUE]
    /\ UNCHANGED <<nextId, now, due, fires, destroyed>>

Destroy(id) ==
    /\ Find(id) # 0
    /\ timers' = RemoveAt(timers, Find(id))
    /\ destroyed' = destroyed \cup {id}
    /\ UNCHANGED <<nextId, now, due, fires>>

-----------------------------------------------------------------------------
Due(t) == t.active /\ now >= t.next

Poll ==
    /\ due = NoPoll
    /\ due' = LET those == SelectSeq(timers, Due) IN [i \in DOMAIN those |-> those[i].id]
    /\ fires' = [id \in Ids |-> 0]
    /\ UNCHANGED <<timers, nextId, now, destroyed>>

\* The first time of its phase that is later than now.
Advanced(t) == [t EXCEPT !.next = @ + ((((now - @) \div t.interval) + 1) * t.interval)]
Rearmed(t) == IF t.repeating THEN Advanced(t) ELSE [t EXCEPT !.active = FALSE]

Fire ==
    /\ due # NoPoll /\ due # <<>>
    /\ due' = Tail(due)
    /\ IF Find(Head(due)) = 0 THEN UNCHANGED <<timers, fires>>
       ELSE /\ timers' = [timers EXCEPT ![Find(Head(due))] = Rearmed(@)]
            /\ fires' = [fires EXCEPT ![Head(due)] = @ + 1]
    /\ UNCHANGED <<nextId, now, destroyed>>

Return ==
    /\ due = <<>>
    /\ due' = NoPoll
    /\ UNCHANGED <<timers, nextId, now, fires, destroyed>>

TimePasses ==
    /\ due = NoPoll /\ now < MaxTimeline
    /\ now' \in (now + 1)..MaxTimeline
    /\ UNCHANGED <<timers, nextId, due, fires, destroyed>>

Next ==
    \/ \E interval \in Intervals, repeating \in BOOLEAN : Create(interval, repeating)
    \/ \E id \in Ids : Reset(id) \/ Destroy(id)
    \/ Poll \/ Fire \/ Return \/ TimePasses

-----------------------------------------------------------------------------
\* A poll fires a timer once at most, however late it is, and none that was destroyed before
\* (docs/design/INTERACTION_SELECTION_WIDGETS.md:10).
FiredOnce ==
    /\ \A id \in Ids : fires'[id] <= 1
    /\ \A id \in destroyed : fires'[id] <= fires[id]

\* When a poll is over, nothing is due any more: what was late waits for a time of its phase.
NoneMissed == due = <<>> => \A i \in DOMAIN timers : ~Due(timers[i])

\* A timer that repeats stays in the phase it was created or reset in, and skips no time
\* that is still to come.
InPhase == \A i \in DOMAIN timers : timers[i].repeating =>
    /\ (timers[i].next - timers[i].base) % timers[i].interval = 0
    /\ timers[i].next <= now + timers[i].interval
=============================================================================
