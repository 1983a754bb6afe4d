----------------------------- MODULE TimeSeries -----------------------------
(***************************************************************************)
(* Data ordered by time, and the searches in it: the steps of              *)
(* FVizTemporalDataSet.c, at different times, and the samples of a history *)
(* and the frames of a step of FVizResultDatabase.c, which may coincide.   *)
(***************************************************************************)
EXTENDS Integers, Sequences, SequencesExt

CONSTANTS
    Times,    \* that entries have; a program asks for them and for those between
    MaxSteps

VARIABLES
    sort, \* "steps" or "samples"
    times

seriesVars == <<sort, times>>

Init ==
    /\ sort \in {"steps", "samples"}
    /\ times = <<>>

-----------------------------------------------------------------------------
(* Searches *)

\* The first entry that is not before a time, by halves.
RECURSIVE LowerBound(_, _, _)
LowerBound(first, count, t) ==
    IF count = 0 THEN first
    ELSE LET step == count \div 2
         IN  IF times[first + step] < t
             THEN LowerBound(first + step + 1, count - step - 1, t)
             ELSE LowerBound(first, step, t)
First(t) == LowerBound(1, Len(times), t)

\* The way from an entry to the next, as a fraction.
Bracket(lower, upper, along, whole) == [lower |-> lower, upper |-> upper, along |-> along, whole |-> whole]
Between(lower, upper, t) == Bracket(lower, upper, t - times[lower], times[upper] - times[lower])
At(i) == Bracket(i, i, 0, 1)

FindNearest(t) ==
    LET i == First(t)
    IN  IF i = 1 THEN 1
        ELSE IF i > Len(times) THEN Len(times)
        ELSE IF t - times[i - 1] <= times[i] - t THEN i - 1 ELSE i

FindBracket(t) ==
    LET upper == First(t)
    IN  IF upper = 1 THEN At(1)
        ELSE IF upper > Len(times) THEN At(Len(times))
        ELSE IF times[upper] = t THEN At(upper)
        ELSE Between(upper - 1, upper, t)

\* The last entry that is not behind a time, and the next one.
RECURSIVE Halved(_, _, _)
Halved(lo, hi, t) ==
    IF hi - lo <= 1 THEN Between(lo, hi, t)
    ELSE LET mid == lo + (hi - lo) \div 2
         IN  IF times[mid] <= t THEN Halved(mid, hi, t) ELSE Halved(lo, mid, t)
FindFrameValue(t) ==
    IF t <= times[1] THEN At(1)
    ELSE IF t >= Last(times) THEN At(Len(times))
    ELSE Halved(1, Len(times), t)

-----------------------------------------------------------------------------
(* Operations *)

Increasing(batch) == \A i \in 1 .. Len(batch) - 1 : batch[i] < batch[i + 1]
Ascending(batch) == \A i \in 1 .. Len(batch) - 1 : batch[i] <= batch[i + 1]

AddStep(t) ==
    /\ sort = "steps" /\ Len(times) < MaxSteps
    /\ ~(First(t) <= Len(times) /\ times[First(t)] = t)
    /\ times' = InsertAt(times, First(t), t)
    /\ UNCHANGED sort

SetStep(i, t) ==
    /\ sort = "steps"
    /\ i > 1 => t > times[i - 1]
    /\ i < Len(times) => t < times[i + 1]
    /\ times' = [times EXCEPT ![i] = t]
    /\ UNCHANGED sort

AppendSteps(batch) ==
    /\ sort = "steps" /\ Len(times) + Len(batch) <= MaxSteps
    /\ Increasing(batch)
    /\ times # <<>> => batch[1] > Last(times)
    /\ times' = times \o batch
    /\ UNCHANGED sort

RemoveStep(i) ==
    /\ sort = "steps"
    /\ times' = RemoveAt(times, i)
    /\ UNCHANGED sort

\* One sample or frame is a batch of one.
AppendSamples(batch) ==
    /\ sort = "samples" /\ Len(times) + Len(batch) <= MaxSteps
    /\ Ascending(batch)
    /\ times # <<>> => batch[1] >= Last(times)
    /\ times' = times \o batch
    /\ UNCHANGED sort

Next ==
    \/ \E t \in Times : AddStep(t)
    \/ \E i \in DOMAIN times : RemoveStep(i) \/ \E t \in Times : SetStep(i, t)
    \/ \E batch \in SeqOf(Times, 2) \ {<<>>} : AppendSteps(batch) \/ AppendSamples(batch)

-----------------------------------------------------------------------------
(* What is asked for *)

Distance(i, t) == IF times[i] < t THEN t - times[i] ELSE times[i] - t

\* The fraction stands for the time, or for the nearer end of the series.
Stands(found, t) ==
    LET clamped == IF t < times[1] THEN times[1] ELSE IF t > Last(times) THEN Last(times) ELSE t
    IN  /\ found.upper - found.lower \in {0, 1}
        /\ found.whole > 0 /\ found.along \in 0 .. found.whole
        /\ (clamped - times[found.lower]) * found.whole
             = found.along * (times[found.upper] - times[found.lower])

\* Steps stay strictly ordered, samples ordered, whatever is added, replaced, appended or
\* removed; every search stands for the time that was asked for, also before, behind,
\* at and between entries that coincide, and the nearest step is nearest, the earlier of two
\* (FVizTemporalDataSet.c:316, :344, FVizResultDatabase.c:269, :763).
SearchesExact ==
    /\ IF sort = "steps" THEN Increasing(times) ELSE Ascending(times)
    /\ times # <<>> =>
        \A t \in Times \cup {x + 1 : x \in Times} \cup {0} :
            IF sort = "steps"
            THEN /\ Stands(FindBracket(t), t)
                 /\ \A i \in DOMAIN times :
                        \/ Distance(FindNearest(t), t) < Distance(i, t)
                        \/ Distance(FindNearest(t), t) = Distance(i, t) /\ FindNearest(t) <= i
            ELSE Stands(FindFrameValue(t), t)
=============================================================================
