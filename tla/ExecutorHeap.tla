---------------------------- MODULE ExecutorHeap ----------------------------
(***************************************************************************)
(* The ready heap of src/Parallel/FVizExecutor.c: an array in which entry i *)
(* has the children 2i + 1 and 2i + 2.  Executor treats it as a set whose   *)
(* first element is popped; this module shows that the array is one.        *)
(***************************************************************************)
EXTENDS Integers, Sequences, SequencesExt

CONSTANTS
    Priorities,  \* priorities a future may have
    MaxSequence, \* bound: submissions
    Capacity     \* queue_capacity

VARIABLES
    queue,    \* executor->queue, entry i of the code being queue[i + 1]
    sequence, \* next_sequence
    waiting,  \* parked futures, whose sequence is older than their push
    popped    \* the last entry popped, <<>> before

vars == <<queue, sequence, waiting, popped>>

Entries == [priority : Priorities, sequence : 0 .. MaxSequence]

SchedulesFirst(f, g) ==
    IF f.priority # g.priority THEN f.priority > g.priority
    ELSE f.sequence < g.sequence

Parent(i) == (i - 1) \div 2
At(heap, i) == heap[i + 1]
Exchange(heap, i, j) ==
    [heap EXCEPT ![i + 1] = At(heap, j), ![j + 1] = At(heap, i)]

RECURSIVE SiftUp(_, _)
SiftUp(heap, i) ==
    IF i = 0 \/ ~SchedulesFirst(At(heap, i), At(heap, Parent(i))) THEN heap
    ELSE SiftUp(Exchange(heap, i, Parent(i)), Parent(i))

LargestLeftOnly(heap, i) ==
    IF 2 * i + 1 < Len(heap) /\ SchedulesFirst(At(heap, 2 * i + 1), At(heap, i))
    THEN 2 * i + 1 ELSE i
\* The entry among i and its children that is scheduled first.
Largest(heap, i) ==
    LET Better(j, k) ==
          IF k < Len(heap) /\ SchedulesFirst(At(heap, k), At(heap, j)) THEN k ELSE j
    IN  Better(Better(i, 2 * i + 1), 2 * i + 2)

RECURSIVE SiftDown(_, _)
SiftDown(heap, i) ==
    LET largest == Largest(heap, i) IN
    IF largest = i THEN heap
    ELSE SiftDown(Exchange(heap, i, largest), largest)

Push(heap, f) == SiftUp(Append(heap, f), Len(heap))

\* The last entry takes the place of the first and sinks.
AfterPop(heap) ==
    IF Len(heap) = 1 THEN <<>>
    ELSE SiftDown([Front(heap) EXCEPT ![1] = Last(heap)], 0)

Init == queue = <<>> /\ sequence = 0 /\ waiting = {} /\ popped = <<>>

\* fviz_executor_submit_internal, with the entry ready or parked.
Submit(p) ==
    LET f == [priority |-> p, sequence |-> sequence] IN
    /\ sequence < MaxSequence
    /\ Len(queue) + Cardinality(waiting) < Capacity
    /\ sequence' = sequence + 1
    /\ \/ queue' = Push(queue, f) /\ waiting' = waiting
       \/ waiting' = waiting \cup {f} /\ queue' = queue
    /\ popped' = popped

\* fviz_executor_promote_waiters pushes an older entry.
Promote(f) ==
    /\ queue' = Push(queue, f)
    /\ waiting' = waiting \ {f}
    /\ UNCHANGED <<sequence, popped>>

\* fviz_heap_pop
Pop ==
    /\ queue # <<>>
    /\ popped' = <<Head(queue)>>
    /\ queue' = AfterPop(queue)
    /\ UNCHANGED <<sequence, waiting>>

Next == (\E p \in Priorities : Submit(p)) \/ (\E f \in waiting : Promote(f)) \/ Pop

Spec == Init /\ [][Next]_vars

-----------------------------------------------------------------------------
\* The types, and no entry is stored twice.
TypeOK ==
    /\ queue \in Seq(Entries) /\ IsInjective(queue)
    /\ sequence \in 0 .. MaxSequence
    /\ waiting \subseteq Entries
    /\ Len(popped) <= 1

\* No entry is scheduled before its parent.
HeapOrdered ==
    \A i \in 1 .. Len(queue) - 1 : SchedulesFirst(At(queue, Parent(i)), At(queue, i))

\* A pop takes the entry of the highest priority and, among those, the earliest
\* submitted one, and no other entry is lost: "strictly by priority then by
\* submission order", also for entries promoted late.
PopsFirst ==
    [][queue # <<>> /\ Len(queue') < Len(queue) =>
        /\ popped' = <<queue[1]>>
        /\ \A f \in ToSet(queue) \ {queue[1]} : SchedulesFirst(queue[1], f)
        /\ ToSet(queue') = ToSet(queue) \ {queue[1]}]_vars
=============================================================================
