-------------------------- MODULE TemporalPrefetch --------------------------
(***************************************************************************)
(* The prefetch queue of src/Data/FVizTemporalFrameCache.c: a bounded set  *)
(* of frames to load, and a drain task on the cache's executor that loads  *)
(* one frame and submits its own successor.  An action is one critical     *)
(* section of queue->mutex or one call made between two of them.           *)
(*                                                                         *)
(* The executor is the cache's own: one worker, so a drain runs to its end *)
(* before the next one starts.  It refuses a submission when other         *)
(* requests to the cache have filled its queue.                            *)
(***************************************************************************)
EXTENDS Integers, Sequences, FiniteSets

CONSTANTS
    Callers,     \* program threads
    LastKey,     \* UINT64_MAX: the keys are 0 .. LastKey
    Requests,    \* the requests the program makes, <<key, priority>>
    Windows,     \* and the windows, <<current key, direction, ahead, behind>>
    Capacity,    \* pending_capacity
    MaxCalls,    \* bound: calls the program makes, a window counting for two
    MaxRefusals, \* bound: submissions the executor refuses
    Worker,      \* the executor's thread
    None

ASSUME ConstantsAssumption ==
    /\ Worker \notin Callers
    /\ LastKey \in Nat /\ Capacity \in Nat \ {0}
    /\ Requests \subseteq (0 .. LastKey) \X Int
    /\ Windows \subseteq (0 .. LastKey) \X (-1 .. 1) \X Nat \X Nat
    /\ MaxCalls \in Nat /\ MaxRefusals \in Nat
    /\ None \notin Nat

VARIABLES
    entries,    \* the pending entries, whose order in the array has no effect
    serial,     \* queue->serial
    direction,  \* queue->direction
    stopping, active,
    cancelled,  \* the queue's token
    activeTask, \* the future queue->active_task points to
    drains,     \* the drain tasks submitted so far, each with its future
    task,       \* the drain the worker runs
    work,       \* the entry it loads
    pc,         \* where each thread is
    mine,       \* the future a thread holds in a local variable
    todo,       \* the requests a call of request_window has left
    calls, refusals, \* the calls and refusals there were
    lastCancel, \* serial at the last cancellation
    denied,     \* the last submission was refused
    lost        \* futures whose only pointer was overwritten

queueVars == <<entries, serial, direction, stopping, active, cancelled, activeTask>>
workerVars == <<task, work>>
boundVars == <<calls, refusals>>
noteVars == <<lastCancel, denied, lost>>
vars == <<queueVars, drains, workerVars, pc, mine, todo, boundVars, noteVars>>

Keys == 0 .. LastKey
Threads == Callers \cup {Worker}

Init ==
    /\ entries = {} /\ serial = 0 /\ direction = 0
    /\ stopping = FALSE /\ active = FALSE /\ cancelled = FALSE
    /\ activeTask = None
    /\ drains = <<>> /\ task = None /\ work = None
    /\ pc = [t \in Threads |-> "idle"]
    /\ mine = [t \in Threads |-> None]
    /\ todo = [c \in Callers |-> <<>>]
    /\ calls = 0 /\ refusals = 0
    /\ lastCancel = 0 /\ denied = FALSE /\ lost = {}

-----------------------------------------------------------------------------
(* Helpers *)

\* e is taken before f: higher priority first, then earlier submission.
Before(e, f) ==
    \/ e.priority > f.priority
    \/ e.priority = f.priority /\ e.serial < f.serial

Best == CHOOSE e \in entries : \A f \in entries \ {e} : Before(e, f)
Worst == CHOOSE e \in entries : \A f \in entries \ {e} : Before(f, e)

Goto(t, l) == pc' = [pc EXCEPT ![t] = l]

WakeForgotten(t, l) == Goto(t, l)
\* Thread t goes on at l and every thread asleep on queue->condition wakes.
WakeGoto(t, l) ==
    pc' = [u \in Threads |-> IF u = t THEN l
                             ELSE IF pc[u] = "asleep" THEN "waiting" ELSE pc[u]]

Hold(t, d) == mine' = [mine EXCEPT ![t] = d]

\* Where a request of c returns to.
Caller(c) == IF todo[c] = <<>> THEN "idle" ELSE "window"

\* The future d is cancelled, as fviz_future_destroy does before it waits.
CancelFuture(d) == drains' = [drains EXCEPT ![d].cancelled = TRUE]

\* queue->active_task = d
SetActiveTask(d) ==
    /\ activeTask' = d
    /\ lost' = IF activeTask = None THEN lost ELSE lost \cup {activeTask}

BorrowActiveTask(t) == Hold(t, activeTask) /\ activeTask' = activeTask
\* Thread t takes the future out of queue->active_task.
TakeActiveTask(t) == Hold(t, activeTask) /\ activeTask' = None

\* A new drain, which will destroy the future d.
Submitted(d) == Append(drains, [status |-> "queued", previous |-> d, cancelled |-> FALSE])
NewDrain == Len(drains) + 1

SubmitAccepted(t, l) ==
    /\ drains' = Submitted(mine[t])
    /\ Hold(t, NewDrain)
    /\ denied' = FALSE
    /\ Goto(t, l)
    /\ UNCHANGED <<refusals>>

\* The executor's queue is full.
Refusal == refusals < MaxRefusals /\ refusals' = refusals + 1

\* The second half of fviz_future_destroy: wait for the future, free it.
FreeMine(t) ==
    /\ mine[t] # None
    /\ drains[mine[t]].status = "done"
    /\ drains' = [drains EXCEPT ![mine[t]].status = "freed"]
    /\ Hold(t, None)

-----------------------------------------------------------------------------
(* Requests *)

\* The program calls the queue; not while another thread destroys it.
Calls(c, n) ==
    /\ pc[c] = "idle" /\ ~stopping
    /\ calls + n <= MaxCalls /\ calls' = calls + n

\* A frame that is not pending, in a free place or in that of the worst entry.
Insert(key, priority) ==
    /\ entries' = (IF Cardinality(entries) = Capacity THEN entries \ {Worst} ELSE entries)
                  \cup {[key |-> key, priority |-> priority, serial |-> serial + 1]}
    /\ serial' = serial + 1

\* The locked part of fviz_temporal_prefetch_queue_request, made by c when l is
\* where it returns to.
Enqueue(c, key, priority, l) ==
    LET same == {e \in entries : e.key = key}
        full == Cardinality(entries) = Capacity
    IN
    /\ \/ /\ same # {}
          /\ entries' = {IF e.key = key /\ priority > e.priority
                         THEN [e EXCEPT !.priority = priority] ELSE e : e \in entries}
          /\ serial' = serial /\ Goto(c, l)
       \/ /\ same = {} /\ full /\ priority <= Worst.priority
          /\ UNCHANGED <<entries, serial>> /\ Goto(c, l)
       \/ /\ same = {} /\ (full => priority > Worst.priority)
          /\ Insert(key, priority) /\ Goto(c, "kick")
    /\ UNCHANGED <<direction, stopping, active, cancelled, activeTask, drains,
                   workerVars, mine, refusals, noteVars>>

Request(c, key, priority) ==
    /\ Calls(c, 1)
    /\ Enqueue(c, key, priority, "idle")
    /\ UNCHANGED todo

\* The next request of a window.
WindowRequest(c) ==
    /\ pc[c] = "window"
    /\ todo' = [todo EXCEPT ![c] = Tail(@)]
    /\ Enqueue(c, Head(todo[c]).key, Head(todo[c]).priority,
               IF Len(todo[c]) = 1 THEN "idle" ELSE "window")
    /\ UNCHANGED calls

KeepToken == cancelled
\* fviz_cancellation_token_reset, at the start of a drain.
ResetToken == FALSE

NothingPending == stopping \/ entries = {}
\* There is a drain already, or nothing to drain.
NothingToStart == active \/ stopping \/ entries = {}

\* fviz_temporal_prefetch_kick, locked part: start a drain if there is none.
Kick(c) ==
    /\ pc[c] = "kick"
    /\ IF NothingToStart
       THEN Goto(c, Caller(c)) /\ UNCHANGED <<active, cancelled, activeTask, mine>>
       ELSE /\ TakeActiveTask(c)
            /\ active' = TRUE /\ cancelled' = ResetToken
            /\ Goto(c, "submit")
    /\ UNCHANGED <<entries, serial, direction, stopping, drains, workerVars, todo,
                   boundVars, noteVars>>

\* Its submission, without the lock.  When it is refused, the destructor of the
\* task begins to destroy the previous future.
KickSubmit(c) ==
    /\ pc[c] = "submit"
    /\ \/ SubmitAccepted(c, "store")
       \/ /\ Refusal /\ denied' = TRUE /\ Goto(c, "undo")
          /\ IF mine[c] = None THEN UNCHANGED drains ELSE CancelFuture(mine[c])
          /\ UNCHANGED mine
    /\ UNCHANGED <<queueVars, workerVars, todo, calls, lastCancel, lost>>

KickUndo(c) ==
    /\ pc[c] = "undo"
    /\ IF mine[c] = None THEN UNCHANGED <<drains, mine>> ELSE FreeMine(c)
    /\ active' = FALSE
    /\ WakeGoto(c, Caller(c))
    /\ UNCHANGED <<entries, serial, direction, stopping, cancelled, activeTask,
                   workerVars, todo, boundVars, noteVars>>

KickStore(c) ==
    /\ pc[c] = "store"
    /\ SetActiveTask(mine[c]) /\ Hold(c, None)
    /\ WakeGoto(c, Caller(c))
    /\ UNCHANGED <<entries, serial, direction, stopping, active, cancelled, drains,
                   workerVars, todo, boundVars, lastCancel, denied>>

-----------------------------------------------------------------------------
(* Cancellation, windows, waiting and destruction *)

\* What a cancellation does to the queue and its token.
Drop ==
    /\ entries' = {} /\ cancelled' = TRUE
    /\ lastCancel' = serial

\* fviz_temporal_prefetch_queue_cancel
Cancel(c) ==
    /\ Calls(c, 1)
    /\ Drop
    /\ WakeGoto(c, "idle")
    /\ UNCHANGED <<serial, direction, stopping, active, activeTask, drains,
                   workerVars, mine, todo, refusals, denied, lost>>

\* The keys at the distances 1 .. count from key, ascending or descending, that
\* do not pass an end of the key range.
Neighbours(key, ascending, count, priority) ==
    LET reach == IF ascending THEN LastKey - key ELSE key
        n == IF count < reach THEN count ELSE reach
    IN  [i \in 1 .. n |-> [key |-> IF ascending THEN key + i ELSE key - i,
                           priority |-> priority - i]]

IntMax == 2147483647
AheadPriority == 1000000
BehindPriority == 500000

\* fviz_temporal_prefetch_queue_request_window, up to its first request.
Window(c, key, d, ahead, behind) ==
    /\ Calls(c, 2)
    /\ IF d # 0 /\ direction # 0 /\ d # direction
       THEN Drop
       ELSE UNCHANGED <<entries, cancelled, lastCancel>>
    /\ direction' = d
    /\ todo' = [todo EXCEPT ![c] =
                  <<[key |-> key, priority |-> IntMax]>>
                  \o Neighbours(key, d >= 0, ahead, AheadPriority)
                  \o Neighbours(key, d < 0, behind, BehindPriority)]
    /\ WakeGoto(c, "window")
    /\ UNCHANGED <<serial, stopping, active, activeTask, drains, workerVars, mine,
                   refusals, denied, lost>>

\* fviz_temporal_prefetch_queue_wait_idle
WaitIdle(c) ==
    /\ Calls(c, 1)
    /\ Goto(c, "waiting")
    /\ UNCHANGED <<queueVars, drains, workerVars, mine, todo, refusals, noteVars>>

\* fviz_temporal_prefetch_queue_destroy, which nothing else may overlap.
Destroy(c) ==
    /\ \A b \in Callers : pc[b] = "idle"
    /\ ~stopping
    /\ stopping' = TRUE /\ Drop
    /\ WakeGoto(c, "waiting")
    /\ UNCHANGED <<serial, direction, active, activeTask, drains, workerVars, mine,
                   todo, boundVars, denied, lost>>

BusyPending == entries # {}
\* What wait_idle waits for to end; in queue_destroy nothing is pending.
Busy == active \/ entries # {}

Ended == IF stopping THEN "destroyed" ELSE "idle"

\* The loops of wait_idle and queue_destroy, and the taking of active_task.
Await(c) ==
    /\ pc[c] = "waiting"
    /\ IF Busy THEN Goto(c, "asleep") /\ UNCHANGED <<activeTask, mine, drains>>
       ELSE IF activeTask = None
       THEN Goto(c, Ended) /\ UNCHANGED <<activeTask, mine, drains>>
       ELSE /\ TakeActiveTask(c)
            /\ CancelFuture(activeTask)
            /\ Goto(c, "freeing")
    /\ UNCHANGED <<entries, serial, direction, stopping, active, cancelled,
                   workerVars, todo, boundVars, noteVars>>

\* fviz_future_destroy returns.
Freed(c) ==
    /\ pc[c] = "freeing"
    /\ FreeMine(c)
    /\ Goto(c, Ended)
    /\ UNCHANGED <<queueVars, workerVars, todo, boundVars, noteVars>>

-----------------------------------------------------------------------------
(* The drain: fviz_temporal_prefetch_run on the executor's worker *)

\* The worker takes the next future; a cancelled one does not run.
Pop(d) ==
    /\ pc[Worker] = "idle"
    /\ drains[d].status = "queued"
    /\ task' = d
    /\ drains' = [drains EXCEPT ![d].status = "running"]
    /\ Goto(Worker, IF drains[d].cancelled THEN "release" ELSE "start")
    /\ UNCHANGED <<queueVars, work, mine, todo, boundVars, noteVars>>

\* The first critical section: choose what to load, on a clean token.
Start ==
    /\ pc[Worker] = "start"
    /\ IF stopping \/ entries = {}
       THEN /\ active' = FALSE /\ WakeGoto(Worker, "release")
            /\ UNCHANGED <<entries, cancelled, work>>
       ELSE /\ work' = Best /\ entries' = entries \ {Best}
            /\ cancelled' = ResetToken
            /\ Goto(Worker, "load") /\ UNCHANGED active
    /\ UNCHANGED <<serial, direction, stopping, activeTask, drains, task, mine,
                   todo, boundVars, noteVars>>

\* fviz_temporal_frame_cache_get returns, with a frame or without.
Load ==
    /\ pc[Worker] = "load"
    /\ work' = None /\ Goto(Worker, "after")
    /\ UNCHANGED <<queueVars, drains, task, mine, todo, boundVars, noteVars>>

NoMoreWork == FALSE
\* Work remains after a load.
MoreWork == ~stopping /\ entries # {}

\* The second critical section: submit a successor or end the drain.
After ==
    /\ pc[Worker] = "after"
    /\ IF MoreWork
       THEN /\ TakeActiveTask(Worker)
            /\ Goto(Worker, "submit") /\ UNCHANGED active
       ELSE /\ active' = FALSE /\ WakeGoto(Worker, "release")
            /\ UNCHANGED <<activeTask, mine>>
    /\ UNCHANGED <<entries, serial, direction, stopping, cancelled, drains,
                   workerVars, todo, boundVars, noteVars>>

Resubmit ==
    /\ pc[Worker] = "submit"
    /\ \/ SubmitAccepted(Worker, "store")
       \/ /\ Refusal /\ denied' = TRUE /\ Goto(Worker, "undo")
          /\ UNCHANGED <<drains, mine>>
    /\ UNCHANGED <<queueVars, workerVars, todo, calls, lastCancel, lost>>

\* The successor was refused: the future goes back to the queue.
Restore ==
    /\ pc[Worker] = "undo"
    /\ SetActiveTask(mine[Worker]) /\ Hold(Worker, None)
    /\ active' = FALSE /\ WakeGoto(Worker, "release")
    /\ UNCHANGED <<entries, serial, direction, stopping, cancelled, drains,
                   workerVars, todo, boundVars, lastCancel, denied>>

StoreNext ==
    /\ pc[Worker] = "store"
    /\ SetActiveTask(mine[Worker]) /\ Hold(Worker, None)
    /\ Goto(Worker, "release")
    /\ UNCHANGED <<entries, serial, direction, stopping, active, cancelled, drains,
                   workerVars, todo, boundVars, lastCancel, denied>>

\* fviz_temporal_prefetch_task_destroy begins to destroy the previous future.
Release ==
    LET previous == drains[task].previous IN
    /\ pc[Worker] = "release"
    /\ IF previous = None THEN Goto(Worker, "complete") /\ UNCHANGED <<drains, mine>>
       ELSE /\ drains' = [drains EXCEPT ![task].previous = None,
                                        ![previous].cancelled = TRUE]
            /\ Hold(Worker, previous) /\ Goto(Worker, "freeing")
    /\ UNCHANGED <<queueVars, workerVars, todo, boundVars, noteVars>>

Released ==
    /\ pc[Worker] = "freeing"
    /\ FreeMine(Worker)
    /\ Goto(Worker, "complete")
    /\ UNCHANGED <<queueVars, workerVars, todo, boundVars, noteVars>>

\* The executor publishes the drain's future as ready.
Complete ==
    /\ pc[Worker] = "complete"
    /\ drains' = [drains EXCEPT ![task].status = "done"]
    /\ task' = None /\ Goto(Worker, "idle")
    /\ UNCHANGED <<queueVars, work, mine, todo, boundVars, noteVars>>

-----------------------------------------------------------------------------
WorkerStep ==
    \/ \E d \in DOMAIN drains : Pop(d)
    \/ Start \/ Load \/ After \/ Resubmit \/ Restore \/ StoreNext
    \/ Release \/ Released \/ Complete

\* A caller inside a call goes on.
CallerStep(c) ==
    \/ WindowRequest(c) \/ Kick(c) \/ KickSubmit(c) \/ KickUndo(c) \/ KickStore(c)
    \/ Await(c) \/ Freed(c)

\* A caller begins a call.
Call(c) ==
    \/ \E r \in Requests : Request(c, r[1], r[2])
    \/ \E w \in Windows : Window(c, w[1], w[2], w[3], w[4])
    \/ Cancel(c) \/ WaitIdle(c) \/ Destroy(c)

Next == WorkerStep \/ \E c \in Callers : Call(c) \/ CallerStep(c)

Spec == Init /\ [][Next]_vars

FairSpec ==
    /\ Spec
    /\ WF_vars(WorkerStep)
    /\ \A c \in Callers : WF_vars(CallerStep(c))
-----------------------------------------------------------------------------
Entry == [key : Keys, priority : Int, serial : Nat]
Drain == [status : {"queued", "running", "done", "freed"},
          previous : Nat \cup {None}, cancelled : BOOLEAN]
Labels == {"idle", "window", "kick", "submit", "undo", "store", "waiting", "asleep",
           "freeing", "destroyed", "start", "load", "after", "release", "complete"}

\* The types.  A frame is pending once and the entries fit the array.
TypeOK ==
    /\ entries \subseteq Entry /\ Cardinality(entries) <= Capacity
    /\ \A e, f \in entries : e # f => e.key # f.key /\ e.serial # f.serial
    /\ serial \in Nat /\ direction \in -1 .. 1
    /\ stopping \in BOOLEAN /\ active \in BOOLEAN /\ cancelled \in BOOLEAN
    /\ activeTask \in DOMAIN drains \cup {None}
    /\ drains \in Seq(Drain)
    /\ task \in DOMAIN drains \cup {None} /\ work \in Entry \cup {None}
    /\ pc \in [Threads -> Labels]
    /\ mine \in [Threads -> DOMAIN drains \cup {None}]
    /\ lost \subseteq DOMAIN drains

\* The threads and drains on which it depends that the active flag is cleared.
Drainers ==
    {c \in Callers : pc[c] \in {"submit", "undo"}}
    \cup {d \in DOMAIN drains :
            \/ drains[d].status = "queued"
            \/ task = d /\ pc[Worker] \in {"start", "load", "after", "submit", "undo"}}

\* The queue keeps to its capacity, and the active flag stands for exactly one drain, from the moment a caller decides
\* to start it to the critical section in which its last link gives up: no frame
\* is drained twice at the same time, and a set flag is always cleared by someone.
OneDrain == TypeOK /\ Cardinality(Drainers) = IF active THEN 1 ELSE 0

\* "Cancels the active request and clears pending work": a load in progress is
\* cancelled exactly when its entry was requested before the last cancellation or
\* reversal.  No request revives a stale load, no cancellation hits a later one.
CancelledIffStale ==
    work # None => (cancelled <=> work.serial <= lastCancel)

\* Pending entries have a drain, or a caller that is about to start one, unless
\* the executor has refused the last submission.
NoneStranded ==
    entries # {} /\ ~active => denied \/ \E c \in Callers : pc[c] = "kick"

Owners(d) ==
    {t \in Threads : mine[t] = d}
    \cup {e \in DOMAIN drains : drains[e].previous = d}
    \cup (IF activeTask = d THEN {None} ELSE {})

\* Every future is owned by exactly one of the queue, a thread and the successor of
\* its drain until it is freed, so none is destroyed twice; those that a late store
\* of active_task has overwritten have no owner.
OwnedOnce ==
    \A d \in DOMAIN drains :
        Cardinality(Owners(d)) = IF drains[d].status = "freed" \/ d \in lost THEN 0 ELSE 1

\* "Destroy it once idle so it does not leak": no future loses its owner.
NoneLeaks == lost = {}

\* When queue_destroy has freed the queue, no drain will look at it again.
DestroyedAlone ==
    (\E c \in Callers : pc[c] = "destroyed") =>
        /\ pc[Worker] \notin {"start", "load", "after", "submit", "undo", "store"}
        /\ \A d \in DOMAIN drains : drains[d].status # "queued"

Stranded == entries # {} /\ ~active /\ denied

\* Every call returns, in particular wait_idle and queue_destroy, unless a refused
\* submission leaves entries pending for which nobody starts a drain.
CallsReturn ==
    \A c \in Callers : pc[c] # "idle" ~> pc[c] \in {"idle", "destroyed"} \/ Stranded

-----------------------------------------------------------------------------
(* An instance *)

\* A request for each end of the range of keys, the later one more urgent.
RequestsTwo == {<<0, 0>>, <<2, 1>>}

\* Backward from the first frame and forward from the last: nothing is ahead, one
\* frame, the same, behind.
WindowsTwo == {<<0, -1, 1, 1>>, <<2, 1, 1, 1>>}
=============================================================================
