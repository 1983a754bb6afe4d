------------------------------ MODULE Executor ------------------------------
(***************************************************************************)
(* The asynchronous executors of src/Parallel/FVizExecutor.c: pools of     *)
(* worker threads, the futures submitted to them, continuations parked on  *)
(* the future they depend on, and the two-phase shutdown.                  *)
(*                                                                         *)
(* A step is one critical section of the code, or one access made outside  *)
(* every lock.  Worker threads and the threads that run                    *)
(* fviz_executor_destroy have a program counter; the destroying thread of  *)
(* executor e is named e.  The program that submits, cancels, reads and    *)
(* destroys futures is the environment: it may take any step its contract  *)
(* allows at any time.                                                     *)
(***************************************************************************)
EXTENDS Integers, Sequences, FiniteSets

CONSTANTS
    Executors,      \* the executors of the process
    Workers,        \* the worker threads
    Home,           \* Home[w]: the executor worker w belongs to
    Futures,        \* the futures the program may create
    Priority,       \* Priority[f]: the priority f is submitted with
    Antecedents,    \* Antecedents[f]: what f may be made to depend on
    Frees,          \* Frees[f]: the futures the user-data destructor of f
                    \* destroys, in order
    Capacity,       \* queue_capacity
    Outcomes,       \* what task functions return
    Cancellable,    \* the futures the program cancels
    Takeable,       \* the futures whose value the program takes
    Destroyable,    \* the executors the program destroys
    CrossExecutor,  \* may a continuation go to another executor?
    RejectedThen,   \* may fviz_future_then be called on a full executor?
    FreeInShutdown, \* may the program free a future of an executor that is
                    \* being destroyed?
    None

Threads == Workers \cup Executors
Results == {"OK", "FAILED", "CANCELLED"}
FutureOrNone == Futures \cup {None}

ASSUME ConstantsAssumption ==
    /\ Home \in [Workers -> Executors]
    /\ Priority \in [Futures -> Nat]
    /\ Antecedents \in [Futures -> SUBSET FutureOrNone]
    /\ Frees \in [Futures -> Seq(Futures)]
    /\ Capacity \in Nat
    /\ Outcomes \subseteq Results
    /\ Cancellable \subseteq Futures
    /\ Takeable \subseteq Futures
    /\ Destroyable \subseteq Executors
    /\ CrossExecutor \in BOOLEAN
    /\ RejectedThen \in BOOLEAN
    /\ FreeInShutdown \in BOOLEAN
    /\ None \notin Futures
    /\ IsFiniteSet(Workers)
    /\ Workers \cap Executors = {}

VARIABLES
    (* struct FVizFuture *)
    alloc,       \* "unused", "live", "closing" (in fviz_future_destroy), "freed"
    home,        \* executor
    dep,         \* the antecedent it was submitted with
    holds,       \* dependency # NULL: it still counts in dependent_count
    dependents,  \* dependent_count
    ready, result, value, cancelled, sequence,
    waitingHead, \* head of the chain of futures parked on this one
    waiterNext,  \* waiter_next, the link of that chain
    (* struct FVizExecutor *)
    phase,       \* "open", or how far fviz_executor_destroy has come
    held,        \* fviz_executor_destroy holds the mutex across steps
    heap,        \* the ready heap, as the set of its entries
    parked,      \* the registry of parked futures
    pending,     \* pending_count
    stats,       \* the counters of fviz_executor_get_statistics
    (* threads *)
    pc,
    cur,         \* the future a thread has in hand
    res,         \* the result a worker is about to publish
    detached,    \* the waiter chain fviz_future_complete returned
    chain,       \* the waiter chain still to be promoted
    tail,        \* waiters_tail of fviz_executor_destroy
    (* history *)
    heard,       \* the antecedent result a continuation was given
    runs,        \* how often the task function was called
    disposals    \* how often the user-data destructor was called

futureVars == <<alloc, home, dep, holds, dependents, ready, result, value,
                cancelled, sequence>>
linkVars == <<waitingHead, waiterNext>>
executorVars == <<phase, held, heap, parked, pending, stats>>
threadVars == <<pc, cur, res, detached, chain, tail>>
historyVars == <<heard, runs, disposals>>
vars == <<futureVars, linkVars, executorVars, threadVars, historyVars>>

Init ==
    /\ alloc = [f \in Futures |-> "unused"]
    /\ home = [f \in Futures |-> None]
    /\ dep = [f \in Futures |-> None]
    /\ holds = [f \in Futures |-> FALSE]
    /\ dependents = [f \in Futures |-> 0]
    /\ ready = [f \in Futures |-> FALSE]
    /\ result = [f \in Futures |-> "BUSY"]
    /\ value = [f \in Futures |-> "none"]
    /\ cancelled = [f \in Futures |-> FALSE]
    /\ sequence = [f \in Futures |-> 0]
    /\ waitingHead = [f \in Futures |-> None]
    /\ waiterNext = [f \in Futures |-> None]
    /\ phase = [e \in Executors |-> "open"]
    /\ held = [e \in Executors |-> FALSE]
    /\ heap = [e \in Executors |-> {}]
    /\ parked = [e \in Executors |-> <<>>]
    /\ pending = [e \in Executors |-> 0]
    /\ stats = [e \in Executors |-> [submitted |-> 0, completed |-> 0,
                                     cancelled |-> 0, failed |-> 0, running |-> 0]]
    /\ pc = [t \in Threads |-> "idle"]
    /\ cur = [t \in Threads |-> None]
    /\ res = [t \in Threads |-> "BUSY"]
    /\ detached = [t \in Threads |-> None]
    /\ chain = [t \in Threads |-> None]
    /\ tail = [e \in Executors |-> None]
    /\ heard = [f \in Futures |-> "BUSY"]
    /\ runs = [f \in Futures |-> 0]
    /\ disposals = [f \in Futures |-> 0]

-----------------------------------------------------------------------------
(* Helpers *)

Stopping(e) == phase[e] # "open"

\* The order of the ready heap: higher priority, then earlier submission.
SchedulesFirst(f, g) ==
    \/ Priority[f] > Priority[g]
    \/ Priority[f] = Priority[g] /\ sequence[f] < sequence[g]

\* f is the entry fviz_heap_pop removes.
IsTop(e, f) ==
    /\ f \in heap[e]
    /\ \A g \in heap[e] \ {f} : SchedulesFirst(f, g)

\* worker->current is set from the pop to the publication of the counters.
CurrentPcs == {"check", "antecedent", "run", "release", "callback"}
Currents(e) == {cur[w] : w \in {v \in Workers : Home[v] = e /\ pc[v] \in CurrentPcs}}

Sleepers(e) == {w \in Workers : Home[w] = e /\ pc[w] = "asleep"}

WakeNobody(e, pcNow) == pc' = pcNow
\* pcNow after fviz_executor_wake_one: one waiting worker, if there is one,
\* leaves the condition variable.
WakeOne(e, pcNow) ==
    IF Sleepers(e) = {} THEN pc' = pcNow
    ELSE \E w \in Sleepers(e) : pc' = [pcNow EXCEPT ![w] = "idle"]

WakeAllForgotten(e, pcNow) == pcNow
\* pcNow after fviz_executor_wake_all.
WakeAll(e, pcNow) ==
    [t \in Threads |-> IF t \in Sleepers(e) THEN "idle" ELSE pcNow[t]]

-----------------------------------------------------------------------------
(* The program that uses the executors *)

\* A task on a worker of e is inside its function.
InTask(e) == \E w \in Workers : Home[w] = e /\ pc[w] = "run"

\* Submit and destroy are externally synchronised: a program thread submits to
\* an open executor, a running task also while its executor shuts down.
MaySubmit(e) == ~held[e] /\ (phase[e] = "open" \/ InTask(e))

Refuses(e) == Stopping(e) \/ pending[e] >= Capacity

\* A program may use a future until it destroys it.
Usable(f) == alloc[f] = "live"

MayDepend(f, e, d) ==
    /\ d \in Antecedents[f]
    /\ d # None => Usable(d) /\ (CrossExecutor \/ home[d] = e)

MustPark(d) == d # None /\ ~ready[d]

\* Link f in front of the futures that already wait for d.
LinkAlone(f, d) == waiterNext' = [waiterNext EXCEPT ![f] = None]
LinkWaiter(f, d) == waiterNext' = [waiterNext EXCEPT ![f] = waitingHead[d]]

\* Accepted submission: a task, a continuation whose antecedent is ready, or a
\* continuation that is linked into the waiter chain and the registry.
Accept(f, e, d) ==
    /\ alloc[f] = "unused" /\ MaySubmit(e) /\ MayDepend(f, e, d) /\ ~Refuses(e)
    /\ alloc' = [alloc EXCEPT ![f] = "live"]
    /\ home' = [home EXCEPT ![f] = e]
    /\ dep' = [dep EXCEPT ![f] = d]
    /\ holds' = [holds EXCEPT ![f] = d # None]
    /\ sequence' = [sequence EXCEPT ![f] = stats[e].submitted]
    /\ stats' = [stats EXCEPT ![e].submitted = @ + 1]
    /\ pending' = [pending EXCEPT ![e] = @ + 1]
    /\ IF MustPark(d)
       THEN /\ LinkWaiter(f, d)
            /\ waitingHead' = [waitingHead EXCEPT ![d] = f]
            /\ parked' = [parked EXCEPT ![e] = Append(@, f)]
            /\ heap' = heap
       ELSE /\ heap' = [heap EXCEPT ![e] = @ \cup {f}]
            /\ UNCHANGED <<waiterNext, waitingHead, parked>>
    /\ dependents' = IF d = None THEN dependents
                     ELSE [dependents EXCEPT ![d] = @ + 1]
    /\ WakeOne(e, pc)
    /\ UNCHANGED <<ready, result, value, cancelled, phase, held,
                   cur, res, detached, chain, tail, historyVars>>

\* fviz_future_release_dependency lowers the count of d unless it is zero.
Lowered(d) == [dependents EXCEPT ![d] = IF @ = 0 THEN 0 ELSE @ - 1]

\* Refused submission: the new future is completed, destroyed and never handed
\* out, after its dependency, which it never counted in, has been released.
Reject(f, e, d) ==
    /\ alloc[f] = "unused" /\ MaySubmit(e) /\ MayDepend(f, e, d) /\ Refuses(e)
    /\ d # None => RejectedThen
    /\ dependents' = IF d = None THEN dependents ELSE Lowered(d)
    /\ pc' = WakeAll(e, pc)
    /\ UNCHANGED <<alloc, home, dep, holds, ready, result, value, cancelled,
                   sequence, linkVars, executorVars, cur, res, detached,
                   chain, tail, historyVars>>

\* fviz_future_cancel
Cancel(f) ==
    /\ f \in Cancellable /\ Usable(f) /\ ~cancelled[f]
    /\ cancelled' = [cancelled EXCEPT ![f] = TRUE]
    /\ UNCHANGED <<alloc, home, dep, holds, dependents, ready, result, value,
                   sequence, linkVars, executorVars, threadVars, historyVars>>

\* fviz_future_take_value
TakeValue(f) ==
    /\ f \in Takeable /\ Usable(f) /\ ready[f] /\ result[f] = "OK" /\ value[f] = "held"
    /\ value' = [value EXCEPT ![f] = "taken"]
    /\ UNCHANGED <<alloc, home, dep, holds, dependents, ready, result,
                   cancelled, sequence, linkVars, executorVars, threadVars,
                   historyVars>>

\* Futures the program destroys itself, not through a user-data destructor.
ProgramOwned(f) == \A g \in Futures : \A i \in DOMAIN Frees[g] : Frees[g][i] # f

\* fviz_future_destroy called by the program: it cancels, and waits ...
BeginFree(f) ==
    /\ Usable(f) /\ ProgramOwned(f)
    /\ FreeInShutdown \/ phase[home[f]] \in {"open", "freed"}
    /\ alloc' = [alloc EXCEPT ![f] = "closing"]
    /\ cancelled' = [cancelled EXCEPT ![f] = TRUE]
    /\ UNCHANGED <<home, dep, holds, dependents, ready, result, value,
                   sequence, linkVars, executorVars, threadVars, historyVars>>

FreeableWithDependents(f) == ready[f]
FreeableEarly(f) == dependents[f] = 0
\* What fviz_future_destroy waits for.
Freeable(f) == ready[f] /\ dependents[f] = 0

\* ... until the future is ready and has no dependents, then frees it.
EndFree(f) ==
    /\ alloc[f] = "closing" /\ Freeable(f)
    /\ FreeInShutdown \/ phase[home[f]] \in {"open", "freed"}
    /\ alloc' = [alloc EXCEPT ![f] = "freed"]
    /\ value' = [value EXCEPT ![f] = IF @ = "held" THEN "destroyed" ELSE @]
    /\ UNCHANGED <<home, dep, holds, dependents, ready, result, cancelled,
                   sequence, linkVars, executorVars, threadVars, historyVars>>

-----------------------------------------------------------------------------
(* fviz_executor_worker_entry *)

Goto(t, label) == pc' = [pc EXCEPT ![t] = label]

\* Take the top of the ready heap.
Pop(w) ==
    LET e == Home[w] IN
    /\ pc[w] = "idle" /\ ~held[e]
    /\ \E f \in heap[e] :
         /\ IsTop(e, f)
         /\ heap' = [heap EXCEPT ![e] = @ \ {f}]
         /\ cur' = [cur EXCEPT ![w] = f]
    /\ stats' = [stats EXCEPT ![e].running = @ + 1]
    /\ pending' = [pending EXCEPT ![e] = IF @ = 0 THEN 0 ELSE @ - 1]
    /\ Goto(w, "check")
    /\ UNCHANGED <<futureVars, linkVars, phase, held, parked,
                   res, detached, chain, tail, historyVars>>

\* Nothing to do: wait on work_condition, or leave when stopping.
Wait(w) ==
    LET e == Home[w] IN
    /\ pc[w] = "idle" /\ ~held[e] /\ heap[e] = {}
    /\ Goto(w, IF Stopping(e) THEN "exited" ELSE "asleep")
    /\ UNCHANGED <<futureVars, linkVars, executorVars, cur, res, detached,
                   chain, tail, historyVars>>

AfterTaskKeeping(f) == "callback"
\* fviz_future_release_dependency does nothing once dependency is NULL.
AfterTask(f) == IF holds[f] THEN "release" ELSE "callback"

\* A cancelled task is not called.
Check(w) ==
    LET f == cur[w] IN
    /\ pc[w] = "check"
    /\ IF cancelled[f]
       THEN Goto(w, AfterTask(f)) /\ res' = [res EXCEPT ![w] = "CANCELLED"]
       ELSE Goto(w, IF dep[f] # None THEN "antecedent" ELSE "run") /\ res' = res
    /\ UNCHANGED <<futureVars, linkVars, executorVars, cur, detached, chain,
                   tail, historyVars>>

ReleaseWithoutReset(f) == dependents' = Lowered(dep[f]) /\ UNCHANGED holds
\* fviz_future_release_dependency(f)
ReleaseDependency(f) ==
    IF holds[f]
    THEN holds' = [holds EXCEPT ![f] = FALSE] /\ dependents' = Lowered(dep[f])
    ELSE UNCHANGED <<holds, dependents>>

\* Read the antecedent's result, which no longer changes, and release it.
ReadAntecedent(w) ==
    LET f == cur[w] IN
    /\ pc[w] = "antecedent"
    /\ heard' = [heard EXCEPT ![f] = result[dep[f]]]
    /\ ReleaseDependency(f)
    /\ Goto(w, "run")
    /\ UNCHANGED <<alloc, home, dep, ready, result, value, cancelled, sequence,
                   linkVars, executorVars, cur, res, detached, chain, tail,
                   runs, disposals>>

\* The task function returns; a cancelled task may still ignore its token.
Run(w) ==
    LET f == cur[w] IN
    /\ pc[w] = "run"
    /\ \E r \in Outcomes :
         /\ r = "CANCELLED" => cancelled[f]
         /\ res' = [res EXCEPT ![w] = r]
    /\ runs' = [runs EXCEPT ![f] = @ + 1]
    /\ Goto(w, AfterTask(f))
    /\ UNCHANGED <<futureVars, linkVars, executorVars, cur, detached, chain,
                   tail, heard, disposals>>

-----------------------------------------------------------------------------
(* Steps a worker and a destroying thread share.  A worker releases the     *)
(* dependency before it calls the user-data destructor; fviz_executor_destroy *)
(* calls the destructor first.                                             *)

Release(t) ==
    /\ pc[t] = "release"
    /\ ReleaseDependency(cur[t])
    /\ Goto(t, IF t \in Workers THEN "callback" ELSE "complete")
    /\ UNCHANGED <<alloc, home, dep, ready, result, value, cancelled, sequence,
                   linkVars, executorVars, cur, res, detached, chain, tail,
                   historyVars>>

\* Where Frees[f] names a future that its destructor has still to destroy.
LeftToFree(f) == {i \in DOMAIN Frees[f] : alloc[Frees[f][i]] # "freed"}
\* The destructor of f is at g.
FreesNext(f, g) ==
    \E i \in LeftToFree(f) : Frees[f][i] = g /\ \A j \in LeftToFree(f) : i <= j

\* The destructor calls fviz_future_destroy: it cancels, waits, frees.
DestructorCancels(t) ==
    /\ pc[t] = "callback"
    /\ \E g \in Futures :
         /\ FreesNext(cur[t], g) /\ ~cancelled[g]
         /\ cancelled' = [cancelled EXCEPT ![g] = TRUE]
    /\ UNCHANGED <<alloc, home, dep, holds, dependents, ready, result, value,
                   sequence, linkVars, executorVars, threadVars, historyVars>>

DestructorFrees(t) ==
    /\ pc[t] = "callback"
    /\ \E g \in Futures :
         /\ FreesNext(cur[t], g) /\ cancelled[g] /\ Freeable(g)
         /\ alloc' = [alloc EXCEPT ![g] = "freed"]
         /\ value' = [value EXCEPT ![g] = IF @ = "held" THEN "destroyed" ELSE @]
    /\ UNCHANGED <<home, dep, holds, dependents, ready, result, cancelled,
                   sequence, linkVars, executorVars, threadVars, historyVars>>

DestructorReturned(f) ==
    /\ LeftToFree(f) = {}
    /\ disposals' = [disposals EXCEPT ![f] = @ + 1]

CountedUnlessCancelled(s, r) ==
    [s EXCEPT !.completed = IF r = "CANCELLED" THEN @ ELSE @ + 1]
\* One more completed future, with result r.
Counted(s, r) ==
    [s EXCEPT !.completed = @ + 1,
              !.cancelled = IF r = "CANCELLED" THEN @ + 1 ELSE @,
              !.failed = IF r = "FAILED" THEN @ + 1 ELSE @]

\* A worker then updates the counters and worker->current, before it publishes
\* ready ...
Publish(w) ==
    LET e == Home[w] IN
    /\ pc[w] = "callback" /\ ~held[e]
    /\ DestructorReturned(cur[w])
    /\ stats' = [stats EXCEPT ![e] = [Counted(stats[e], res[w]) EXCEPT !.running = @ - 1]]
    /\ Goto(w, "complete")
    /\ UNCHANGED <<futureVars, linkVars, phase, held, heap, parked, pending,
                   cur, res, detached, chain, tail, heard, runs>>

\* ... fviz_executor_destroy releases the dependency.
Disposed(e) ==
    /\ pc[e] = "callback"
    /\ DestructorReturned(cur[e])
    /\ Goto(e, IF holds[cur[e]] THEN "release" ELSE "complete")
    /\ UNCHANGED <<futureVars, linkVars, executorVars, cur, res, detached,
                   chain, tail, heard, runs>>

\* fviz_future_complete, up to the release of the future's mutex.  A value
\* exists only with the result OK: the worker has destroyed it otherwise.
Complete(t) ==
    LET f == cur[t] IN
    /\ pc[t] = "complete"
    /\ result' = [result EXCEPT ![f] = res[t]]
    /\ value' = [value EXCEPT ![f] = IF res[t] = "OK" THEN "held" ELSE "none"]
    /\ ready' = [ready EXCEPT ![f] = TRUE]
    /\ detached' = [detached EXCEPT ![t] = waitingHead[f]]
    /\ waitingHead' = [waitingHead EXCEPT ![f] = None]
    /\ Goto(t, "wake")
    /\ UNCHANGED <<alloc, home, dep, holds, dependents, cancelled, sequence,
                   waiterNext, executorVars, cur, res, chain, tail, historyVars>>

\* The rest of fviz_future_complete, after the unlock: it reads
\* future->executor and wakes that executor's workers.  A worker then promotes
\* the chain, fviz_executor_destroy counts the future and collects the chain.
Wake(t) ==
    LET f == cur[t] IN
    /\ pc[t] = "wake"
    /\ pc' = WakeAll(home[f], [pc EXCEPT ![t] = IF t \in Workers THEN "promote"
                                                ELSE "collect"])
    /\ IF t \in Workers
       THEN /\ chain' = [chain EXCEPT ![t] = detached[t]]
            /\ detached' = [detached EXCEPT ![t] = None]
       ELSE UNCHANGED <<chain, detached>>
    /\ cur' = [cur EXCEPT ![t] = None]
    /\ res' = [res EXCEPT ![t] = "BUSY"]
    /\ UNCHANGED <<futureVars, linkVars, executorVars, tail, historyVars>>

\* fviz_executor_promote_waiters: take the head off the chain ...
PromoteNext(t) ==
    LET f == chain[t] IN
    /\ pc[t] = "promote" /\ f # None
    /\ cur' = [cur EXCEPT ![t] = f]
    /\ chain' = [chain EXCEPT ![t] = waiterNext[f]]
    /\ waiterNext' = [waiterNext EXCEPT ![f] = None]
    /\ Goto(t, "push")
    /\ UNCHANGED <<futureVars, waitingHead, executorVars, res, detached, tail,
                   historyVars>>

StillRegistered(e, f) == parked[e]
\* fviz_pending_unlink: f, which is registered, leaves the list.
Unregistered(e, f) ==
    LET i == CHOOSE j \in DOMAIN parked[e] : parked[e][j] = f
    IN  [j \in 1 .. Len(parked[e]) - 1 |-> IF j < i THEN parked[e][j]
                                          ELSE parked[e][j + 1]]

\* ... and schedule it, unless its executor is shutting down.
PromotePush(t) ==
    LET f == cur[t]
        e == home[f]
        resume == [pc EXCEPT ![t] = "promote"]
    IN
    /\ pc[t] = "push" /\ ~held[e]
    /\ IF Stopping(e) THEN pc' = resume /\ UNCHANGED <<parked, heap>>
       ELSE /\ parked' = [parked EXCEPT ![e] = Unregistered(e, f)]
            /\ heap' = [heap EXCEPT ![e] = @ \cup {f}]
            /\ WakeOne(e, resume)
    /\ cur' = [cur EXCEPT ![t] = None]
    /\ UNCHANGED <<futureVars, linkVars, phase, held, pending, stats, res,
                   detached, chain, tail, historyVars>>

\* The worker has promoted the whole chain.
PromoteEnd(w) ==
    /\ pc[w] = "promote" /\ chain[w] = None
    /\ Goto(w, "idle")
    /\ UNCHANGED <<futureVars, linkVars, executorVars, cur, res, detached,
                   chain, tail, historyVars>>

-----------------------------------------------------------------------------
(* fviz_executor_destroy *)

\* Phase 1: take the mutex, forbid new work, cancel what is running.
DestroyBegin(e) ==
    /\ e \in Destroyable /\ phase[e] = "open"
    /\ phase' = [phase EXCEPT ![e] = "drain"]
    /\ held' = [held EXCEPT ![e] = TRUE]
    /\ cancelled' = [f \in Futures |-> cancelled[f] \/ f \in Currents(e)]
    /\ Goto(e, "next")
    /\ UNCHANGED <<alloc, home, dep, holds, dependents, ready, result, value,
                   sequence, linkVars, heap, parked, pending, stats, cur, res,
                   detached, chain, tail, historyVars>>

\* Drain the ready heap ...
DrainNext(e) ==
    /\ phase[e] = "drain" /\ pc[e] = "next"
    /\ \E f \in heap[e] :
         /\ IsTop(e, f)
         /\ heap' = [heap EXCEPT ![e] = @ \ {f}]
         /\ cur' = [cur EXCEPT ![e] = f]
    /\ res' = [res EXCEPT ![e] = "CANCELLED"]
    /\ Goto(e, "callback")
    /\ UNCHANGED <<futureVars, linkVars, phase, held, parked, pending, stats,
                   detached, chain, tail, historyVars>>

\* ... then wake the workers and wait for them to leave.
DrainEnd(e) ==
    /\ phase[e] = "drain" /\ pc[e] = "next" /\ heap[e] = {}
    /\ phase' = [phase EXCEPT ![e] = "join"]
    /\ held' = [held EXCEPT ![e] = FALSE]
    /\ pc' = WakeAll(e, pc)
    /\ UNCHANGED <<futureVars, linkVars, heap, parked, pending, stats, cur, res,
                   detached, chain, tail, historyVars>>

Join(e) ==
    /\ phase[e] = "join"
    /\ \A w \in Workers : Home[w] = e => pc[w] = "exited"
    /\ phase' = [phase EXCEPT ![e] = "walk"]
    /\ held' = [held EXCEPT ![e] = TRUE]
    /\ UNCHANGED <<futureVars, linkVars, heap, parked, pending, stats,
                   threadVars, historyVars>>

\* waiter_next of f's predecessor and waiting_head of its antecedent, with f
\* taken out of the chain of the antecedent if it is still in it.
Unlinked(f) ==
    LET d == dep[f] IN
    IF ~holds[f] \/ waitingHead[d] = None THEN <<waitingHead, waiterNext>>
    ELSE IF waitingHead[d] = f
    THEN <<[waitingHead EXCEPT ![d] = waiterNext[f]], waiterNext>>
    ELSE <<waitingHead, [g \in Futures |-> IF waiterNext[g] = f THEN waiterNext[f]
                                           ELSE waiterNext[g]]>>

\* Phase 2: walk the registry of parked futures.
WalkNext(e) ==
    /\ phase[e] = "walk" /\ pc[e] = "next" /\ parked[e] # <<>>
    /\ LET f == Head(parked[e]) IN
         /\ waitingHead' = Unlinked(f)[1]
         /\ waiterNext' = [Unlinked(f)[2] EXCEPT ![f] = None]
         /\ cancelled' = [cancelled EXCEPT ![f] = TRUE]
         /\ cur' = [cur EXCEPT ![e] = f]
    /\ parked' = [parked EXCEPT ![e] = Tail(@)]
    /\ res' = [res EXCEPT ![e] = "CANCELLED"]
    /\ Goto(e, "callback")
    /\ UNCHANGED <<alloc, home, dep, holds, dependents, ready, result, value,
                   sequence, phase, held, heap, pending, stats, detached, chain,
                   tail, historyVars>>

\* fviz_executor_collect_waiters appends the detached chain to the collected
\* one and counts the future; CollectTail finds the new end of it.
Collect(e) ==
    /\ pc[e] = "collect"
    /\ stats' = [stats EXCEPT ![e] = Counted(@, "CANCELLED")]
    /\ detached' = [detached EXCEPT ![e] = None]
    /\ IF detached[e] = None
       THEN UNCHANGED <<waiterNext, chain, tail>> /\ Goto(e, "next")
       ELSE /\ IF tail[e] # None
               THEN /\ waiterNext' = [waiterNext EXCEPT ![tail[e]] = detached[e]]
                    /\ chain' = chain
               ELSE /\ chain' = [chain EXCEPT ![e] = detached[e]]
                    /\ waiterNext' = waiterNext
            /\ tail' = [tail EXCEPT ![e] = detached[e]]
            /\ Goto(e, "advance")
    /\ UNCHANGED <<futureVars, waitingHead, phase, held, heap, parked, pending,
                   cur, res, historyVars>>

CollectTail(e) ==
    /\ pc[e] = "advance"
    /\ IF waiterNext[tail[e]] = None THEN Goto(e, "next") /\ tail' = tail
       ELSE tail' = [tail EXCEPT ![e] = waiterNext[tail[e]]] /\ pc' = pc
    /\ UNCHANGED <<futureVars, linkVars, executorVars, cur, res, detached,
                   chain, historyVars>>

\* The registry is empty: promote what was collected ...
WalkEnd(e) ==
    /\ phase[e] = "walk" /\ pc[e] = "next" /\ parked[e] = <<>>
    /\ phase' = [phase EXCEPT ![e] = "settle"]
    /\ held' = [held EXCEPT ![e] = FALSE]
    /\ Goto(e, "promote")
    /\ UNCHANGED <<futureVars, linkVars, heap, parked, pending, stats, cur, res,
                   detached, chain, tail, historyVars>>

\* ... and free the executor.
DestroyEnd(e) ==
    /\ pc[e] = "promote" /\ chain[e] = None
    /\ phase' = [phase EXCEPT ![e] = "freed"]
    /\ tail' = [tail EXCEPT ![e] = None]
    /\ Goto(e, "done")
    /\ UNCHANGED <<futureVars, linkVars, held, heap, parked, pending, stats,
                   cur, res, detached, chain, historyVars>>

-----------------------------------------------------------------------------
Shared(t) ==
    \/ Release(t) \/ DestructorCancels(t) \/ DestructorFrees(t)
    \/ Complete(t) \/ Wake(t) \/ PromoteNext(t) \/ PromotePush(t)

Worker(w) ==
    \/ Pop(w) \/ Wait(w) \/ Check(w) \/ ReadAntecedent(w) \/ Run(w)
    \/ Publish(w) \/ PromoteEnd(w) \/ Shared(w)

\* fviz_executor_destroy, once the program has called it.
Destroyer(e) ==
    \/ DrainNext(e) \/ DrainEnd(e) \/ Join(e) \/ WalkNext(e) \/ WalkEnd(e)
    \/ Disposed(e) \/ Collect(e) \/ CollectTail(e) \/ DestroyEnd(e) \/ Shared(e)

Program ==
    \/ \E f \in Futures, e \in Executors, d \in FutureOrNone :
         Accept(f, e, d) \/ Reject(f, e, d)
    \/ \E f \in Futures : Cancel(f) \/ TakeValue(f) \/ BeginFree(f) \/ EndFree(f)
    \/ \E e \in Executors : DestroyBegin(e)

Next ==
    \/ Program
    \/ \E w \in Workers : Worker(w)
    \/ \E e \in Executors : Destroyer(e)

Spec == Init /\ [][Next]_vars

\* The threads are scheduled fairly and task functions return; a call of
\* fviz_future_destroy that can proceed does.  The program need not do anything.
Fairness ==
    /\ \A w \in Workers : WF_vars(Worker(w))
    /\ \A e \in Executors : WF_vars(Destroyer(e))
    /\ \A f \in Futures : WF_vars(EndFree(f))

FairSpec == Spec /\ Fairness

-----------------------------------------------------------------------------
(* Invariants *)

Phases == {"open", "drain", "join", "walk", "settle", "freed"}
Pcs == CurrentPcs \cup {"idle", "asleep", "exited", "complete", "wake",
                        "promote", "push", "next", "collect", "advance", "done"}

\* The type of every variable.
TypeOK ==
    /\ alloc \in [Futures -> {"unused", "live", "closing", "freed"}]
    /\ home \in [Futures -> Executors \cup {None}]
    /\ dep \in [Futures -> FutureOrNone]
    /\ holds \in [Futures -> BOOLEAN]
    /\ dependents \in [Futures -> Nat]
    /\ ready \in [Futures -> BOOLEAN]
    /\ result \in [Futures -> Results \cup {"BUSY"}]
    /\ value \in [Futures -> {"none", "held", "taken", "destroyed"}]
    /\ cancelled \in [Futures -> BOOLEAN]
    /\ sequence \in [Futures -> Nat]
    /\ waitingHead \in [Futures -> FutureOrNone]
    /\ waiterNext \in [Futures -> FutureOrNone]
    /\ phase \in [Executors -> Phases]
    /\ held \in [Executors -> BOOLEAN]
    /\ heap \in [Executors -> SUBSET Futures]
    /\ parked \in [Executors -> Seq(Futures)]
    /\ pending \in [Executors -> Nat]
    /\ stats \in [Executors -> [submitted : Nat, completed : Nat, cancelled : Nat,
                                failed : Nat, running : Int]]
    /\ pc \in [Threads -> Pcs]
    /\ cur \in [Threads -> FutureOrNone]
    /\ res \in [Threads -> Results \cup {"BUSY"}]
    /\ detached \in [Threads -> FutureOrNone]
    /\ chain \in [Threads -> FutureOrNone]
    /\ tail \in [Executors -> FutureOrNone]
    /\ heard \in [Futures -> Results \cup {"BUSY"}]
    /\ runs \in [Futures -> Nat]
    /\ disposals \in [Futures -> Nat]

\* A thread has f in hand from taking it to completing it.
HandPcs == CurrentPcs \cup {"complete"}
InHand(t, f) == cur[t] = f /\ pc[t] \in HandPcs
Unfinished(f) == alloc[f] # "unused" /\ ~ready[f]
IndicesOf(e, f) == {i \in DOMAIN parked[e] : parked[e][i] = f}

\* Every accepted future that is not complete is in exactly one place: the
\* ready heap or the registry of its executor, or the hands of one thread; a
\* complete one is in none.  So no future is lost between the queues and none
\* is scheduled twice, in whatever order submission, completion of the
\* antecedent, promotion and the two phases of shutdown interleave.
OnePlace ==
    \A f \in Futures :
        Cardinality({e \in Executors : f \in heap[e]})
        + Cardinality(UNION {{e} \X IndicesOf(e, f) : e \in Executors})
        + Cardinality({t \in Threads : InHand(t, f)})
        = IF Unfinished(f) THEN 1 ELSE 0

\* The task function of a future is called at most once, and its user data is
\* destroyed exactly once, before the future is ready, on every path: normal
\* completion, cancellation, drained heap and abandoned registry.
OnceOnly ==
    \A f \in Futures :
        /\ runs[f] <= 1
        /\ disposals[f] <= 1
        /\ ready[f] => disposals[f] = 1

\* Every future is in one place, runs at most once and is disposed of once: what
\* submission, promotion, completion and shutdown hand to one another.
ScheduledOnce == TypeOK /\ OnePlace /\ OnceOnly

\* dependent_count is the number of futures that still point to the future,
\* so fviz_future_destroy cannot free an antecedent that is still needed.
DependentsCounted ==
    \A d \in Futures :
        dependents[d] = Cardinality({f \in Futures : holds[f] /\ dep[f] = d})

\* S is closed under waiter_next.
Linked(S) == \A h \in S : waiterNext[h] \in S \cup {None}
\* The futures reachable from f along waiter_next, none from None.
ChainFrom(f) ==
    {g \in Futures : \A S \in SUBSET Futures : f \in S \cup {None} /\ Linked(S) => g \in S}

\* What a thread still has to promote.
Undelivered(t) == ChainFrom(detached[t]) \cup ChainFrom(chain[t])
                  \cup (IF pc[t] = "push" THEN {cur[t]} ELSE {})

\* A parked future can be found by whoever must wake it: through the waiter
\* chain of its antecedent while that is incomplete, in the chain of a thread
\* that is promoting afterwards, or by the shutdown of its own executor.  No
\* future stays parked because the antecedent completed at the wrong moment.
ParkedReachable ==
    \A e \in Executors : \A i \in DOMAIN parked[e] :
        LET f == parked[e][i] IN
        \/ Stopping(e)
        \/ f \in ChainFrom(waitingHead[dep[f]])
        \/ \E t \in Threads : f \in Undelivered(t)

\* pending_count is what waits in the heap and the registry, so the capacity
\* check of a submission also bounds the heap array, into which promotion
\* pushes without a check.
HeapFits ==
    \A e \in Executors :
        /\ pending[e] <= Capacity
        /\ Cardinality(heap[e]) + Len(parked[e]) <= pending[e]
        /\ phase[e] = "open" => Cardinality(heap[e]) + Len(parked[e]) = pending[e]

\* What fviz_executor_get_statistics returns adds up at every moment: nothing
\* is between the counters while the mutex is free, and after shutdown every
\* submitted future has been completed.
StatisticsBalance ==
    \A e \in Executors :
        LET s == stats[e] IN
        /\ phase[e] = "open" => s.submitted = s.completed + pending[e] + s.running
        /\ phase[e] = "freed" => s.submitted = s.completed /\ s.running = 0

\* The counters under the mutex are exact whenever it is free: those that bound the
\* heap and those that the statistics return.
CountersExact == HeapFits /\ StatisticsBalance

\* No worker waits on work_condition while there is more in the heap than
\* workers about to look into it: waking one worker per push loses no wake-up.
WorkConserving ==
    \A e \in Executors :
        Sleepers(e) # {} =>
            Cardinality(heap[e])
              <= Cardinality({w \in Workers : Home[w] = e /\ pc[w] = "idle"})

\* A continuation never reads the result of a freed antecedent.  Promotion and
\* collection, which hold no future's mutex, only follow links of
\* futures that are allocated and only lock executors that are.
LinksAlive ==
    /\ \A f \in Futures : holds[f] => alloc[dep[f]] # "freed"
    /\ \A t \in Threads : pc[t] = "promote" /\ chain[t] # None => alloc[chain[t]] # "freed"
    /\ \A t \in Threads : pc[t] = "push" =>
          alloc[cur[t]] # "freed" /\ phase[home[cur[t]]] # "freed"
    /\ \A e \in Executors : pc[e] = "collect" /\ detached[e] # None /\ tail[e] # None
                              => alloc[tail[e]] # "freed"

\* "a waiter thread may destroy the completed future as soon as it observes
\* ready": nothing of a future is read after it was completed and freed.
CompletedUntouched ==
    \A t \in Threads : pc[t] = "wake" => alloc[cur[t]] # "freed"

-----------------------------------------------------------------------------
(* Liveness *)

\* Every accepted future becomes ready, if tasks return: queued, parked,
\* cancelled or caught by a shutdown.
EveryFutureCompletes == \A f \in Futures : alloc[f] # "unused" ~> ready[f]

\* fviz_executor_destroy returns.
ShutdownEnds == \A e \in Executors : Stopping(e) ~> phase[e] = "freed"

\* fviz_future_destroy returns.
FreeEnds == \A f \in Futures : alloc[f] = "closing" ~> alloc[f] = "freed"

-----------------------------------------------------------------------------
(* The executors implement the graph of futures *)

\* What the program can tell about future f.
StatusOf(f) ==
    CASE alloc[f] = "unused" -> "none"
      [] alloc[f] = "freed" -> "gone"
      [] ready[f] /\ alloc[f] # "freed" -> "done"
      [] Unfinished(f) /\ alloc[f] # "freed" /\ (runs[f] # 0 \/ heard[f] # "BUSY")
           -> "running"
      [] Unfinished(f) /\ alloc[f] # "freed" /\ runs[f] = 0 /\ heard[f] = "BUSY"
           -> IF dep[f] # None /\ ~holds[f] THEN "skipped" ELSE "waiting"

Graph == INSTANCE FutureGraph WITH
    status <- [f \in Futures |-> StatusOf(f)],
    parent <- dep,
    outcome <- result

\* Every behaviour of the executors is one of the graph: whatever the order in
\* which a submission, the completion of the antecedent, the promotion of its
\* waiters, cancellation, shutdown and the freeing of futures interleave, a
\* continuation runs once, after its antecedent, with its final result, and the
\* antecedent is not freed before.
ImplementsGraph == Graph!Spec
=============================================================================
