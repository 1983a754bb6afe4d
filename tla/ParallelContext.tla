--------------------------- MODULE ParallelContext ---------------------------
(***************************************************************************)
(* A parallel context of src/Parallel/FVizParallel.c: the worker threads   *)
(* of its pool, the program threads that dispatch ranges on it, and its    *)
(* shutdown.                                                               *)
(*                                                                         *)
(* state_mutex is only held for sections that do not block, so each such   *)
(* section is one step.  dispatch_mutex is a variable.  A range is a       *)
(* number of chunks, chunk i standing for the half-open interval the grain *)
(* size gives it.                                                          *)
(***************************************************************************)
EXTENDS Integers, FiniteSets

CONSTANTS
    WorkerCount,    \* worker threads, of index 0 .. WorkerCount - 1
    Callers,        \* program threads that dispatch
    Owner,          \* the thread that destroys the context
    ChunkCounts,    \* the task_counts of the ranges they dispatch
    MaxDispatches,  \* bound: dispatches the program makes
    Modulus,        \* remaining is an unsigned counter modulo this
    None

Workers == 0 .. WorkerCount - 1
Threads == Workers \cup Callers
NoChunk == -1

ASSUME ConstantsAssumption ==
    /\ WorkerCount \in Nat
    /\ ChunkCounts \subseteq Nat
    /\ MaxDispatches \in Nat
    /\ Modulus \in Nat /\ Modulus > WorkerCount + 1
    /\ None \notin Callers \cup {Owner}
    /\ Owner \notin Callers \cup Int
    /\ Callers \cap Int = {}

VARIABLES
    (* struct FVizParallelContext *)
    dispatchLock,   \* holder of dispatch_mutex
    generation, participating, remaining, next, end,
    failure,        \* first_failure # FVIZ_OK
    failureBegin,   \* first_failure_begin
    cancellation,   \* the caller whose token it points to, or None
    job,            \* user_data: the number of the dispatch
    stopping,
    dispatched,     \* dispatch_count
    (* threads *)
    pc,
    observed,       \* observed_generation of a worker
    begin,          \* the chunk a thread works on
    working,        \* the job whose callback the thread is in, or 0
    chunks,         \* the range a caller dispatches
    token,          \* is the caller's cancellation token cancelled?
    (* history of the current dispatch *)
    calls,          \* how often each chunk was given to the callback
    failed          \* the chunks whose callback failed

contextVars == <<generation, participating, remaining, next, end, failure,
                 failureBegin, cancellation, job, stopping, dispatched>>
callerVars == <<chunks, token>>
historyVars == <<calls, failed>>
vars == <<dispatchLock, contextVars, pc, observed, begin, working, callerVars,
          historyVars>>

MaxChunk == CHOOSE n \in ChunkCounts : \A m \in ChunkCounts : m <= n
Chunks == 0 .. MaxChunk - 1

Init ==
    /\ dispatchLock = None
    /\ generation = 0 /\ participating = 0 /\ remaining = 0
    /\ next = 0 /\ end = 0
    /\ failure = FALSE /\ failureBegin = NoChunk
    /\ cancellation = None /\ job = 0 /\ stopping = FALSE
    /\ dispatched = 0
    /\ pc = [t \in Threads \cup {Owner} |->
               IF t \in Workers THEN "wait" ELSE "out"]
    /\ observed = [w \in Workers |-> 0]
    /\ begin = [t \in Threads |-> NoChunk]
    /\ working = [t \in Threads |-> 0]
    /\ chunks = [c \in Callers |-> 0]
    /\ token = [c \in Callers |-> FALSE]
    /\ calls = [i \in Chunks |-> 0]
    /\ failed = {}

Goto(t, label) == pc' = [pc EXCEPT ![t] = label]

BroadcastForgotten(t, label) == Goto(t, label)
\* fviz_parallel_broadcast_work, then the caller goes to label.
BroadcastAnd(t, label) ==
    pc' = [u \in DOMAIN pc |-> IF u = t THEN label
                               ELSE IF pc[u] = "asleep" THEN "wait" ELSE pc[u]]

-----------------------------------------------------------------------------
(* fviz_parallel_dispatch *)

\* Threads a range of n chunks is worth: fviz_parallel_dispatch takes part.
ThreadCount(n) == IF n < WorkerCount + 1 THEN n ELSE WorkerCount + 1

ParticipantsWithCaller(n) == ThreadCount(n)
\* The caller is one of them.
Participants(n) == ThreadCount(n) - 1

\* The program dispatches a range of n chunks on the pool.  A dispatch that is
\* cancelled before it starts, is empty, is worth one thread or comes from
\* inside a callback runs in its caller or not at all: it touches nothing here.
Call(c, n) ==
    /\ pc[c] = "out" /\ pc[Owner] = "out" /\ dispatched < MaxDispatches
    /\ ThreadCount(n) > 1
    /\ chunks' = [chunks EXCEPT ![c] = n]
    /\ Goto(c, "lock")
    /\ UNCHANGED <<dispatchLock, contextVars, observed, begin, working, token,
                   historyVars>>

\* The holder of the token cancels it during the dispatch.
CancelToken(c) ==
    /\ pc[c] # "out" /\ ~token[c]
    /\ token' = [token EXCEPT ![c] = TRUE]
    /\ UNCHANGED <<dispatchLock, contextVars, pc, observed, begin, working,
                   chunks, historyVars>>

\* Take dispatch_mutex and describe the range, outside state_mutex.
Describe(c) ==
    /\ pc[c] = "lock" /\ dispatchLock = None
    /\ dispatchLock' = c
    /\ job' = job + 1
    /\ cancellation' = c
    /\ end' = chunks[c]
    /\ failure' = FALSE /\ failureBegin' = NoChunk
    /\ next' = 0
    /\ calls' = [i \in Chunks |-> 0] /\ failed' = {}
    /\ Goto(c, "participants")
    /\ UNCHANGED <<generation, participating, remaining, stopping, dispatched,
                   observed, begin, working, callerVars>>

\* Still outside state_mutex: who takes part ...
SetParticipants(c) ==
    /\ pc[c] = "participants"
    /\ participating' = Participants(chunks[c])
    /\ Goto(c, "remaining")
    /\ UNCHANGED <<dispatchLock, generation, remaining, next, end, failure,
                   failureBegin, cancellation, job, stopping, dispatched, observed,
                   begin, working, callerVars, historyVars>>

\* ... and how many have to finish.
SetRemaining(c) ==
    /\ pc[c] = "remaining"
    /\ remaining' = participating
    /\ dispatched' = dispatched + 1
    /\ Goto(c, "announce")
    /\ UNCHANGED <<dispatchLock, generation, participating, next, end, failure,
                   failureBegin, cancellation, job, stopping, observed, begin,
                   working, callerVars, historyVars>>

\* Under state_mutex: a new generation, and the workers are woken.
Announce(c) ==
    /\ pc[c] = "announce"
    /\ generation' = generation + 1
    /\ BroadcastAnd(c, "loop")
    /\ UNCHANGED <<dispatchLock, participating, remaining, next, end, failure,
                   failureBegin, cancellation, job, stopping, dispatched, observed,
                   begin, working, callerVars, historyVars>>

\* The caller has run out of chunks: wait on done_condition.
AwaitDone(c) ==
    /\ pc[c] = "await" /\ remaining # 0
    /\ Goto(c, "doneWait")
    /\ UNCHANGED <<dispatchLock, contextVars, observed, begin, working,
                   callerVars, historyVars>>

NotAwaited == TRUE
AllFinished == remaining = 0

\* What the dispatch of c returns.
Answer(c) ==
    IF failure THEN "FAILED" ELSE IF token[c] THEN "CANCELLED" ELSE "OK"

\* All participants have finished: return Answer(c).  The token of the next
\* dispatch is another one.
Return(c) ==
    /\ pc[c] = "await" /\ AllFinished
    /\ cancellation' = None
    /\ token' = [token EXCEPT ![c] = FALSE]
    /\ dispatchLock' = None
    /\ Goto(c, "out")
    /\ UNCHANGED <<generation, participating, remaining, next, end, failure,
                   failureBegin, job, stopping, dispatched, observed, begin,
                   working, chunks, historyVars>>

-----------------------------------------------------------------------------
(* fviz_parallel_execute_chunks, run by workers and by the caller *)

AfterChunksUnfinished(t) == IF t \in Workers THEN "wait" ELSE "await"
AfterChunks(t) == IF t \in Workers THEN "finish" ELSE "await"

CancelledByFailure == failure \/ (cancellation # None /\ token[cancellation])
Cancelled == cancellation # None /\ token[cancellation]

\* No new chunk begins once the token is seen.
CheckToken(t) ==
    /\ pc[t] = "loop"
    /\ Goto(t, IF Cancelled THEN AfterChunks(t) ELSE "claim")
    /\ UNCHANGED <<dispatchLock, contextVars, observed, begin, working,
                   callerVars, historyVars>>

\* Atomic fetch-and-add of next; inside the range, the callback starts.
Claim(t) ==
    /\ pc[t] = "claim"
    /\ next' = next + 1
    /\ IF next >= end
       THEN /\ Goto(t, AfterChunks(t))
            /\ UNCHANGED <<begin, working, calls>>
       ELSE /\ Goto(t, "call")
            /\ begin' = [begin EXCEPT ![t] = next]
            /\ working' = [working EXCEPT ![t] = job]
            /\ calls' = [calls EXCEPT ![next] = @ + 1]
    /\ UNCHANGED <<dispatchLock, generation, participating, remaining, end,
                   failure, failureBegin, cancellation, job, stopping,
                   dispatched, observed, callerVars, failed>>

\* The callback returns, successfully ...
Succeed(t) ==
    /\ pc[t] = "call"
    /\ working' = [working EXCEPT ![t] = 0]
    /\ begin' = [begin EXCEPT ![t] = NoChunk]
    /\ Goto(t, "loop")
    /\ UNCHANGED <<dispatchLock, contextVars, observed, callerVars, historyVars>>

\* ... or not.
Fail(t) ==
    /\ pc[t] = "call"
    /\ working' = [working EXCEPT ![t] = 0]
    /\ failed' = failed \cup {begin[t]}
    /\ Goto(t, "capture")
    /\ UNCHANGED <<dispatchLock, contextVars, observed, begin, callerVars, calls>>

CapturesFirst(b) == ~failure
\* fviz_parallel_capture_failure keeps the failure of the lowest chunk.
Captures(b) == ~failure \/ b < failureBegin

Capture(t) ==
    /\ pc[t] = "capture"
    /\ IF Captures(begin[t])
       THEN failure' = TRUE /\ failureBegin' = begin[t]
       ELSE UNCHANGED <<failure, failureBegin>>
    /\ begin' = [begin EXCEPT ![t] = NoChunk]
    /\ Goto(t, "loop")
    /\ UNCHANGED <<dispatchLock, generation, participating, remaining, next, end,
                   cancellation, job, stopping, dispatched, observed, working,
                   callerVars, historyVars>>

-----------------------------------------------------------------------------
(* fviz_parallel_worker_entry *)

\* Under state_mutex, nothing new: wait on work_condition.
Sleep(w) ==
    /\ pc[w] = "wait" /\ observed[w] = generation /\ ~stopping
    /\ Goto(w, "asleep")
    /\ UNCHANGED <<dispatchLock, contextVars, observed, begin, working,
                   callerVars, historyVars>>

\* Under state_mutex, a new generation: take part in it or not.
Join(w) ==
    /\ pc[w] = "wait" /\ observed[w] # generation /\ ~stopping
    /\ observed' = [observed EXCEPT ![w] = generation]
    /\ Goto(w, IF w < participating THEN "loop" ELSE "wait")
    /\ UNCHANGED <<dispatchLock, contextVars, begin, working, callerVars,
                   historyVars>>

\* Under state_mutex, stopping: leave.
Exit(w) ==
    /\ pc[w] = "wait" /\ stopping
    /\ Goto(w, "exited")
    /\ UNCHANGED <<dispatchLock, contextVars, observed, begin, working,
                   callerVars, historyVars>>

\* fetch_sub returned one.
Last == remaining = 1

\* The participant that brings remaining to zero signals done_condition.
Finish(w) ==
    /\ pc[w] = "finish"
    /\ remaining' = (remaining + Modulus - 1) % Modulus
    /\ Goto(w, IF Last THEN "signal" ELSE "wait")
    /\ UNCHANGED <<dispatchLock, generation, participating, next, end, failure,
                   failureBegin, cancellation, job, stopping, dispatched, observed,
                   begin, working, callerVars, historyVars>>

DoneForgotten(w) == [pc EXCEPT ![w] = "wait"]
\* The caller, which alone may wait there, is woken.
DoneSignalled(w) ==
    [t \in DOMAIN pc |-> IF t = w THEN "wait"
                         ELSE IF pc[t] = "doneWait" THEN "await" ELSE pc[t]]

\* fviz_parallel_signal_done, under state_mutex.
SignalDone(w) ==
    /\ pc[w] = "signal"
    /\ pc' = DoneSignalled(w)
    /\ UNCHANGED <<dispatchLock, contextVars, observed, begin, working,
                   callerVars, historyVars>>

-----------------------------------------------------------------------------
(* fviz_parallel_context_shutdown, called when no new dispatch is made *)

\* Wait for the active dispatch, then stop.
ShutdownLock ==
    /\ pc[Owner] = "out" /\ dispatchLock = None
    /\ \A c \in Callers : pc[c] # "lock"
    /\ dispatchLock' = Owner
    /\ stopping' = TRUE
    /\ Goto(Owner, "broadcast")
    /\ UNCHANGED <<generation, participating, remaining, next, end, failure,
                   failureBegin, cancellation, job, dispatched, observed, begin,
                   working, callerVars, historyVars>>

ShutdownBroadcast ==
    /\ pc[Owner] = "broadcast"
    /\ generation' = generation + 1
    /\ BroadcastAnd(Owner, "join")
    /\ UNCHANGED <<dispatchLock, participating, remaining, next, end, failure,
                   failureBegin, cancellation, job, stopping, dispatched, observed,
                   begin, working, callerVars, historyVars>>

ShutdownJoin ==
    /\ pc[Owner] = "join" /\ \A w \in Workers : pc[w] = "exited"
    /\ dispatchLock' = None
    /\ Goto(Owner, "freed")
    /\ UNCHANGED <<contextVars, observed, begin, working, callerVars, historyVars>>

-----------------------------------------------------------------------------
Execute(t) == CheckToken(t) \/ Claim(t) \/ Succeed(t) \/ Fail(t) \/ Capture(t)

Worker(w) ==
    Sleep(w) \/ Join(w) \/ Exit(w) \/ Execute(w) \/ Finish(w) \/ SignalDone(w)

\* What a caller does between calling and returning.
Caller(c) ==
    \/ Describe(c) \/ SetParticipants(c) \/ SetRemaining(c) \/ Announce(c)
    \/ Execute(c) \/ AwaitDone(c) \/ Return(c)

Shutdown == ShutdownBroadcast \/ ShutdownJoin

Next ==
    \/ \E c \in Callers, n \in ChunkCounts : Call(c, n)
    \/ \E c \in Callers : CancelToken(c) \/ Caller(c)
    \/ \E w \in Workers : Worker(w)
    \/ ShutdownLock \/ Shutdown

Spec == Init /\ [][Next]_vars

\* The threads are scheduled fairly and callbacks return.  A caller that waits
\* for dispatch_mutex gets it when no other one takes it any more, which
\* MaxDispatches guarantees: nothing is assumed of the mutex.
FairSpec ==
    /\ Spec
    /\ \A w \in Workers : WF_vars(Worker(w))
    /\ \A c \in Callers : WF_vars(Caller(c))
    /\ WF_vars(Shutdown)

-----------------------------------------------------------------------------
ExecutePcs == {"loop", "claim", "call", "capture"}
Pcs == ExecutePcs \cup {"out", "lock", "participants", "remaining", "announce",
        "await", "doneWait", "wait", "asleep", "finish", "signal", "exited",
        "broadcast", "join", "freed"}

\* The type of every variable.
TypeOK ==
    /\ dispatchLock \in Callers \cup {Owner, None}
    /\ generation \in Nat /\ participating \in 0 .. WorkerCount
    /\ remaining \in 0 .. Modulus - 1
    /\ next \in Nat /\ end \in Nat
    /\ failure \in BOOLEAN /\ failureBegin \in Int
    /\ cancellation \in Callers \cup {None}
    /\ job \in Nat /\ stopping \in BOOLEAN /\ dispatched \in Nat
    /\ pc \in [Threads \cup {Owner} -> Pcs]
    /\ observed \in [Workers -> Nat]
    /\ begin \in [Threads -> Int]
    /\ working \in [Threads -> Nat]
    /\ chunks \in [Callers -> ChunkCounts \cup {0}]
    /\ token \in [Callers -> BOOLEAN]
    /\ calls \in [Chunks -> Nat]
    /\ failed \subseteq Int

\* The range of caller c has been announced and c has not returned.
InProgress(c) == pc[c] \in ExecutePcs \cup {"await", "doneWait"}

\* Participants that have not yet taken themselves off remaining.
Outstanding ==
    {w \in Workers : \/ w < participating /\ observed[w] # generation
                     \/ pc[w] \in ExecutePcs \cup {"finish"}}

\* remaining counts exactly the participants of the announced dispatch that are
\* still to finish, so the caller neither returns before one of them is done
\* nor waits for one that never joins.
RemainingCounts ==
    \A c \in Callers : InProgress(c) => remaining = Cardinality(Outstanding)

\* "A context serializes its own dispatches": the callback of a dispatch runs
\* only before that dispatch returns, so no worker still uses the user
\* data of a dispatch that has returned.
DispatchesSerialized ==
    \A t \in Threads : working[t] # 0 =>
        working[t] = job /\ dispatchLock \in Callers

\* The caller c is about to return Answer(c).
Done(c) == pc[c] = "await" /\ remaining = 0

\* Each chunk of the range is given to the callback at most once, and a dispatch
\* that returns FVIZ_OK has given it every chunk and none failed; after a
\* failure the chunks that follow are still run.
EveryChunkOnce ==
    /\ \A i \in Chunks : calls[i] <= 1
    /\ \A c \in Callers : Done(c) /\ ~token[c] =>
          /\ \A i \in Chunks : i < chunks[c] => calls[i] = 1
          /\ Answer(c) = "OK" => failed = {}

\* "Worker failures are reported from the lowest failing chunk start,
\* independent of which worker happens to finish first."
LowestFailure ==
    \A c \in Callers : Done(c) /\ failed # {} =>
        /\ Answer(c) = "FAILED"
        /\ failureBegin \in failed /\ \A i \in failed : failureBegin <= i

\* Every dispatch returns.
DispatchReturns == \A c \in Callers : pc[c] = "lock" ~> pc[c] = "out"

\* Destroy waits for the active dispatch, joins every worker and returns.
ShutdownEnds == pc[Owner] = "broadcast" ~> pc[Owner] = "freed"
=============================================================================
