------------------------ MODULE ParallelContextProofs ------------------------
(***************************************************************************)
(* Proofs about ParallelContext: its types and its lock for every program; *)
(* its safety for every number of workers and callers as long as each      *)
(* dispatch that uses the pool uses the whole pool.                        *)
(***************************************************************************)
EXTENDS ParallelContext, FiniteSetTheorems, TLAPS

(* Caller c has described its range, or is describing it. *)
Preparing(c) == pc[c] \in {"participants", "remaining", "announce"}
Holding(c) == Preparing(c) \/ InProgress(c)

(* A caller only waits for the pool with a range worth several threads. *)
WorthIt == \A c \in Callers : pc[c] # "out" => chunks[c] \in ChunkCounts /\ chunks[c] > 1

TypeInv == TypeOK /\ WorthIt

(* dispatch_mutex is held by the one caller whose range is being worked on, or
   by the owner that shuts the context down when all callers have gone. *)
LockInv ==
    /\ \A c \in Callers : pc[c] \in {"out", "lock"} \/ Holding(c)
    /\ \A c \in Callers : Holding(c) <=> dispatchLock = c
    /\ pc[Owner] \in {"broadcast", "join"} <=> dispatchLock = Owner
    /\ stopping <=> pc[Owner] # "out"
    /\ pc[Owner] # "out" => \A c \in Callers : pc[c] = "out"

(* Each range the callers dispatch is run by its caller alone or by the whole
   pool.  Without this the pool does mix dispatches: see README.md. *)
FullPool == \A n \in ChunkCounts : n <= 1 \/ n > WorkerCount

(* Worker w executes chunks or is about to leave remaining. *)
Busy(w) == pc[w] \in ExecutePcs \cup {"finish"}

(* Each worker either takes part in the announced dispatch or has seen its
   generation; when none is announced, all have seen the last one. *)
PoolInv ==
    /\ \A c \in Callers : pc[c] \in {"remaining", "announce"} \/ InProgress(c) =>
          participating = WorkerCount
    /\ \A c \in Callers : pc[c] = "announce" => remaining = WorkerCount
    /\ RemainingCounts
    /\ \A w \in Workers : Busy(w) =>
          observed[w] = generation /\ \E c \in Callers : InProgress(c)
    /\ stopping \/ (\E c \in Callers : InProgress(c)) \/
          \A w \in Workers : observed[w] = generation

(* Callbacks belong to the dispatch that is in progress; those that failed
   are captured, or about to be. *)
JobInv ==
    /\ \A t \in Threads : working[t] # 0 => pc[t] = "call" /\ working[t] = job
    /\ \A t \in Threads : pc[t] = "capture" => begin[t] \in failed
    /\ failure => failureBegin \in failed
    /\ \A i \in failed :
          \/ failure /\ failureBegin <= i
          \/ \E t \in Threads : pc[t] = "capture" /\ begin[t] = i

(* The chunks below next have been given out; an exhausted thread has seen the
   end of the range or the cancelled token. *)
ChunkInv ==
    /\ \A i \in Chunks : calls[i] = IF i < next /\ i < end THEN 1 ELSE 0
    /\ \A c \in Callers : Holding(c) => end = chunks[c] /\ cancellation = c
    /\ \A c \in Callers : pc[c] \in {"await", "doneWait"} => token[c] \/ next >= end

IInv == TypeInv /\ LockInv /\ PoolInv /\ JobInv /\ ChunkInv

LEMMA Distinct == 
    /\ Workers \cap Callers = {}
    /\ Owner \notin Workers /\ Owner \notin Callers /\ None \notin Callers
    /\ Workers \subseteq Threads /\ Callers \subseteq Threads
BY ConstantsAssumption DEF ConstantsAssumption, Workers, Threads

\* Taking part in a dispatch: from 1 to WorkerCount workers.
LEMMA ParticipantsBound ==
    ASSUME NEW n \in Nat, n > 1
    PROVE  Participants(n) \in 0 .. WorkerCount
BY ConstantsAssumption DEF ConstantsAssumption, Participants, ThreadCount

\* The initial state is well typed.
LEMMA TypeInit == Init => TypeInv
<1> SUFFICES ASSUME Init PROVE TypeInv
  OBVIOUS
<1> USE ConstantsAssumption, Distinct DEF ConstantsAssumption, Init, NoChunk
<1>1. failure \in BOOLEAN /\ stopping \in BOOLEAN /\ token \in [Callers -> BOOLEAN]
  OBVIOUS
<1>2. pc \in [Threads \cup {Owner} -> Pcs]
  BY DEF Pcs, ExecutePcs
<1>3. /\ dispatchLock \in Callers \cup {Owner, None} /\ generation \in Nat
      /\ participating \in 0 .. WorkerCount /\ remaining \in 0 .. Modulus - 1
      /\ next \in Nat /\ end \in Nat /\ failureBegin \in Int
      /\ cancellation \in Callers \cup {None} /\ job \in Nat /\ dispatched \in Nat
  OBVIOUS
<1>4. /\ observed \in [Workers -> Nat] /\ begin \in [Threads -> Int]
      /\ working \in [Threads -> Nat] /\ chunks \in [Callers -> ChunkCounts \cup {0}]
      /\ calls \in [Chunks -> Nat] /\ failed \subseteq Int
  OBVIOUS
<1>5. WorthIt
  BY DEF WorthIt, Threads
<1> QED BY <1>1, <1>2, <1>3, <1>4, <1>5 DEF TypeInv, TypeOK

\* The steps of fviz_parallel_execute_chunks, for workers and callers.
LEMMA TypeExecute ==
    ASSUME TypeInv, NEW t \in Threads, Execute(t)
    PROVE  TypeInv'
<1> USE ConstantsAssumption, Distinct DEF ConstantsAssumption, TypeInv, WorthIt, Pcs, ExecutePcs, contextVars, callerVars, historyVars, Goto, NoChunk
<1>1. CASE CheckToken(t)
  BY <1>1 DEF CheckToken, TypeOK, AfterChunks
<1>2. CASE Claim(t)
  BY <1>2 DEF Claim, TypeOK, AfterChunks
<1>3. CASE Succeed(t)
  BY <1>3 DEF Succeed, TypeOK
<1>4. CASE Fail(t)
  BY <1>4 DEF Fail, TypeOK
<1>5. CASE Capture(t)
  <2>1. failure' \in BOOLEAN
    BY <1>5 DEF Capture, TypeOK
  <2>2. failureBegin' \in Int
    BY <1>5 DEF Capture, TypeOK
  <2>3. pc' \in [Threads \cup {Owner} -> Pcs] /\ begin' \in [Threads -> Int]
    BY <1>5 DEF Capture, TypeOK
  <2>4. WorthIt'
    BY <1>5 DEF Capture, TypeOK
  <2>5. UNCHANGED <<dispatchLock, generation, participating, remaining, next, end,
                    cancellation, job, stopping, dispatched, observed, working,
                    chunks, token, calls, failed>>
    BY <1>5 DEF Capture
  <2> QED BY <2>1, <2>2, <2>3, <2>4, <2>5 DEF TypeOK
<1> QED BY <1>1, <1>2, <1>3, <1>4, <1>5 DEF Execute

\* The steps of fviz_parallel_dispatch around it.
LEMMA TypeCaller ==
    ASSUME TypeInv, NEW c \in Callers,
           Caller(c) \/ CancelToken(c) \/ \E n \in ChunkCounts : Call(c, n)
    PROVE  TypeInv'
<1> USE ConstantsAssumption, Distinct
    DEF ConstantsAssumption, TypeInv, WorthIt, Pcs, ExecutePcs, contextVars, callerVars,
        historyVars, Goto, NoChunk
<1>1. CASE Describe(c)
  <2>0. chunks[c] \in Nat
    BY <1>1 DEF Describe
  <2>1. end' \in Nat /\ next' \in Nat /\ job' \in Nat /\ failureBegin' \in Int
    BY <1>1, <2>0 DEF Describe, TypeOK
  <2>2. calls' \in [Chunks -> Nat] /\ failed' \subseteq Int
    BY <1>1 DEF Describe
  <2>3. failure' \in BOOLEAN
    BY <1>1 DEF Describe
  <2>4. WorthIt' /\ pc' \in [Threads \cup {Owner} -> Pcs]
    BY <1>1 DEF Describe, TypeOK
  <2> QED BY <1>1, <2>1, <2>2, <2>3, <2>4 DEF Describe, TypeOK
<1>2. CASE SetParticipants(c)
  <2>1. chunks[c] \in Nat /\ chunks[c] > 1
    BY <1>2 DEF SetParticipants
  <2>2. participating' \in 0 .. WorkerCount
    BY <1>2, <2>1, ParticipantsBound DEF SetParticipants
  <2> QED BY <1>2, <2>2 DEF SetParticipants, TypeOK
<1>3. CASE SetRemaining(c)
  BY <1>3 DEF SetRemaining, TypeOK
<1>4. CASE Announce(c)
  BY <1>4 DEF Announce, BroadcastAnd, TypeOK
<1>5. CASE Execute(c)
  BY <1>5, TypeExecute
<1>6. CASE AwaitDone(c)
  BY <1>6 DEF AwaitDone, TypeOK
<1>7. CASE Return(c)
  BY <1>7 DEF Return, TypeOK
<1>8. CASE CancelToken(c)
  BY <1>8 DEF CancelToken, TypeOK
<1>9. CASE \E n \in ChunkCounts : Call(c, n)
  <2> PICK n \in ChunkCounts : Call(c, n)
    BY <1>9
  <2>1. n \in Nat /\ n > 1
    BY DEF Call, ThreadCount
  <2> QED BY <2>1 DEF Call, TypeOK
<1> QED BY <1>1, <1>2, <1>3, <1>4, <1>5, <1>6, <1>7, <1>8, <1>9 DEF Caller

\* The steps of fviz_parallel_worker_entry.
LEMMA TypeWorker ==
    ASSUME TypeInv, NEW w \in Workers, Worker(w)
    PROVE  TypeInv'
<1> USE ConstantsAssumption, Distinct
    DEF ConstantsAssumption, TypeInv, WorthIt, Pcs, ExecutePcs, contextVars, callerVars,
        historyVars, Goto, NoChunk
<1>1. CASE Sleep(w)
  BY <1>1 DEF Sleep, TypeOK
<1>2. CASE Join(w)
  BY <1>2 DEF Join, TypeOK
<1>3. CASE Exit(w)
  BY <1>3 DEF Exit, TypeOK
<1>4. CASE Execute(w)
  BY <1>4, TypeExecute
<1>5. CASE Finish(w)
  <2>1. remaining' \in 0 .. Modulus - 1
    BY <1>5 DEF Finish, TypeOK
  <2> QED BY <1>5, <2>1 DEF Finish, TypeOK
<1>6. CASE SignalDone(w)
  BY <1>6 DEF SignalDone, DoneSignalled, TypeOK
<1> QED BY <1>1, <1>2, <1>3, <1>4, <1>5, <1>6 DEF Worker

\* The steps of fviz_parallel_context_shutdown.
LEMMA TypeShutdown ==
    ASSUME TypeInv, ShutdownLock \/ Shutdown
    PROVE  TypeInv'
<1> USE ConstantsAssumption, Distinct
    DEF ConstantsAssumption, TypeInv, WorthIt, Pcs, ExecutePcs, contextVars, callerVars,
        historyVars, Goto
<1>1. CASE ShutdownLock
  BY <1>1 DEF ShutdownLock, TypeOK
<1>2. CASE ShutdownBroadcast
  BY <1>2 DEF ShutdownBroadcast, BroadcastAnd, TypeOK
<1>3. CASE ShutdownJoin
  BY <1>3 DEF ShutdownJoin, TypeOK
<1> QED BY <1>1, <1>2, <1>3 DEF Shutdown

\* Every step keeps the types.
LEMMA TypeStep == TypeInv /\ [Next]_vars => TypeInv'
<1> SUFFICES ASSUME TypeInv, [Next]_vars PROVE TypeInv'
  OBVIOUS
<1>1. CASE UNCHANGED vars
  BY <1>1 DEF TypeInv, TypeOK, WorthIt, vars, contextVars, callerVars, historyVars
<1>2. CASE Next
  BY <1>2, TypeCaller, TypeWorker, TypeShutdown DEF Next
<1> QED BY <1>1, <1>2

\* The types hold for every number of workers and callers, of dispatches and
\* of chunks, whatever part of the pool a dispatch uses.
THEOREM TypeCorrect == Spec => []TypeOK
<1>1. TypeInv => TypeOK
  BY DEF TypeInv
<1> QED BY <1>1, TypeInit, TypeStep, PTL DEF Spec

-----------------------------------------------------------------------------
(* dispatch_mutex *)

\* Nobody holds it at first.
LEMMA LockInit == Init => LockInv
BY ConstantsAssumption, Distinct
   DEF ConstantsAssumption, Init, LockInv, Holding, Preparing, InProgress, ExecutePcs, Threads

\* Only taking it, returning and shutting down change who holds it.
LEMMA LockStep ==
    ASSUME TypeInv, LockInv, [Next]_vars
    PROVE  LockInv'
<1> USE ConstantsAssumption, Distinct
    DEF ConstantsAssumption, TypeInv, TypeOK, LockInv, Holding, Preparing, InProgress,
        ExecutePcs, contextVars, callerVars, historyVars, Goto, AfterChunks
<1>1. ASSUME NEW c \in Callers, NEW n \in ChunkCounts, Call(c, n) PROVE LockInv'
  BY <1>1 DEF Call
<1>2. ASSUME NEW c \in Callers, CancelToken(c) PROVE LockInv'
  BY <1>2 DEF CancelToken
<1>3. ASSUME NEW c \in Callers, Caller(c) PROVE LockInv'
  <2>1. CASE Describe(c)
    BY <2>1 DEF Describe
  <2>2. CASE SetParticipants(c)
    BY <2>2 DEF SetParticipants
  <2>3. CASE SetRemaining(c)
    BY <2>3 DEF SetRemaining
  <2>4. CASE Announce(c)
    <3>1. Holding(c) /\ dispatchLock = c /\ pc[Owner] = "out"
      BY <2>4 DEF Announce
    <3>2. pc' = [u \in Threads \cup {Owner} |->
                   IF u = c THEN "loop" ELSE IF pc[u] = "asleep" THEN "wait" ELSE pc[u]]
      BY <2>4 DEF Announce, BroadcastAnd
    <3>3. pc'[Owner] = "out" /\ Holding(c)'
      BY <3>1, <3>2
    <3>4. \A d \in Callers \ {c} : pc'[d] = pc[d]
      BY <3>2
    <3>5. UNCHANGED <<dispatchLock, stopping>>
      BY <2>4 DEF Announce
    <3> QED BY <3>1, <3>3, <3>4, <3>5
  <2>5. CASE Execute(c)
    BY <2>5 DEF Execute, CheckToken, Claim, Succeed, Fail, Capture
  <2>6. CASE AwaitDone(c)
    BY <2>6 DEF AwaitDone
  <2>7. CASE Return(c)
    BY <2>7 DEF Return
  <2> QED BY <1>3, <2>1, <2>2, <2>3, <2>4, <2>5, <2>6, <2>7 DEF Caller
<1>4. ASSUME NEW w \in Workers, Worker(w) PROVE LockInv'
  <2>1. CASE Sleep(w) \/ Join(w) \/ Exit(w)
    BY <2>1 DEF Sleep, Join, Exit
  <2>2. CASE Execute(w)
    BY <2>2 DEF Execute, CheckToken, Claim, Succeed, Fail, Capture
  <2>3. CASE Finish(w)
    BY <2>3 DEF Finish
  <2>4. CASE SignalDone(w)
    BY <2>4 DEF SignalDone, DoneSignalled
  <2> QED BY <1>4, <2>1, <2>2, <2>3, <2>4 DEF Worker
<1>5. CASE ShutdownLock
  BY <1>5 DEF ShutdownLock
<1>6. CASE ShutdownBroadcast
  BY <1>6 DEF ShutdownBroadcast, BroadcastAnd
<1>7. CASE ShutdownJoin
  BY <1>7 DEF ShutdownJoin
<1>8. CASE UNCHANGED vars
  BY <1>8 DEF vars
<1> QED BY <1>1, <1>2, <1>3, <1>4, <1>5, <1>6, <1>7, <1>8 DEF Next, Shutdown

-----------------------------------------------------------------------------
(* The participants of a dispatch, when each one uses the whole pool *)

LEMMA OutstandingFinite ==
    Outstanding \subseteq Workers /\ IsFiniteSet(Outstanding) /\ Cardinality(Outstanding) \in Nat
<1>1. IsFiniteSet(Workers)
  BY ConstantsAssumption, FS_Interval DEF ConstantsAssumption, Workers
<1>2. Outstanding \subseteq Workers
  BY DEF Outstanding
<1> QED BY <1>1, <1>2, FS_Subset, FS_CardinalityType

\* There are WorkerCount workers.
LEMMA WorkersCounted == Cardinality(Workers) = WorkerCount
<1>1. 0 \in Int /\ WorkerCount - 1 \in Int
  BY ConstantsAssumption DEF ConstantsAssumption
<1>2. Cardinality(0 .. WorkerCount - 1) =
        IF 0 > WorkerCount - 1 THEN 0 ELSE (WorkerCount - 1) - 0 + 1
  BY <1>1, FS_Interval
<1> QED BY <1>2, ConstantsAssumption DEF ConstantsAssumption, Workers

\* At most one range is being described or worked on.
LEMMA OneHolder ==
    ASSUME LockInv, NEW c \in Callers, NEW d \in Callers, Holding(c), Holding(d)
    PROVE  c = d
BY DEF LockInv

LEMMA PoolInit == Init => PoolInv
BY ConstantsAssumption, Distinct
   DEF ConstantsAssumption, Init, PoolInv, RemainingCounts, InProgress, Busy, ExecutePcs, Threads

\* A step that leaves the counters alone, and every thread on its side of the
\* dispatch, keeps PoolInv.
LEMMA PoolFrame ==
    ASSUME PoolInv, stopping => stopping',
           UNCHANGED <<generation, participating, remaining, observed>>,
           \A w \in Workers : Busy(w)' <=> Busy(w),
           \A c \in Callers : InProgress(c)' <=> InProgress(c),
           \A c \in Callers : pc'[c] \in {"remaining", "announce"} => pc'[c] = pc[c]
    PROVE  PoolInv'
<1>1. Outstanding' = Outstanding
  BY DEF Outstanding, Busy
<1>2. RemainingCounts'
  BY <1>1 DEF PoolInv, RemainingCounts
<1> QED BY <1>2 DEF PoolInv

\* While a range is worked on, the context is not stopping.
LEMMA ProgressRuns ==
    ASSUME LockInv, NEW c \in Callers, Holding(c)
    PROVE  ~stopping /\ \A d \in Callers : InProgress(d) => d = c
<1>1. pc[c] # "out"
  BY DEF Holding, Preparing, InProgress, ExecutePcs
<1>2. ASSUME NEW d \in Callers, InProgress(d) PROVE d = c
  BY <1>2, OneHolder DEF Holding
<1> QED BY <1>1, <1>2 DEF LockInv

\* The announcement makes every worker outstanding.
LEMMA PoolAnnounce ==
    ASSUME TypeInv, LockInv, PoolInv, NEW c \in Callers, Announce(c)
    PROVE  PoolInv'
<1> USE Distinct
<1>1. pc[c] = "announce" /\ Holding(c) /\ ~InProgress(c)
  BY DEF Announce, Holding, Preparing, InProgress, ExecutePcs
<1>2. \A d \in Callers : ~InProgress(d)
  BY <1>1, ProgressRuns
<1>3. participating = WorkerCount /\ remaining = WorkerCount
  BY <1>1 DEF PoolInv
<1>4. \A w \in Workers : ~Busy(w) /\ observed[w] = generation
  BY <1>1, <1>2, ProgressRuns DEF PoolInv
<1>5. pc' = [u \in Threads \cup {Owner} |->
               IF u = c THEN "loop" ELSE IF pc[u] = "asleep" THEN "wait" ELSE pc[u]]
  BY DEF Announce, BroadcastAnd, TypeInv, TypeOK
<1>6. /\ generation' = generation + 1 /\ generation \in Nat
      /\ UNCHANGED <<participating, remaining, observed, stopping>>
  BY DEF Announce, TypeInv, TypeOK
<1>7. \A w \in Workers : ~Busy(w)'
  BY <1>4, <1>5 DEF Busy, ExecutePcs
<1>8. InProgress(c)' /\ \A d \in Callers : pc'[d] # "announce"
  <2>1. \A d \in Callers : Holding(d) => d = c
    BY <1>1, OneHolder
  <2> QED BY <1>5, <2>1 DEF InProgress, ExecutePcs, Holding, Preparing
<1>9. Outstanding' = Workers
  <2>1. \A w \in Workers : w < WorkerCount
    BY ConstantsAssumption DEF ConstantsAssumption, Workers
  <2>2. \A w \in Workers : observed'[w] # generation'
    BY <1>4, <1>6
  <2> QED BY <1>3, <1>6, <2>1, <2>2 DEF Outstanding
<1>10. remaining' = Cardinality(Outstanding')
  BY <1>3, <1>6, <1>9, WorkersCounted
<1> QED BY <1>3, <1>6, <1>7, <1>8, <1>10 DEF PoolInv, RemainingCounts

\* A worker that joins was outstanding and stays so.
LEMMA PoolJoin ==
    ASSUME TypeInv, LockInv, PoolInv, NEW w \in Workers, Join(w)
    PROVE  PoolInv'
<1> USE Distinct
<1>1. PICK c \in Callers : InProgress(c)
  BY DEF PoolInv, Join
<1>2. participating = WorkerCount
  BY <1>1 DEF PoolInv
<1>3. w < participating
  BY <1>2, ConstantsAssumption DEF ConstantsAssumption, Workers
<1>4. /\ pc' = [pc EXCEPT ![w] = "loop"]
      /\ observed' = [observed EXCEPT ![w] = generation]
      /\ UNCHANGED <<generation, participating, remaining, stopping>>
  BY <1>3 DEF Join, Goto, contextVars
<1>5. /\ \A v \in Workers \ {w} : (Busy(v)' <=> Busy(v)) /\ observed'[v] = observed[v]
      /\ observed'[w] = generation /\ Busy(w)'
      /\ \A d \in Callers : pc'[d] = pc[d]
  BY <1>4 DEF Busy, ExecutePcs, TypeInv, TypeOK
<1>6. Outstanding' = Outstanding
  BY <1>3, <1>4, <1>5 DEF Outstanding, Busy, Join
<1>7. RemainingCounts'
  BY <1>4, <1>5, <1>6 DEF PoolInv, RemainingCounts, InProgress
<1> QED BY <1>1, <1>4, <1>5, <1>7 DEF PoolInv, InProgress

\* A worker that finishes takes itself off remaining, and only itself.
LEMMA PoolFinish ==
    ASSUME TypeInv, LockInv, PoolInv, NEW w \in Workers, Finish(w)
    PROVE  PoolInv'
<1> USE Distinct
<1>1. Busy(w) /\ observed[w] = generation
  BY DEF Finish, Busy, PoolInv
<1>2. PICK c \in Callers : InProgress(c)
  BY <1>1 DEF PoolInv
<1>3. w \in Outstanding /\ remaining = Cardinality(Outstanding)
  BY <1>1, <1>2 DEF Outstanding, Busy, PoolInv, RemainingCounts
<1>4. /\ UNCHANGED <<generation, participating, observed, stopping>>
      /\ remaining' = (remaining + Modulus - 1) % Modulus
      /\ pc' = [pc EXCEPT ![w] = pc'[w]] /\ pc'[w] \in {"signal", "wait"}
  BY DEF Finish, Goto, TypeInv, TypeOK
<1>5. /\ \A v \in Workers \ {w} : Busy(v)' <=> Busy(v)
      /\ ~Busy(w)'
      /\ \A d \in Callers : pc'[d] = pc[d]
  BY <1>4 DEF Busy, ExecutePcs, TypeInv, TypeOK
<1>6. Outstanding' = Outstanding \ {w}
  BY <1>1, <1>4, <1>5 DEF Outstanding, Busy
<1>7. Cardinality(Outstanding') = Cardinality(Outstanding) - 1
  BY <1>3, <1>6, OutstandingFinite, FS_RemoveElement
<1>8. remaining' = remaining - 1
  <2>1. remaining \in 1 .. Modulus - 1
    <3>1. remaining # 0
      BY <1>3, OutstandingFinite, FS_EmptySet
    <3> QED BY <3>1 DEF TypeInv, TypeOK
  <2> QED BY <1>4, <2>1, ConstantsAssumption DEF ConstantsAssumption
<1>9. RemainingCounts'
  BY <1>3, <1>5, <1>7, <1>8 DEF RemainingCounts, InProgress
<1>10. \A d \in Callers : pc[d] # "announce"
  BY <1>2, OneHolder DEF Holding, Preparing, InProgress, ExecutePcs
<1> QED BY <1>2, <1>4, <1>5, <1>9, <1>10 DEF PoolInv, InProgress

\* When remaining is zero, every worker has taken part and gone.
LEMMA PoolReturn ==
    ASSUME TypeInv, LockInv, PoolInv, NEW c \in Callers, Return(c)
    PROVE  PoolInv'
<1> USE Distinct
<1>1. InProgress(c) /\ remaining = 0 /\ Holding(c)
  BY DEF Return, AllFinished, InProgress, Holding
<1>2. Outstanding = {}
  BY <1>1, OutstandingFinite, FS_EmptySet DEF PoolInv, RemainingCounts
<1>3. \A w \in Workers : w < participating
  BY <1>1, ConstantsAssumption DEF PoolInv, ConstantsAssumption, Workers
<1>4. \A w \in Workers : ~Busy(w) /\ observed[w] = generation
  BY <1>2, <1>3 DEF Outstanding, Busy
<1>5. /\ pc' = [pc EXCEPT ![c] = "out"]
      /\ UNCHANGED <<generation, participating, remaining, observed, stopping>>
  BY DEF Return, Goto
<1>6. \A d \in Callers : ~InProgress(d)' /\ pc'[d] \notin {"remaining", "announce"}
  <2>1. \A d \in Callers \ {c} : ~InProgress(d) /\ ~Preparing(d)
    BY <1>1, OneHolder DEF Holding
  <2> QED BY <1>5, <2>1 DEF InProgress, ExecutePcs, Preparing, TypeInv, TypeOK
<1>7. \A w \in Workers : ~Busy(w)' /\ observed'[w] = generation'
  BY <1>4, <1>5 DEF Busy, ExecutePcs, TypeInv, TypeOK
<1> QED BY <1>6, <1>7 DEF PoolInv, RemainingCounts

\* The caller prepares a dispatch on the whole pool.
LEMMA PoolPrepare ==
    ASSUME TypeInv, LockInv, PoolInv, FullPool, NEW c \in Callers,
           SetParticipants(c) \/ SetRemaining(c)
    PROVE  PoolInv'
<1> USE Distinct
<1>1. Holding(c) /\ ~InProgress(c)
  BY DEF SetParticipants, SetRemaining, Holding, Preparing, InProgress, ExecutePcs
<1>2. \A d \in Callers : d # c => ~Holding(d)
  BY <1>1, OneHolder
<1>3. \A d \in Callers : ~InProgress(d)
  BY <1>1, <1>2 DEF Holding
<1>4. \A w \in Workers : ~Busy(w) /\ observed[w] = generation
  BY <1>1, <1>3, ProgressRuns DEF PoolInv
<1>5. /\ UNCHANGED <<generation, observed, stopping>>
      /\ pc' = [pc EXCEPT ![c] = pc'[c]] /\ pc'[c] \in {"remaining", "announce"}
  BY DEF SetParticipants, SetRemaining, Goto, TypeInv, TypeOK
<1>6. participating' = WorkerCount
  <2>1. CASE SetParticipants(c)
    <3>1. chunks[c] \in Nat /\ chunks[c] > WorkerCount
      <4>1. chunks[c] \in ChunkCounts /\ chunks[c] > 1
        BY <2>1 DEF SetParticipants, TypeInv, WorthIt
      <4>2. chunks[c] \in Nat
        BY <4>1, ConstantsAssumption DEF ConstantsAssumption
      <4>3. chunks[c] <= 1 \/ chunks[c] > WorkerCount
        BY <4>1 DEF FullPool
      <4> QED BY <4>1, <4>2, <4>3
    <3> QED BY <2>1, <3>1, ConstantsAssumption
            DEF SetParticipants, Participants, ThreadCount, ConstantsAssumption
  <2>2. CASE SetRemaining(c)
    BY <2>2 DEF SetRemaining, PoolInv
  <2> QED BY <2>1, <2>2
<1>7. pc'[c] = "announce" => remaining' = WorkerCount
  <2>1. CASE SetParticipants(c)
    BY <2>1 DEF SetParticipants, Goto, TypeInv, TypeOK
  <2>2. CASE SetRemaining(c)
    BY <2>2, <1>6 DEF SetRemaining
  <2> QED BY <2>1, <2>2
<1>8. /\ \A d \in Callers : ~InProgress(d)'
      /\ \A d \in Callers : d # c => ~Preparing(d)'
      /\ \A w \in Workers : ~Busy(w)'
  BY <1>2, <1>3, <1>4, <1>5 DEF Holding, Preparing, InProgress, Busy, ExecutePcs, TypeInv, TypeOK
<1> QED BY <1>4, <1>5, <1>6, <1>7, <1>8 DEF PoolInv, RemainingCounts, Preparing

\* The shutdown starts and goes on with idle workers.
LEMMA PoolShutdown ==
    ASSUME TypeInv, LockInv, PoolInv, ShutdownLock \/ Shutdown
    PROVE  PoolInv'
<1> USE Distinct
<1>1. \A c \in Callers : ~Holding(c)
  <2>1. CASE ShutdownLock
    BY <2>1 DEF ShutdownLock, LockInv
  <2>2. CASE Shutdown
    BY <2>2 DEF Shutdown, ShutdownBroadcast, ShutdownJoin, LockInv, Holding, Preparing,
                InProgress, ExecutePcs
  <2> QED BY <2>1, <2>2
<1>2. \A w \in Workers : ~Busy(w)
  BY <1>1 DEF PoolInv, Holding
<1>3. stopping'
  <2>1. CASE ShutdownLock
    BY <2>1 DEF ShutdownLock
  <2>2. CASE Shutdown
    <3>1. pc[Owner] # "out"
      BY <2>2 DEF Shutdown, ShutdownBroadcast, ShutdownJoin
    <3>2. stopping' = stopping
      BY <2>2 DEF Shutdown, ShutdownBroadcast, ShutdownJoin, contextVars
    <3> QED BY <3>1, <3>2 DEF LockInv
  <2> QED BY <2>1, <2>2
<1>4. \A c \in Callers : ~Holding(c)'
  BY <1>1 DEF ShutdownLock, Shutdown, ShutdownBroadcast, ShutdownJoin, BroadcastAnd, Goto,
              Holding, Preparing, InProgress, ExecutePcs, TypeInv, TypeOK
<1>5. \A w \in Workers : ~Busy(w)'
  BY <1>2 DEF ShutdownLock, Shutdown, ShutdownBroadcast, ShutdownJoin, BroadcastAnd, Goto,
              Busy, ExecutePcs, TypeInv, TypeOK
<1> QED BY <1>3, <1>4, <1>5 DEF PoolInv, RemainingCounts, Holding, Preparing

\* Every step keeps PoolInv.
LEMMA PoolStep ==
    ASSUME TypeInv, LockInv, PoolInv, FullPool, [Next]_vars
    PROVE  PoolInv'
<1> USE Distinct
    DEF TypeInv, TypeOK, contextVars, callerVars, historyVars, Goto, AfterChunks, InProgress,
        Busy, ExecutePcs
<1>1. ASSUME NEW c \in Callers, NEW n \in ChunkCounts, Call(c, n) PROVE PoolInv'
  BY <1>1, PoolFrame DEF Call
<1>2. ASSUME NEW c \in Callers, CancelToken(c) PROVE PoolInv'
  BY <1>2, PoolFrame DEF CancelToken
<1>3. ASSUME NEW c \in Callers, Caller(c) PROVE PoolInv'
  <2>1. CASE Describe(c)
    BY <2>1, PoolFrame DEF Describe
  <2>2. CASE Execute(c)
    BY <2>2, PoolFrame DEF Execute, CheckToken, Claim, Succeed, Fail, Capture
  <2>3. CASE AwaitDone(c)
    BY <2>3, PoolFrame DEF AwaitDone
  <2> QED BY <1>3, <2>1, <2>2, <2>3, PoolPrepare, PoolAnnounce, PoolReturn DEF Caller
<1>4. ASSUME NEW w \in Workers, Worker(w) PROVE PoolInv'
  <2>1. CASE Sleep(w) \/ Exit(w)
    BY <2>1, PoolFrame DEF Sleep, Exit
  <2>2. CASE Execute(w)
    BY <2>2, PoolFrame DEF Execute, CheckToken, Claim, Succeed, Fail, Capture
  <2>3. CASE SignalDone(w)
    BY <2>3, PoolFrame DEF SignalDone, DoneSignalled
  <2> QED BY <1>4, <2>1, <2>2, <2>3, PoolJoin, PoolFinish DEF Worker
<1>5. CASE UNCHANGED vars
  BY <1>5, PoolFrame DEF vars
<1> QED BY <1>1, <1>2, <1>3, <1>4, <1>5, PoolShutdown DEF Next

-----------------------------------------------------------------------------
(* Callbacks and their failures *)

LEMMA JobInit == Init => JobInv
BY ConstantsAssumption, Distinct DEF ConstantsAssumption, Init, JobInv, Threads, Workers

\* Nobody is in a callback when a range is described.
LEMMA DescribeAlone ==
    ASSUME LockInv, PoolInv, dispatchLock = None, NEW t \in Threads
    PROVE  pc[t] \notin ExecutePcs
<1>1. \A c \in Callers : ~Holding(c)
  BY Distinct DEF LockInv
<1>2. CASE t \in Callers
  BY <1>1, <1>2 DEF Holding, InProgress
<1>3. CASE t \in Workers
  BY <1>1, <1>3 DEF PoolInv, Holding, Busy
<1> QED BY <1>2, <1>3 DEF Threads

\* A step outside the callbacks and the failures keeps JobInv.
LEMMA JobFrame ==
    ASSUME JobInv, UNCHANGED <<working, begin, failed, failure, failureBegin, job>>,
           \A t \in Threads : (pc'[t] = "call" <=> pc[t] = "call") /\
                              (pc'[t] = "capture" <=> pc[t] = "capture")
    PROVE  JobInv'
BY DEF JobInv

\* Calling back, failing and capturing the failure.
LEMMA JobExecute ==
    ASSUME TypeInv, JobInv, NEW t \in Threads, Execute(t)
    PROVE  JobInv'
<1> USE Distinct DEF TypeInv, TypeOK, contextVars, callerVars, historyVars, Goto
<1>1. CASE CheckToken(t)
  BY <1>1, JobFrame DEF CheckToken, AfterChunks
<1>2. CASE Claim(t)
  <2>1. CASE next >= end
    BY <1>2, <2>1, JobFrame DEF Claim, AfterChunks
  <2>2. CASE ~(next >= end)
    <3>1. /\ pc' = [pc EXCEPT ![t] = "call"] /\ working' = [working EXCEPT ![t] = job]
          /\ begin' = [begin EXCEPT ![t] = next]
          /\ UNCHANGED <<failed, failure, failureBegin, job>> /\ pc[t] = "claim"
      BY <1>2, <2>2 DEF Claim
    <3> QED BY <3>1 DEF JobInv
  <2> QED BY <2>1, <2>2
<1>3. CASE Succeed(t)
  BY <1>3 DEF Succeed, JobInv
<1>4. CASE Fail(t)
  BY <1>4 DEF Fail, JobInv
<1>5. CASE Capture(t)
  <2>1. /\ pc[t] = "capture" /\ pc' = [pc EXCEPT ![t] = "loop"]
        /\ begin' = [begin EXCEPT ![t] = NoChunk]
        /\ UNCHANGED <<working, failed, job>>
    BY <1>5 DEF Capture
  <2>2. \A u \in Threads : working'[u] # 0 => pc'[u] = "call" /\ working'[u] = job'
    BY <2>1 DEF JobInv
  <2>3. \A u \in Threads : pc'[u] = "capture" => begin'[u] \in failed'
    BY <2>1 DEF JobInv
  <2>4. failure' /\ failureBegin' \in failed
    <3>1. CASE Captures(begin[t])
      BY <1>5, <3>1, <2>1 DEF Capture, JobInv
    <3>2. CASE ~Captures(begin[t])
      BY <1>5, <3>2 DEF Capture, Captures, JobInv
    <3> QED BY <3>1, <3>2
  <2>5. failureBegin' <= begin[t] /\ (failure => failureBegin' <= failureBegin)
    <3>1. begin[t] \in Int /\ failureBegin \in Int
      OBVIOUS
    <3>2. CASE Captures(begin[t])
      <4>1. failureBegin' = begin[t]
        BY <1>5, <3>2 DEF Capture
      <4> QED BY <3>1, <3>2, <4>1 DEF Captures
    <3>3. CASE ~Captures(begin[t])
      <4>1. failureBegin' = failureBegin
        BY <1>5, <3>3 DEF Capture
      <4> QED BY <3>1, <3>3, <4>1 DEF Captures
    <3> QED BY <3>2, <3>3
  <2>6. ASSUME NEW i \in failed
        PROVE  failureBegin' <= i \/ \E u \in Threads : pc'[u] = "capture" /\ begin'[u] = i
    <3>0. i \in Int /\ failureBegin \in Int /\ failureBegin' \in Int /\ begin[t] \in Int
      BY TypeExecute
    <3>1. CASE failure /\ failureBegin <= i
      BY <2>5, <3>0, <3>1
    <3>2. CASE \E u \in Threads : pc[u] = "capture" /\ begin[u] = i
      BY <2>1, <2>5, <3>2
    <3> QED BY <3>1, <3>2 DEF JobInv
  <2> QED BY <2>1, <2>2, <2>3, <2>4, <2>6 DEF JobInv
<1> QED BY <1>1, <1>2, <1>3, <1>4, <1>5 DEF Execute

\* Every step keeps JobInv.
LEMMA JobStep ==
    ASSUME TypeInv, LockInv, PoolInv, JobInv, [Next]_vars
    PROVE  JobInv'
<1> USE Distinct DEF TypeInv, TypeOK, contextVars, callerVars, historyVars, Goto
<1>1. ASSUME NEW c \in Callers, NEW n \in ChunkCounts, Call(c, n) PROVE JobInv'
  BY <1>1, JobFrame DEF Call
<1>2. ASSUME NEW c \in Callers, CancelToken(c) PROVE JobInv'
  BY <1>2, JobFrame DEF CancelToken
<1>3. ASSUME NEW c \in Callers, Caller(c) PROVE JobInv'
  <2>1. CASE Describe(c)
    <3>1. \A t \in Threads : pc[t] # "call" /\ pc[t] # "capture"
      BY <2>1, DescribeAlone DEF Describe, ExecutePcs
    <3>2. failed' = {} /\ failure' = FALSE /\ working' = working
      BY <2>1 DEF Describe
    <3>3. \A t \in Threads : pc'[t] # "capture"
      BY <2>1, <3>1 DEF Describe
    <3> QED BY <3>1, <3>2, <3>3 DEF JobInv
  <2>2. CASE SetParticipants(c)
    BY <2>2, JobFrame DEF SetParticipants
  <2>3. CASE SetRemaining(c)
    BY <2>3, JobFrame DEF SetRemaining
  <2>4. CASE Announce(c)
    BY <2>4, JobFrame DEF Announce, BroadcastAnd
  <2>5. CASE AwaitDone(c)
    BY <2>5, JobFrame DEF AwaitDone
  <2>6. CASE Return(c)
    BY <2>6, JobFrame DEF Return
  <2> QED BY <1>3, <2>1, <2>2, <2>3, <2>4, <2>5, <2>6, JobExecute DEF Caller
<1>4. ASSUME NEW w \in Workers, Worker(w) PROVE JobInv'
  <2>1. CASE Sleep(w) \/ Exit(w)
    BY <2>1, JobFrame DEF Sleep, Exit
  <2>2. CASE Join(w)
    BY <2>2, JobFrame DEF Join
  <2>3. CASE Finish(w)
    BY <2>3, JobFrame DEF Finish
  <2>4. CASE SignalDone(w)
    BY <2>4, JobFrame DEF SignalDone, DoneSignalled
  <2> QED BY <1>4, <2>1, <2>2, <2>3, <2>4, JobExecute DEF Worker
<1>5. CASE ShutdownLock
  BY <1>5, JobFrame DEF ShutdownLock
<1>6. CASE ShutdownBroadcast
  BY <1>6, JobFrame DEF ShutdownBroadcast, BroadcastAnd
<1>7. CASE ShutdownJoin
  BY <1>7, JobFrame DEF ShutdownJoin
<1>8. CASE UNCHANGED vars
  BY <1>8, JobFrame DEF vars
<1> QED BY <1>1, <1>2, <1>3, <1>4, <1>5, <1>6, <1>7, <1>8 DEF Next, Shutdown

-----------------------------------------------------------------------------
(* The chunks of a range *)

LEMMA ChunkInit == Init => ChunkInv
BY ConstantsAssumption, Distinct
   DEF ConstantsAssumption, Init, ChunkInv, Holding, Preparing, InProgress, ExecutePcs, Threads,
       Chunks

\* A step that gives out no chunk and keeps the callers where they are with
\* respect to the dispatch keeps ChunkInv.
LEMMA ChunkFrame ==
    ASSUME ChunkInv, UNCHANGED <<calls, next, end, chunks, cancellation>>,
           \A c \in Callers : Holding(c)' => Holding(c),
           \A c \in Callers : token[c] => token'[c],
           \A c \in Callers : pc'[c] \in {"await", "doneWait"} =>
                pc[c] \in {"await", "doneWait"}
    PROVE  ChunkInv'
BY DEF ChunkInv

\* A thread takes the next chunk, or leaves when there is none or the token
\* is cancelled.
LEMMA ChunkExecute ==
    ASSUME TypeInv, LockInv, ChunkInv, NEW t \in Threads, Execute(t)
    PROVE  ChunkInv'
<1> USE Distinct DEF TypeInv, TypeOK, contextVars, callerVars, historyVars, Goto
<1>1. CASE CheckToken(t)
  <2>1. ASSUME NEW c \in Callers, pc'[c] \in {"await", "doneWait"}
        PROVE  token[c] \/ next >= end
    <3>1. CASE c = t
      <4>1. Holding(c)
        BY <1>1, <3>1 DEF CheckToken, Holding, InProgress, ExecutePcs
      <4>2. cancellation = c
        BY <4>1 DEF ChunkInv
      <4>3. Cancelled
        BY <1>1, <2>1, <3>1 DEF CheckToken
      <4> QED BY <4>2, <4>3 DEF Cancelled
    <3>2. CASE c # t
      BY <1>1, <2>1, <3>2 DEF CheckToken, ChunkInv
    <3> QED BY <3>1, <3>2
  <2>2. \A c \in Callers : Holding(c)' <=> Holding(c)
    BY <1>1 DEF CheckToken, AfterChunks, Holding, Preparing, InProgress, ExecutePcs
  <2>3. UNCHANGED <<calls, next, end, chunks, cancellation, token>>
    BY <1>1 DEF CheckToken
  <2> QED BY <2>1, <2>2, <2>3 DEF ChunkInv
<1>2. CASE Claim(t)
  <2>1. \A c \in Callers : Holding(c)' <=> Holding(c)
    BY <1>2 DEF Claim, AfterChunks, Holding, Preparing, InProgress, ExecutePcs
  <2>2. next' = next + 1 /\ UNCHANGED <<end, chunks, cancellation, token>>
    BY <1>2 DEF Claim
  <2>3. \A i \in Chunks : calls'[i] = IF i < next' /\ i < end' THEN 1 ELSE 0
    <3>0. Chunks \subseteq Int
      BY DEF Chunks
    <3>1. CASE next >= end
      <4>1. calls' = calls
        BY <1>2, <3>1 DEF Claim
      <4> QED BY <3>0, <3>1, <4>1, <2>2 DEF ChunkInv
    <3>2. CASE ~(next >= end)
      <4>1. calls' = [calls EXCEPT ![next] = @ + 1]
        BY <1>2, <3>2 DEF Claim
      <4> QED BY <3>0, <3>2, <4>1, <2>2 DEF ChunkInv
    <3> QED BY <3>1, <3>2
  <2>4. ASSUME NEW c \in Callers, pc'[c] \in {"await", "doneWait"}
        PROVE  token[c] \/ next' >= end
    <3>1. CASE c = t
      <4>1. next >= end
        BY <1>2, <2>4, <3>1 DEF Claim
      <4> QED BY <4>1, <2>2
    <3>2. CASE c # t
      <4>1. token[c] \/ next >= end
        BY <1>2, <2>4, <3>2 DEF Claim, ChunkInv
      <4> QED BY <4>1, <2>2
    <3> QED BY <3>1, <3>2
  <2> QED BY <2>1, <2>2, <2>3, <2>4 DEF ChunkInv
<1>3. CASE Succeed(t)
  BY <1>3, ChunkFrame DEF Succeed, Holding, Preparing, InProgress, ExecutePcs
<1>4. CASE Fail(t)
  BY <1>4, ChunkFrame DEF Fail, Holding, Preparing, InProgress, ExecutePcs
<1>5. CASE Capture(t)
  BY <1>5, ChunkFrame DEF Capture, Holding, Preparing, InProgress, ExecutePcs
<1> QED BY <1>1, <1>2, <1>3, <1>4, <1>5 DEF Execute

\* Every step keeps ChunkInv.
LEMMA ChunkStep ==
    ASSUME TypeInv, LockInv, ChunkInv, [Next]_vars
    PROVE  ChunkInv'
<1> USE Distinct
    DEF TypeInv, TypeOK, contextVars, callerVars, historyVars, Goto, Holding, Preparing,
        InProgress, ExecutePcs
<1>1. ASSUME NEW c \in Callers, NEW n \in ChunkCounts, Call(c, n) PROVE ChunkInv'
  <2>1. ~Holding(c) /\ ~Holding(c)'
    BY <1>1 DEF Call
  <2>2. \A d \in Callers \ {c} : chunks'[d] = chunks[d] /\ pc'[d] = pc[d]
    BY <1>1 DEF Call
  <2>3. UNCHANGED <<calls, next, end, cancellation, token>> /\ pc'[c] = "lock"
    BY <1>1 DEF Call
  <2> QED BY <2>1, <2>2, <2>3 DEF ChunkInv
<1>2. ASSUME NEW c \in Callers, CancelToken(c) PROVE ChunkInv'
  BY <1>2, ChunkFrame DEF CancelToken
<1>3. ASSUME NEW c \in Callers, Caller(c) PROVE ChunkInv'
  <2>1. CASE Describe(c)
    <3>1. \A d \in Callers : ~Holding(d)
      BY <2>1 DEF Describe, LockInv
    <3>2. /\ pc' = [pc EXCEPT ![c] = "participants"] /\ end' = chunks[c] /\ cancellation' = c
          /\ next' = 0 /\ calls' = [i \in Chunks |-> 0] /\ chunks' = chunks
      BY <2>1 DEF Describe
    <3>3. \A d \in Callers \ {c} : ~Holding(d)' /\ pc'[d] \notin {"await", "doneWait"}
      BY <3>1, <3>2
    <3>4. \A i \in Chunks : ~(i < 0)
      BY DEF Chunks
    <3>5. pc'[c] = "participants"
      BY <3>2
    <3> QED BY <3>2, <3>3, <3>4, <3>5 DEF ChunkInv
  <2>2. CASE SetParticipants(c)
    BY <2>2, ChunkFrame DEF SetParticipants
  <2>3. CASE SetRemaining(c)
    BY <2>3, ChunkFrame DEF SetRemaining
  <2>4. CASE Announce(c)
    BY <2>4, ChunkFrame DEF Announce, BroadcastAnd
  <2>5. CASE AwaitDone(c)
    BY <2>5, ChunkFrame DEF AwaitDone
  <2>6. CASE Return(c)
    <3>1. Holding(c) /\ pc' = [pc EXCEPT ![c] = "out"]
      BY <2>6 DEF Return
    <3>2. \A d \in Callers : ~Holding(d)'
      <4>1. \A d \in Callers \ {c} : ~Holding(d)
        BY <3>1 DEF LockInv
      <4> QED BY <3>1, <4>1
    <3>3. UNCHANGED <<calls, next, end>>
      BY <2>6 DEF Return
    <3> QED BY <3>2, <3>3 DEF ChunkInv
  <2> QED BY <1>3, <2>1, <2>2, <2>3, <2>4, <2>5, <2>6, ChunkExecute DEF Caller
<1>4. ASSUME NEW w \in Workers, Worker(w) PROVE ChunkInv'
  <2>1. CASE Sleep(w) \/ Exit(w)
    BY <2>1, ChunkFrame DEF Sleep, Exit
  <2>2. CASE Join(w)
    BY <2>2, ChunkFrame DEF Join
  <2>3. CASE Finish(w)
    BY <2>3, ChunkFrame DEF Finish
  <2>4. CASE SignalDone(w)
    BY <2>4, ChunkFrame DEF SignalDone, DoneSignalled
  <2> QED BY <1>4, <2>1, <2>2, <2>3, <2>4, ChunkExecute DEF Worker
<1>5. CASE ShutdownLock
  BY <1>5, ChunkFrame DEF ShutdownLock
<1>6. CASE ShutdownBroadcast
  BY <1>6, ChunkFrame DEF ShutdownBroadcast, BroadcastAnd
<1>7. CASE ShutdownJoin
  BY <1>7, ChunkFrame DEF ShutdownJoin
<1>8. CASE UNCHANGED vars
  BY <1>8, ChunkFrame DEF vars
<1> QED BY <1>1, <1>2, <1>3, <1>4, <1>5, <1>6, <1>7, <1>8 DEF Next, Shutdown

-----------------------------------------------------------------------------
(* The safety of a context whose dispatches use the whole pool *)

\* The invariant is inductive.
LEMMA Inductive == FullPool => (Spec => []IInv)
<1> SUFFICES ASSUME FullPool PROVE Spec => []IInv
  OBVIOUS
<1>1. Init => IInv
  BY TypeInit, LockInit, PoolInit, JobInit, ChunkInit DEF IInv
<1>2. IInv /\ [Next]_vars => IInv'
  BY TypeStep, LockStep, PoolStep, JobStep, ChunkStep DEF IInv
<1> QED BY <1>1, <1>2, PTL DEF Spec

\* A dispatch that is about to return has the threads of the pool behind it.
LEMMA DoneAlone ==
    ASSUME IInv, NEW c \in Callers, Done(c)
    PROVE  \A t \in Threads : pc[t] \notin ExecutePcs
<1>1. InProgress(c) /\ remaining = 0 /\ pc[c] = "await"
  BY DEF Done, InProgress
<1>2. Outstanding = {}
  BY <1>1, OutstandingFinite, FS_EmptySet DEF IInv, PoolInv, RemainingCounts
<1>3. \A w \in Workers : pc[w] \notin ExecutePcs
  BY <1>2 DEF Outstanding
<1>4. \A d \in Callers : pc[d] \notin ExecutePcs
  BY <1>1, OneHolder DEF IInv, Holding, InProgress, ExecutePcs
<1> QED BY <1>3, <1>4 DEF Threads

\* remaining is the number of participants that have not finished: the caller
\* of fviz_parallel_dispatch neither returns too early nor waits for nobody.
THEOREM RemainingCorrect == FullPool => (Spec => []RemainingCounts)
<1>1. IInv => RemainingCounts
  BY DEF IInv, PoolInv
<1> QED BY <1>1, Inductive, PTL

\* No callback runs outside the dispatch it belongs to, so a context
\* serializes its own dispatches.
THEOREM Serialized == FullPool => (Spec => []DispatchesSerialized)
<1>1. IInv => DispatchesSerialized
  <2> SUFFICES ASSUME IInv, NEW t \in Threads, working[t] # 0
               PROVE  working[t] = job /\ dispatchLock \in Callers
    BY DEF DispatchesSerialized
  <2>1. pc[t] = "call" /\ working[t] = job
    BY DEF IInv, JobInv
  <2>2. \E c \in Callers : InProgress(c)
    <3>1. CASE t \in Workers
      BY <2>1, <3>1 DEF IInv, PoolInv, Busy, ExecutePcs
    <3>2. CASE t \in Callers
      BY <2>1, <3>2 DEF InProgress, ExecutePcs
    <3> QED BY <3>1, <3>2 DEF Threads
  <2> QED BY <2>1, <2>2 DEF IInv, LockInv, Holding
<1> QED BY <1>1, Inductive, PTL

\* A dispatch returns the failure of the lowest failing chunk, whichever
\* worker finished first.
THEOREM LowestReported == FullPool => (Spec => []LowestFailure)
<1>1. IInv => LowestFailure
  <2> SUFFICES ASSUME IInv, NEW c \in Callers, Done(c), failed # {}
               PROVE  /\ Answer(c) = "FAILED" /\ failureBegin \in failed
                      /\ \A i \in failed : failureBegin <= i
    BY DEF LowestFailure
  <2>1. \A t \in Threads : pc[t] # "capture"
    BY DoneAlone DEF ExecutePcs
  <2>2. failure /\ \A i \in failed : failureBegin <= i
    BY <2>1 DEF IInv, JobInv
  <2>3. Answer(c) = "FAILED"
    BY <2>2 DEF Answer
  <2> QED BY <2>2, <2>3 DEF IInv, JobInv
<1> QED BY <1>1, Inductive, PTL

\* Each chunk is given to the callback at most once; a dispatch that is not
\* cancelled gives out all of them, and returns FVIZ_OK only if none failed.
THEOREM ChunksOnce == FullPool => (Spec => []EveryChunkOnce)
<1>1. IInv => EveryChunkOnce
  <2> SUFFICES ASSUME IInv PROVE EveryChunkOnce
    OBVIOUS
  <2>1. \A i \in Chunks : calls[i] <= 1
    BY DEF IInv, ChunkInv
  <2>2. ASSUME NEW c \in Callers, Done(c), ~token[c]
        PROVE  /\ \A i \in Chunks : i < chunks[c] => calls[i] = 1
               /\ Answer(c) = "OK" => failed = {}
    <3>1. next >= end /\ end = chunks[c] /\ next \in Nat /\ end \in Nat
      BY <2>2 DEF Done, IInv, ChunkInv, TypeInv, TypeOK, Holding, InProgress
    <3>2. \A i \in Chunks : i < end => i < next
      BY <3>1 DEF Chunks
    <3>3. \A i \in Chunks : i < chunks[c] => calls[i] = 1
      BY <3>1, <3>2 DEF IInv, ChunkInv
    <3>4. ASSUME failed # {} PROVE Answer(c) # "OK"
      <4>1. \A t \in Threads : pc[t] # "capture"
        BY <2>2, DoneAlone DEF ExecutePcs
      <4>2. failure
        BY <4>1, <3>4 DEF IInv, JobInv
      <4> QED BY <4>2 DEF Answer
    <3> QED BY <3>3, <3>4
  <2> QED BY <2>1, <2>2 DEF EveryChunkOnce
<1> QED BY <1>1, Inductive, PTL
=============================================================================
