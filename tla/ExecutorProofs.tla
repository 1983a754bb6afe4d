--------------------------- MODULE ExecutorProofs ---------------------------
(***************************************************************************)
(* Proofs about Executor, for every set of executors, workers and futures, *)
(* every priority, shape of dependency and capacity, in layers: each       *)
(* invariant is inductive given the earlier ones.                          *)
(*                                                                         *)
(*   TypeInv     types, where the threads are, what was submitted          *)
(*   LinkInv     at most one link leads to a waiter, which is registered   *)
(*   PlaceInv    an unfinished future is queued, parked or in hand         *)
(*   OnceInv     how far it has come in each place      -> ScheduledOnce   *)
(*   CountInv    who holds an antecedent -> DependentsCounted, AntecedentKept *)
(*   PhaseInv, LedgerInv   the counters                 -> CountersExact   *)
(*   HoldsInv, ChainInv, OutcomeInv                     -> ImplementsGraph *)
(*   HomeInv, AliveInv                                  -> LinksAlive      *)
(*   HoldsInv, HomeInv, ReachInv                        -> ParkedReachable *)
(***************************************************************************)
EXTENDS Executor, FiniteSetTheorems, SequenceTheorems, TLAPS

-----------------------------------------------------------------------------
(* The invariants *)

Used(f) == alloc[f] # "unused"
Registered(e, f) == \E i \in DOMAIN parked[e] : parked[e][i] = f
ExecutorOf(t) == IF t \in Workers THEN Home[t] ELSE t

WorkerPcs == CurrentPcs \cup {"idle", "asleep", "exited", "complete", "wake",
                              "promote", "push"}
DestroyPcs == {"next", "callback", "release", "complete", "wake", "collect",
               "advance"}
\* Where a thread has a future in hand, the link of a waiter included.
CarryPcs == HandPcs \cup {"wake", "push"}

(* Where the threads can be. *)
WorkerPlace(w) == pc[w] \in WorkerPcs
DestroyerPlace(e) ==
    /\ pc[e] \in DestroyPcs \cup {"idle", "promote", "push", "done"}
    /\ phase[e] = "open" <=> pc[e] = "idle"
    /\ phase[e] \in {"drain", "join", "walk"} <=> pc[e] \in DestroyPcs
    /\ phase[e] = "join" => pc[e] = "next"
    /\ phase[e] = "settle" <=> pc[e] \in {"promote", "push"}
    /\ phase[e] = "freed" <=> pc[e] = "done"
    /\ held[e] <=> phase[e] \in {"drain", "walk"}
    /\ pc[e] = "advance" => tail[e] # None
Carries(t) ==
    /\ pc[t] \in CarryPcs => cur[t] \in Futures /\ Used(cur[t])
    /\ pc[t] = "antecedent" => dep[cur[t]] # None
ControlInv ==
    /\ \A w \in Workers : WorkerPlace(w)
    /\ \A e \in Executors : DestroyerPlace(e)
    /\ \A t \in Threads : Carries(t)

(* What the queues hold and the links lead to was submitted. *)
UsedInv ==
    /\ \A e \in Executors : \A f \in heap[e] : Used(f)
    /\ \A e \in Executors : \A i \in DOMAIN parked[e] : Used(parked[e][i])
    /\ \A f \in Futures : /\ Used(f) => home[f] \in Executors
                          /\ ready[f] => Used(f)
                          /\ Used(f) /\ dep[f] # None => Used(dep[f])
                          /\ waitingHead[f] # None => Used(waitingHead[f])
                          /\ waiterNext[f] # None => Used(waiterNext[f])
    /\ \A t \in Threads : /\ detached[t] # None => Used(detached[t])
                          /\ chain[t] # None => Used(chain[t])

TypeInv == TypeOK /\ ControlInv /\ UsedInv

(* The links: head, next, detached, chain and the waiter in hand. *)
Links == ({"head", "next"} \X Futures) \cup ({"detached", "chain", "cur"} \X Threads)
Target ==
    [l \in Links |->
        CASE l[1] = "head" -> waitingHead[l[2]]
          [] l[1] = "next" -> waiterNext[l[2]]
          [] l[1] = "detached" -> detached[l[2]]
          [] l[1] = "chain" -> chain[l[2]]
          [] l[1] = "cur" -> IF pc[l[2]] = "push" THEN cur[l[2]] ELSE None]
(* At most one link leads to a future, which is registered unless its executor
   is being destroyed. *)
LinkInv ==
    /\ \A k, l \in Links : Target[k] = Target[l] /\ Target[k] # None => k = l
    /\ \A l \in Links : Target[l] # None =>
          Used(Target[l]) /\ (Stopping(home[Target[l]])
                              \/ Registered(home[Target[l]], Target[l]))

(* The places of OnePlace, without counting. *)
HeapPlace ==
    \A e \in Executors : \A f \in heap[e] :
        home[f] = e /\ ~ready[f] /\ ~Registered(e, f)
ParkedPlace ==
    \A e \in Executors :
        /\ \A i \in DOMAIN parked[e] : home[parked[e][i]] = e /\ ~ready[parked[e][i]]
        /\ \A i, j \in DOMAIN parked[e] : parked[e][i] = parked[e][j] => i = j
HandPlace ==
    \A t \in Threads : pc[t] \in HandPcs =>
        LET f == cur[t] IN
        /\ home[f] = ExecutorOf(t) /\ ~ready[f]
        /\ f \notin heap[home[f]] /\ ~Registered(home[f], f)
        /\ \A u \in Threads : InHand(u, f) => u = t
Placed ==
    \A f \in Futures : Unfinished(f) =>
        \/ f \in heap[home[f]] \/ Registered(home[f], f)
        \/ \E t \in Threads : InHand(t, f)
PlaceInv == HeapPlace /\ ParkedPlace /\ HandPlace /\ Placed

(* How far the task and the destructor of a future have come in each place. *)
Fresh(f) == runs[f] = 0 /\ disposals[f] = 0
AfterCallback(t) ==
    pc[t] = "complete" \/ (pc[t] = "release" /\ t \in Executors)
OnceThread(t) ==
    /\ pc[t] \in {"check", "antecedent", "run"} => runs[cur[t]] = 0
    /\ pc[t] \in HandPcs => disposals[cur[t]] = IF AfterCallback(t) THEN 1 ELSE 0
OnceInv ==
    /\ \A f \in Futures : ~Used(f) => Fresh(f)
    /\ \A e \in Executors :
          /\ \A f \in heap[e] : Fresh(f)
          /\ \A i \in DOMAIN parked[e] : Fresh(parked[e][i])
    /\ \A t \in Threads : OnceThread(t)
    /\ OnceOnly

(* A future holds its antecedent until a thread has released it. *)
Keeping(t) ==
    \/ pc[t] \in {"check", "antecedent", "release"}
    \/ pc[t] = "callback" /\ t \in Executors
HoldsInv ==
    /\ \A f \in Futures : holds[f] => Used(f) /\ ~ready[f] /\ dep[f] # None
    /\ \A e \in Executors :
          /\ \A f \in heap[e] : dep[f] # None => holds[f]
          /\ \A i \in DOMAIN parked[e] : dep[parked[e][i]] # None /\ holds[parked[e][i]]
    /\ \A t \in Threads : pc[t] \in HandPcs =>
          /\ holds[cur[t]] <=> Keeping(t) /\ dep[cur[t]] # None
          /\ pc[t] = "release" => holds[cur[t]]

(* What the counts of dependents rest on. *)
Dependents(d) == {f \in Futures : holds[f] /\ dep[f] = d}
UsedFinite == IsFiniteSet({f \in Futures : Used(f)})
Held == \A f \in Futures : holds[f] => Used(f) /\ dep[f] # None
AntecedentKept == \A f \in Futures : holds[f] => alloc[dep[f]] # "freed"
CountInv == UsedFinite /\ Held /\ DependentsCounted /\ AntecedentKept

(* The last phases of a shutdown find nothing to do. *)
PhaseAt(e) ==
    /\ phase[e] \in {"join", "walk", "settle", "freed"} => heap[e] = {}
    /\ phase[e] \in {"walk", "settle", "freed"} =>
          \A w \in Workers : Home[w] = e => pc[w] = "exited"
    /\ phase[e] \in {"settle", "freed"} => parked[e] = <<>>
PhaseInv == \A e \in Executors : PhaseAt(e)

(* The counters, in every phase. *)
Busy(e) == {w \in Workers : Home[w] = e /\ pc[w] \in CurrentPcs}
DestroyingPcs == {"callback", "release", "complete", "wake", "collect"}
Destroying(e) == IF pc[e] \in DestroyingPcs THEN 1 ELSE 0
Waiting(e) == Cardinality(heap[e]) + Len(parked[e])
Account(e) ==
    /\ IsFiniteSet(heap[e])
    /\ stats[e].running = Cardinality(Busy(e))
    /\ stats[e].submitted = stats[e].completed + stats[e].running + Waiting(e) + Destroying(e)
    /\ pending[e] <= Capacity
    /\ Waiting(e) <= pending[e]
    /\ phase[e] = "open" => Waiting(e) = pending[e]
LedgerInv == \A e \in Executors : Account(e)

(* Links do not leave an executor. *)
HomeInv ==
    /\ \A f \in Futures :
          /\ Used(f) /\ dep[f] # None => home[dep[f]] = home[f]
          /\ ~Used(f) => waitingHead[f] = None /\ waiterNext[f] = None
          /\ waitingHead[f] # None => home[waitingHead[f]] = home[f]
          /\ waiterNext[f] # None => home[waiterNext[f]] = home[f]
    /\ \A t \in Threads :
          /\ detached[t] # None => home[detached[t]] = ExecutorOf(t)
          /\ chain[t] # None => home[chain[t]] = ExecutorOf(t)
          /\ pc[t] = "push" => home[cur[t]] = ExecutorOf(t)
          /\ detached[t] # None => pc[t] \in {"wake", "collect"}
          /\ t \in Workers /\ chain[t] # None => pc[t] \in {"promote", "push"}
    /\ \A e \in Executors : tail[e] # None => Used(tail[e]) /\ home[tail[e]] = e

(* Nothing a link leads to is freed while its executor exists. *)
Kept(f) == alloc[f] # "freed" \/ phase[home[f]] = "freed"
AliveInv ==
    /\ \A f \in Futures : /\ waitingHead[f] # None => Kept(waitingHead[f])
                          /\ waiterNext[f] # None => Kept(waiterNext[f])
    /\ \A t \in Threads : /\ detached[t] # None => Kept(detached[t])
                          /\ chain[t] # None => Kept(chain[t])
                          /\ pc[t] = "push" => Kept(cur[t])
    /\ \A e \in Executors : tail[e] # None => Kept(tail[e]) /\ Stopping(e)

(* Where a link leads, with respect to the antecedents. *)
Ready(f) == dep[f] # None /\ ready[dep[f]]
ChainInv ==
    /\ \A f \in Futures :
          /\ waitingHead[f] # None => dep[waitingHead[f]] = f /\ ~ready[f]
          /\ waiterNext[f] # None =>
                /\ Used(f) /\ dep[f] # None /\ Used(waiterNext[f])
                /\ \/ dep[waiterNext[f]] = dep[f]
                   \/ Ready(waiterNext[f]) /\ Ready(f)
    /\ \A t \in Threads :
          /\ detached[t] # None => Ready(detached[t])
          /\ chain[t] # None => Ready(chain[t])
          /\ pc[t] = "push" => Ready(cur[t])
    /\ \A e \in Executors : tail[e] # None => Used(tail[e]) /\ Ready(tail[e])
    /\ \A e \in Executors : \A f \in heap[e] : dep[f] # None => Ready(f)
    /\ \A w \in Workers : pc[w] \in HandPcs /\ dep[cur[w]] # None => Ready(cur[w])

(* What a task was given and returned. *)
Unstarted(f) == runs[f] = 0 /\ heard[f] = "BUSY"
OutcomeInv ==
    /\ \A f \in Futures :
          /\ alloc[f] = "freed" => ready[f]
          /\ ready[f] => result[f] \in Results
          /\ ~Used(f) => Unstarted(f)
    /\ \A e \in Executors :
          /\ \A f \in heap[e] : Unstarted(f)
          /\ \A i \in DOMAIN parked[e] : Unstarted(parked[e][i])
    /\ \A t \in Threads :
          /\ pc[t] \in {"check", "antecedent", "release"} => Unstarted(cur[t])
          /\ t \in Executors /\ pc[t] \in HandPcs => Unstarted(cur[t])
          /\ pc[t] = "run" => (dep[cur[t]] = None <=> Unstarted(cur[t]))
          /\ pc[t] \in {"release", "callback", "complete"} =>
                /\ res[t] \in Results
                /\ Unstarted(cur[t]) => res[t] = "CANCELLED"

-----------------------------------------------------------------------------
(* How the threads move *)

USE DEF Threads, FutureOrNone

LEMMA Distinct ==
    /\ None \notin Futures
    /\ \A w \in Workers : w \notin Executors /\ Home[w] \in Executors
    /\ IsFiniteSet(Workers)
BY ConstantsAssumption

\* Every thread is where it was, or a sleeping worker was woken.
Rests == \A u \in Threads :
            pc'[u] = pc[u] \/ (u \in Workers /\ pc[u] = "asleep" /\ pc'[u] = "idle")
\* So is every thread but t, which is at l.
Moves(t, l) ==
    /\ pc'[t] = l
    /\ \A u \in Threads \ {t} :
          pc'[u] = pc[u] \/ (u \in Workers /\ pc[u] = "asleep" /\ pc'[u] = "idle")

(* Whoever is woken, a thread that is awake moves where it means to. *)
LEMMA Moved ==
    ASSUME pc \in [Threads -> Pcs], NEW t \in Threads, NEW l \in Pcs, NEW e,
           pc[t] # "asleep",
           \/ Goto(t, l)
           \/ WakeOne(e, [pc EXCEPT ![t] = l])
           \/ pc' = WakeAll(e, [pc EXCEPT ![t] = l])
    PROVE  Moves(t, l) /\ pc' \in [Threads -> Pcs]
<1>1. "idle" \in Pcs BY DEF Pcs
<1>2. CASE Goto(t, l) BY <1>2 DEF Goto, Moves
<1>3. CASE WakeOne(e, [pc EXCEPT ![t] = l]) /\ Sleepers(e) = {}
  BY <1>3 DEF WakeOne, Moves
<1>4. CASE WakeOne(e, [pc EXCEPT ![t] = l]) /\ Sleepers(e) # {}
  <2>1. PICK w \in Sleepers(e) : pc' = [[pc EXCEPT ![t] = l] EXCEPT ![w] = "idle"]
    BY <1>4 DEF WakeOne
  <2>2. w \in Workers /\ pc[w] = "asleep" /\ w # t BY DEF Sleepers
  <2> QED BY <1>1, <2>1, <2>2 DEF Moves
<1>5. CASE pc' = WakeAll(e, [pc EXCEPT ![t] = l])
  <2>1. \A u \in Sleepers(e) : u \in Workers /\ pc[u] = "asleep" /\ u # t
    BY DEF Sleepers
  <2> QED BY <1>1, <1>5, <2>1 DEF WakeAll, Moves
<1> QED BY <1>2, <1>3, <1>4, <1>5

(* A step of the program wakes workers at most. *)
LEMMA Rested ==
    ASSUME pc \in [Threads -> Pcs], NEW e,
           pc' = pc \/ WakeOne(e, pc) \/ pc' = WakeAll(e, pc)
    PROVE  Rests /\ pc' \in [Threads -> Pcs]
<1>1. "idle" \in Pcs BY DEF Pcs
<1>2. CASE pc' = pc \/ (WakeOne(e, pc) /\ Sleepers(e) = {})
  BY <1>2 DEF WakeOne, Rests
<1>3. CASE WakeOne(e, pc) /\ Sleepers(e) # {}
  <2>1. PICK w \in Sleepers(e) : pc' = [pc EXCEPT ![w] = "idle"]
    BY <1>3 DEF WakeOne
  <2>2. w \in Workers /\ pc[w] = "asleep" BY DEF Sleepers
  <2> QED BY <1>1, <2>1, <2>2 DEF Rests
<1>4. CASE pc' = WakeAll(e, pc)
  <2>1. \A u \in Sleepers(e) : u \in Workers /\ pc[u] = "asleep"
    BY DEF Sleepers
  <2> QED BY <1>1, <1>4, <2>1 DEF WakeAll, Rests
<1> QED BY <1>2, <1>3, <1>4

(* From where to where each step takes its thread. *)
LEMMA WorkerPaths ==
    ASSUME TypeOK, NEW w \in Workers
    PROVE  /\ Pop(w) => pc[w] = "idle" /\ Moves(w, "check")
           /\ Wait(w) => pc[w] = "idle"
                /\ Moves(w, IF Stopping(Home[w]) THEN "exited" ELSE "asleep")
           /\ Check(w) => pc[w] = "check"
                /\ Moves(w, IF cancelled[cur[w]]
                            THEN IF holds[cur[w]] THEN "release" ELSE "callback"
                            ELSE IF dep[cur[w]] # None THEN "antecedent" ELSE "run")
           /\ ReadAntecedent(w) => pc[w] = "antecedent" /\ Moves(w, "run")
           /\ Run(w) => pc[w] = "run"
                /\ Moves(w, IF holds[cur[w]] THEN "release" ELSE "callback")
           /\ Publish(w) => pc[w] = "callback" /\ Moves(w, "complete")
           /\ PromoteEnd(w) => pc[w] = "promote" /\ Moves(w, "idle")
           /\ Pop(w) \/ Wait(w) \/ Check(w) \/ ReadAntecedent(w) \/ Run(w)
              \/ Publish(w) \/ PromoteEnd(w) => pc' \in [Threads -> Pcs]
<1> USE DEF TypeOK
<1>1. {"check", "exited", "asleep", "release", "callback", "antecedent", "run",
       "complete", "idle"} \subseteq Pcs
  BY DEF Pcs, CurrentPcs
<1>2. Pop(w) => pc[w] = "idle" /\ Moves(w, "check") /\ pc' \in [Threads -> Pcs]
  BY <1>1, Moved DEF Pop
<1>3. Wait(w) => /\ pc[w] = "idle" /\ pc' \in [Threads -> Pcs]
                 /\ Moves(w, IF Stopping(Home[w]) THEN "exited" ELSE "asleep")
  BY <1>1, Moved DEF Wait
<1>4. ASSUME Check(w)
      PROVE  /\ pc[w] = "check" /\ pc' \in [Threads -> Pcs]
             /\ Moves(w, IF cancelled[cur[w]]
                         THEN IF holds[cur[w]] THEN "release" ELSE "callback"
                         ELSE IF dep[cur[w]] # None THEN "antecedent" ELSE "run")
  <2>1. pc[w] = "check" BY <1>4 DEF Check
  <2>2. CASE cancelled[cur[w]]
    <3>1. Goto(w, IF holds[cur[w]] THEN "release" ELSE "callback")
      BY <1>4, <2>2 DEF Check, AfterTask
    <3> QED BY <1>1, <2>1, <2>2, <3>1, Moved
  <2>3. CASE ~cancelled[cur[w]]
    <3>1. Goto(w, IF dep[cur[w]] # None THEN "antecedent" ELSE "run")
      BY <1>4, <2>3 DEF Check
    <3> QED BY <1>1, <2>1, <2>3, <3>1, Moved
  <2> QED BY <2>2, <2>3
<1>5. ReadAntecedent(w) => pc[w] = "antecedent" /\ Moves(w, "run") /\ pc' \in [Threads -> Pcs]
  BY <1>1, Moved DEF ReadAntecedent
<1>6. Run(w) => /\ pc[w] = "run" /\ pc' \in [Threads -> Pcs]
                /\ Moves(w, IF holds[cur[w]] THEN "release" ELSE "callback")
  BY <1>1, Moved DEF Run, AfterTask
<1>7. Publish(w) => pc[w] = "callback" /\ Moves(w, "complete") /\ pc' \in [Threads -> Pcs]
  BY <1>1, Moved DEF Publish
<1>8. PromoteEnd(w) => pc[w] = "promote" /\ Moves(w, "idle") /\ pc' \in [Threads -> Pcs]
  BY <1>1, Moved DEF PromoteEnd
<1> QED BY <1>2, <1>3, <1>4, <1>5, <1>6, <1>7, <1>8

LEMMA SharedPaths ==
    ASSUME TypeOK, NEW t \in Threads
    PROVE  /\ Release(t) => pc[t] = "release"
                /\ Moves(t, IF t \in Workers THEN "callback" ELSE "complete")
           /\ DestructorCancels(t) \/ DestructorFrees(t) =>
                pc[t] = "callback" /\ pc' = pc
           /\ Complete(t) => pc[t] = "complete" /\ Moves(t, "wake")
           /\ Wake(t) => pc[t] = "wake"
                /\ Moves(t, IF t \in Workers THEN "promote" ELSE "collect")
           /\ PromoteNext(t) => pc[t] = "promote" /\ Moves(t, "push")
           /\ PromotePush(t) => pc[t] = "push" /\ Moves(t, "promote")
           /\ Shared(t) => pc' \in [Threads -> Pcs]
<1> USE DEF TypeOK
<1>1. {"callback", "complete", "wake", "promote", "collect", "push"} \subseteq Pcs
  BY DEF Pcs, CurrentPcs
<1>2. Release(t) => /\ pc[t] = "release" /\ pc' \in [Threads -> Pcs]
                    /\ Moves(t, IF t \in Workers THEN "callback" ELSE "complete")
  BY <1>1, Moved DEF Release
<1>3. DestructorCancels(t) \/ DestructorFrees(t) =>
          pc[t] = "callback" /\ pc' = pc
  BY DEF DestructorCancels, DestructorFrees, threadVars
<1>4. Complete(t) => pc[t] = "complete" /\ Moves(t, "wake") /\ pc' \in [Threads -> Pcs]
  BY <1>1, Moved DEF Complete
<1>5. Wake(t) => /\ pc[t] = "wake" /\ pc' \in [Threads -> Pcs]
                 /\ Moves(t, IF t \in Workers THEN "promote" ELSE "collect")
  <2> SUFFICES ASSUME Wake(t)
               PROVE  /\ pc[t] = "wake" /\ pc' \in [Threads -> Pcs]
                      /\ Moves(t, IF t \in Workers THEN "promote" ELSE "collect")
    OBVIOUS
  <2> DEFINE l == IF t \in Workers THEN "promote" ELSE "collect"
  <2>1. pc[t] = "wake" /\ pc' = WakeAll(home[cur[t]], [pc EXCEPT ![t] = l]) BY DEF Wake
  <2>2. l \in Pcs BY <1>1
  <2> HIDE DEF l
  <2>3. Moves(t, l) /\ pc' \in [Threads -> Pcs] BY <2>1, <2>2, Moved
  <2> QED BY <2>1, <2>3 DEF l
<1>6. PromoteNext(t) => pc[t] = "promote" /\ Moves(t, "push") /\ pc' \in [Threads -> Pcs]
  BY <1>1, Moved DEF PromoteNext
<1>7. PromotePush(t) => pc[t] = "push" /\ Moves(t, "promote") /\ pc' \in [Threads -> Pcs]
  <2> SUFFICES ASSUME PromotePush(t) PROVE pc[t] = "push" /\ Moves(t, "promote") /\ pc' \in [Threads -> Pcs]
    OBVIOUS
  <2>1. pc[t] = "push" BY DEF PromotePush
  <2>2. CASE Stopping(home[cur[t]])
    <3>1. Goto(t, "promote") BY <2>2 DEF PromotePush, Goto
    <3> QED BY <1>1, <2>1, <3>1, Moved
  <2>3. CASE ~Stopping(home[cur[t]])
    <3>1. WakeOne(home[cur[t]], [pc EXCEPT ![t] = "promote"])
      BY <2>3 DEF PromotePush
    <3> QED BY <1>1, <2>1, <3>1, Moved
  <2> QED BY <2>2, <2>3
<1> QED BY <1>2, <1>3, <1>4, <1>5, <1>6, <1>7 DEF Shared

LEMMA DestroyerPaths ==
    ASSUME TypeOK, NEW e \in Executors
    PROVE  /\ DestroyBegin(e) /\ pc[e] # "asleep" =>
                Moves(e, "next") /\ pc' \in [Threads -> Pcs]
           /\ DrainNext(e) => pc[e] = "next" /\ Moves(e, "callback")
           /\ DrainEnd(e) => pc[e] = "next" /\ Moves(e, "next")
           /\ Join(e) => pc' = pc
           /\ WalkNext(e) => pc[e] = "next" /\ Moves(e, "callback")
           /\ WalkEnd(e) => pc[e] = "next" /\ Moves(e, "promote")
           /\ Disposed(e) => pc[e] = "callback"
                /\ Moves(e, IF holds[cur[e]] THEN "release" ELSE "complete")
           /\ Collect(e) => pc[e] = "collect"
                /\ Moves(e, IF detached[e] = None THEN "next" ELSE "advance")
           /\ CollectTail(e) => pc[e] = "advance"
                /\ Moves(e, IF waiterNext[tail[e]] = None THEN "next" ELSE "advance")
           /\ DestroyEnd(e) => pc[e] = "promote" /\ Moves(e, "done")
           /\ DrainNext(e) \/ DrainEnd(e) \/ Join(e) \/ WalkNext(e) \/ WalkEnd(e)
              \/ Disposed(e) \/ Collect(e) \/ CollectTail(e) \/ DestroyEnd(e)
                => pc' \in [Threads -> Pcs]
<1> USE DEF TypeOK
<1>1. {"next", "callback", "promote", "release", "complete", "advance", "done"} \subseteq Pcs
  BY DEF Pcs, CurrentPcs
<1>2. DestroyBegin(e) /\ pc[e] # "asleep" =>
                Moves(e, "next") /\ pc' \in [Threads -> Pcs]
  BY <1>1, Moved DEF DestroyBegin
<1>3. DrainNext(e) => pc[e] = "next" /\ Moves(e, "callback") /\ pc' \in [Threads -> Pcs]
  BY <1>1, Moved DEF DrainNext
<1>4. DrainEnd(e) => pc[e] = "next" /\ Moves(e, "next") /\ pc' \in [Threads -> Pcs]
  <2> SUFFICES ASSUME DrainEnd(e)
               PROVE  pc[e] = "next" /\ Moves(e, "next") /\ pc' \in [Threads -> Pcs]
    OBVIOUS
  <2>1. pc[e] = "next" BY DEF DrainEnd
  <2>2. pc' = WakeAll(e, [pc EXCEPT ![e] = "next"]) BY <2>1 DEF DrainEnd, WakeAll
  <2>3. "next" \in Pcs /\ pc[e] # "asleep" BY <1>1, <2>1
  <2>4. Moves(e, "next") /\ pc' \in [Threads -> Pcs] BY ONLY <2>2, <2>3, Moved, TypeOK,
                                                        e \in Threads DEF TypeOK
  <2> QED BY <2>1, <2>4
<1>5. Join(e) => pc' = pc BY DEF Join, threadVars
<1>6. WalkNext(e) => pc[e] = "next" /\ Moves(e, "callback") /\ pc' \in [Threads -> Pcs]
  BY <1>1, Moved DEF WalkNext
<1>7. WalkEnd(e) => pc[e] = "next" /\ Moves(e, "promote") /\ pc' \in [Threads -> Pcs]
  BY <1>1, Moved DEF WalkEnd
<1>8. Disposed(e) => /\ pc[e] = "callback" /\ pc' \in [Threads -> Pcs]
                     /\ Moves(e, IF holds[cur[e]] THEN "release" ELSE "complete")
  BY <1>1, Moved DEF Disposed
<1>9. ASSUME Collect(e)
      PROVE  /\ pc[e] = "collect" /\ pc' \in [Threads -> Pcs]
             /\ Moves(e, IF detached[e] = None THEN "next" ELSE "advance")
  <2>1. pc[e] = "collect" BY <1>9 DEF Collect
  <2>2. Goto(e, IF detached[e] = None THEN "next" ELSE "advance") BY <1>9 DEF Collect
  <2> QED BY <1>1, <2>1, <2>2, Moved
<1>10. ASSUME CollectTail(e)
       PROVE  /\ pc[e] = "advance" /\ pc' \in [Threads -> Pcs]
              /\ Moves(e, IF waiterNext[tail[e]] = None THEN "next" ELSE "advance")
  <2>1. pc[e] = "advance" BY <1>10 DEF CollectTail
  <2>2. Goto(e, IF waiterNext[tail[e]] = None THEN "next" ELSE "advance")
    BY <1>10, <2>1 DEF CollectTail, Goto
  <2> QED BY <1>1, <2>1, <2>2, Moved
<1>11. DestroyEnd(e) => pc[e] = "promote" /\ Moves(e, "done") /\ pc' \in [Threads -> Pcs]
  BY <1>1, Moved DEF DestroyEnd
<1> QED BY <1>2, <1>3, <1>4, <1>5, <1>6, <1>7, <1>8, <1>9, <1>10, <1>11

-----------------------------------------------------------------------------
(* Types *)

Counters == [submitted : Nat, completed : Nat, cancelled : Nat, failed : Nat,
             running : Int]

LEMMA TypeInit == Init => TypeInv
<1> SUFFICES ASSUME Init PROVE TypeInv
  OBVIOUS
<1>1. TypeOK BY DEF Init, TypeOK, Phases, Pcs
<1>2. ControlInv
  BY DEF Init, ControlInv, WorkerPlace, DestroyerPlace, Carries, WorkerPcs, DestroyPcs,
         CarryPcs, HandPcs, CurrentPcs
<1>3. UsedInv BY DEF Init, UsedInv, Used
<1> QED BY <1>1, <1>2, <1>3 DEF TypeInv

(* The types of what the helpers return. *)
LEMMA Raised ==
    ASSUME NEW S, NEW g \in [S -> Nat], NEW x
    PROVE  [g EXCEPT ![x] = @ + 1] \in [S -> Nat]
<1>1. \A y \in S : g[y] \in Nat /\ g[y] + 1 \in Nat OBVIOUS
<1> QED BY <1>1

LEMMA CountedType ==
    ASSUME NEW s \in Counters, NEW r
    PROVE  /\ Counted(s, r) \in Counters
           /\ Counted(s, r).submitted = s.submitted
           /\ Counted(s, r).running = s.running
           /\ Counted(s, r).completed = s.completed + 1
<1> DEFINE s1 == [s EXCEPT !.completed = @ + 1]
           s2 == [s1 EXCEPT !.cancelled = IF r = "CANCELLED" THEN @ + 1 ELSE @]
           s3 == [s2 EXCEPT !.failed = IF r = "FAILED" THEN @ + 1 ELSE @]
           Good(x) == /\ x \in Counters /\ x.submitted = s.submitted
                      /\ x.running = s.running /\ x.completed = s.completed + 1
<1>1. Counted(s, r) = s3 BY Zenon DEF Counted
<1>2. Good(s1) BY DEF Counters
<1> HIDE DEF s1
<1>3. Good(s2) BY <1>2 DEF Counters
<1> HIDE DEF s2
<1>4. Good(s3) BY <1>3 DEF Counters
<1> HIDE DEF s3
<1> QED BY <1>1, <1>4

(* The counters move by one field. *)
LEMMA SubmittedType ==
    ASSUME NEW S, NEW g \in [S -> Counters], NEW e \in S
    PROVE  [g EXCEPT ![e].submitted = @ + 1] \in [S -> Counters]
<1>1. g[e] \in Counters OBVIOUS
<1>2. [g[e] EXCEPT !.submitted = @ + 1] \in Counters BY <1>1 DEF Counters
<1> QED BY <1>2

LEMMA StartedType ==
    ASSUME NEW S, NEW g \in [S -> Counters], NEW e \in S
    PROVE  [g EXCEPT ![e].running = @ + 1] \in [S -> Counters]
<1>1. g[e] \in Counters OBVIOUS
<1>2. [g[e] EXCEPT !.running = @ + 1] \in Counters BY <1>1 DEF Counters
<1> QED BY <1>2

LEMMA LoweredType ==
    ASSUME dependents \in [Futures -> Nat], NEW d
    PROVE  Lowered(d) \in [Futures -> Nat]
<1>1. \A n \in Nat : (IF n = 0 THEN 0 ELSE n - 1) \in Nat OBVIOUS
<1>2. d \in Futures => dependents[d] \in Nat OBVIOUS
<1> QED BY <1>1, <1>2 DEF Lowered

LEMMA ReleaseType ==
    ASSUME TypeOK, NEW f, ReleaseDependency(f)
    PROVE  holds' \in [Futures -> BOOLEAN] /\ dependents' \in [Futures -> Nat]
<1>1. dependents \in [Futures -> Nat] /\ holds \in [Futures -> BOOLEAN] BY DEF TypeOK
<1>2. Lowered(dep[f]) \in [Futures -> Nat] BY <1>1, LoweredType
<1>3. [holds EXCEPT ![f] = FALSE] \in [Futures -> BOOLEAN] BY <1>1
<1> QED BY <1>1, <1>2, <1>3 DEF ReleaseDependency

LEMMA UnregisteredType ==
    ASSUME parked \in [Executors -> Seq(Futures)], NEW e \in Executors, NEW f
    PROVE  Unregistered(e, f) \in Seq(Futures)
<1> DEFINE s == parked[e]
           i == CHOOSE j \in DOMAIN s : s[j] = f
           r == [j \in 1 .. Len(s) - 1 |-> IF j < i THEN s[j] ELSE s[j + 1]]
<1>1. s \in Seq(Futures) OBVIOUS
<1>2. Len(s) \in Nat /\ DOMAIN s = 1 .. Len(s) /\ \A j \in 1 .. Len(s) : s[j] \in Futures
  BY <1>1
<1>3. \A j \in 1 .. Len(s) - 1 : j \in 1 .. Len(s) /\ j + 1 \in 1 .. Len(s) BY <1>2
<1> HIDE DEF i, s
<1>4. r \in [1 .. Len(s) - 1 -> Futures] BY <1>2, <1>3
<1>5. CASE Len(s) = 0
  <2>1. r = << >> BY <1>5
  <2> QED BY <2>1 DEF Unregistered, s, i
<1>6. CASE Len(s) # 0
  <2>1. Len(s) - 1 \in Nat BY <1>2, <1>6
  <2>2. r \in Seq(Futures) BY <1>4, <2>1
  <2> QED BY <2>2 DEF Unregistered, s, i
<1> QED BY <1>5, <1>6

LEMMA WorkerTypes ==
    ASSUME TypeInv, NEW w \in Workers,
           Pop(w) \/ Wait(w) \/ Check(w) \/ ReadAntecedent(w) \/ Run(w) \/ Publish(w)
           \/ PromoteEnd(w)
    PROVE  TypeOK'
<1>0. pc' \in [Threads -> Pcs] BY WorkerPaths DEF TypeInv, Shared
<1>1. CASE Pop(w)
  <2>1. /\ heap \in [Executors -> SUBSET Futures]
       /\ pending \in [Executors -> Nat]
       /\ stats \in [Executors -> Counters]
       /\ cur \in [Threads -> FutureOrNone]
    BY DEF TypeInv, TypeOK, Counters
  <2>2. heap' \in [Executors -> SUBSET Futures]
    <3>1. Home[w] \in Executors BY Distinct
    <3> QED BY <1>1, <2>1, <3>1 DEF Pop
  <2>3. cur' \in [Threads -> FutureOrNone]
    <3>1. PICK f \in heap[Home[w]] : cur' = [cur EXCEPT ![w] = f] BY <1>1 DEF Pop
    <3>2. f \in Futures BY <2>1, Distinct
    <3> QED BY <2>1, <3>1, <3>2
  <2>4. stats' \in [Executors -> Counters]
    <3>1. stats' = [stats EXCEPT ![Home[w]].running = @ + 1] BY <1>1 DEF Pop
    <3>2. Home[w] \in Executors BY Distinct
    <3> QED BY <2>1, <3>1, <3>2, StartedType
  <2>5. pending' \in [Executors -> Nat]
    <3>1. pending' = [pending EXCEPT ![Home[w]] = IF @ = 0 THEN 0 ELSE @ - 1]
      BY <1>1 DEF Pop
    <3>2. \A y \in Executors : (IF pending[y] = 0 THEN 0 ELSE pending[y] - 1) \in Nat BY <2>1
    <3> QED BY <2>1, <3>1, <3>2
  <2>6. UNCHANGED <<alloc, home, dep, holds, dependents, ready, result, value,
                    cancelled, sequence, waitingHead, waiterNext, phase, held, parked,
                    res, detached, chain, tail, heard, runs, disposals>>
    BY <1>1 DEF Pop, futureVars, linkVars, executorVars, threadVars, historyVars
  <2> QED BY <2>2, <2>3, <2>4, <2>5, <2>6, <1>0 DEF TypeInv, TypeOK, Counters
<1>2. CASE Wait(w)
  <2>1. UNCHANGED <<alloc, home, dep, holds, dependents, ready, result, value,
                    cancelled, sequence, waitingHead, waiterNext, phase, held, heap,
                    parked, pending, stats, cur, res, detached, chain, tail, heard,
                    runs, disposals>>
    BY <1>2 DEF Wait, futureVars, linkVars, executorVars, threadVars, historyVars
  <2> QED BY <2>1, <1>0 DEF TypeInv, TypeOK, Counters
<1>3. CASE Check(w)
  <2>1. /\ dep \in [Futures -> FutureOrNone]
       /\ holds \in [Futures -> BOOLEAN]
       /\ cancelled \in [Futures -> BOOLEAN]
       /\ res \in [Threads -> Results \cup {"BUSY"}]
    BY DEF TypeInv, TypeOK, Counters
  <2>2. res' \in [Threads -> Results \cup {"BUSY"}]
    BY <1>3, <2>1 DEF Check, Results
  <2>3. UNCHANGED <<alloc, home, dep, holds, dependents, ready, result, value,
                    cancelled, sequence, waitingHead, waiterNext, phase, held, heap,
                    parked, pending, stats, cur, detached, chain, tail, heard, runs,
                    disposals>>
    BY <1>3 DEF Check, futureVars, linkVars, executorVars, threadVars, historyVars
  <2> QED BY <2>2, <2>3, <1>0 DEF TypeInv, TypeOK, Counters
<1>4. CASE ReadAntecedent(w)
  <2>1. /\ dep \in [Futures -> FutureOrNone]
       /\ holds \in [Futures -> BOOLEAN]
       /\ dependents \in [Futures -> Nat]
       /\ ready \in [Futures -> BOOLEAN]
       /\ result \in [Futures -> Results \cup {"BUSY"}]
       /\ cur \in [Threads -> FutureOrNone]
       /\ heard \in [Futures -> Results \cup {"BUSY"}]
    BY DEF TypeInv, TypeOK, Counters
  <2>2. heard' \in [Futures -> Results \cup {"BUSY"}]
    <3>1. heard' = [heard EXCEPT ![cur[w]] = result[dep[cur[w]]]] /\ dep[cur[w]] \in Futures
      BY <1>4, <2>1 DEF ReadAntecedent, TypeInv, ControlInv, Carries, CarryPcs, HandPcs,
                        CurrentPcs
    <3> QED BY <2>1, <3>1
  <2>3. holds' \in [Futures -> BOOLEAN]
    BY <1>4, ReleaseType DEF ReadAntecedent, TypeInv
  <2>4. dependents' \in [Futures -> Nat]
    BY <1>4, ReleaseType DEF ReadAntecedent, TypeInv
  <2>5. UNCHANGED <<alloc, home, dep, ready, result, value, cancelled, sequence,
                    waitingHead, waiterNext, phase, held, heap, parked, pending, stats,
                    cur, res, detached, chain, tail, runs, disposals>>
    BY <1>4 DEF ReadAntecedent, futureVars, linkVars, executorVars, threadVars, historyVars,
                ReleaseDependency
  <2> QED BY <2>2, <2>3, <2>4, <2>5, <1>0 DEF TypeInv, TypeOK, Counters
<1>5. CASE Run(w)
  <2>1. /\ cancelled \in [Futures -> BOOLEAN]
       /\ cur \in [Threads -> FutureOrNone]
       /\ res \in [Threads -> Results \cup {"BUSY"}]
       /\ runs \in [Futures -> Nat]
    BY DEF TypeInv, TypeOK, Counters
  <2>2. res' \in [Threads -> Results \cup {"BUSY"}]
    <3>1. PICK r \in Outcomes : res' = [res EXCEPT ![w] = r] BY <1>5 DEF Run
    <3>2. r \in Results BY ConstantsAssumption
    <3> QED BY <2>1, <3>1, <3>2
  <2>3. runs' \in [Futures -> Nat]
    <3>1. runs' = [runs EXCEPT ![cur[w]] = @ + 1] BY <1>5 DEF Run
    <3> QED BY <2>1, <3>1, Raised
  <2>4. UNCHANGED <<alloc, home, dep, holds, dependents, ready, result, value,
                    cancelled, sequence, waitingHead, waiterNext, phase, held, heap,
                    parked, pending, stats, cur, detached, chain, tail, heard,
                    disposals>>
    BY <1>5 DEF Run, futureVars, linkVars, executorVars, threadVars, historyVars
  <2> QED BY <2>2, <2>3, <2>4, <1>0 DEF TypeInv, TypeOK, Counters
<1>6. CASE Publish(w)
  <2>1. /\ stats \in [Executors -> Counters]
       /\ cur \in [Threads -> FutureOrNone]
       /\ res \in [Threads -> Results \cup {"BUSY"}]
       /\ disposals \in [Futures -> Nat]
    BY DEF TypeInv, TypeOK, Counters
  <2>2. stats' \in [Executors -> Counters]
    <3> DEFINE s == Counted(stats[Home[w]], res[w])
    <3>1. stats' = [stats EXCEPT ![Home[w]] = [s EXCEPT !.running = @ - 1]]
      BY <1>6 DEF Publish
    <3>2. s \in Counters BY <2>1, CountedType, Distinct
    <3> HIDE DEF s
    <3>3. [s EXCEPT !.running = @ - 1] \in Counters BY <3>2 DEF Counters
    <3> QED BY <2>1, <3>1, <3>3
  <2>3. disposals' \in [Futures -> Nat]
    <3>1. disposals' = [disposals EXCEPT ![cur[w]] = @ + 1]
      BY <1>6 DEF Publish, DestructorReturned
    <3> QED BY <2>1, <3>1, Raised
  <2>4. UNCHANGED <<alloc, home, dep, holds, dependents, ready, result, value,
                    cancelled, sequence, waitingHead, waiterNext, phase, held, heap,
                    parked, pending, cur, res, detached, chain, tail, heard, runs>>
    BY <1>6 DEF Publish, futureVars, linkVars, executorVars, threadVars, historyVars,
                DestructorReturned
  <2> QED BY <2>2, <2>3, <2>4, <1>0 DEF TypeInv, TypeOK, Counters
<1>7. CASE PromoteEnd(w)
  <2>1. UNCHANGED <<alloc, home, dep, holds, dependents, ready, result, value,
                    cancelled, sequence, waitingHead, waiterNext, phase, held, heap,
                    parked, pending, stats, cur, res, detached, chain, tail, heard,
                    runs, disposals>>
    BY <1>7 DEF PromoteEnd, futureVars, linkVars, executorVars, threadVars, historyVars
  <2> QED BY <2>1, <1>0 DEF TypeInv, TypeOK, Counters
<1> QED BY <1>1, <1>2, <1>3, <1>4, <1>5, <1>6, <1>7

LEMMA SharedTypes ==
    ASSUME TypeInv, NEW t \in Threads,
           Release(t) \/ DestructorCancels(t) \/ DestructorFrees(t) \/ Complete(t)
           \/ Wake(t) \/ PromoteNext(t) \/ PromotePush(t)
    PROVE  TypeOK'
<1>0. pc' \in [Threads -> Pcs] BY SharedPaths DEF TypeInv, Shared
<1>1. CASE Release(t)
  <2>1. /\ dep \in [Futures -> FutureOrNone]
       /\ holds \in [Futures -> BOOLEAN]
       /\ dependents \in [Futures -> Nat]
       /\ cur \in [Threads -> FutureOrNone]
    BY DEF TypeInv, TypeOK, Counters
  <2>2. holds' \in [Futures -> BOOLEAN]
    BY <1>1, ReleaseType DEF Release, TypeInv
  <2>3. dependents' \in [Futures -> Nat]
    BY <1>1, ReleaseType DEF Release, TypeInv
  <2>4. UNCHANGED <<alloc, home, dep, ready, result, value, cancelled, sequence,
                    waitingHead, waiterNext, phase, held, heap, parked, pending, stats,
                    cur, res, detached, chain, tail, heard, runs, disposals>>
    BY <1>1 DEF Release, futureVars, linkVars, executorVars, threadVars, historyVars,
                ReleaseDependency
  <2> QED BY <2>2, <2>3, <2>4, <1>0 DEF TypeInv, TypeOK, Counters
<1>2. CASE DestructorCancels(t)
  <2>1. /\ cancelled \in [Futures -> BOOLEAN]
       /\ cur \in [Threads -> FutureOrNone]
    BY DEF TypeInv, TypeOK, Counters
  <2>2. cancelled' \in [Futures -> BOOLEAN]
    BY <1>2, <2>1 DEF DestructorCancels
  <2>3. UNCHANGED <<alloc, home, dep, holds, dependents, ready, result, value, sequence,
                    waitingHead, waiterNext, phase, held, heap, parked, pending, stats,
                    pc, cur, res, detached, chain, tail, heard, runs, disposals>>
    BY <1>2 DEF DestructorCancels, futureVars, linkVars, executorVars, threadVars, historyVars
  <2> QED BY <2>2, <2>3 DEF TypeInv, TypeOK, Counters
<1>3. CASE DestructorFrees(t)
  <2>1. /\ alloc \in [Futures -> {"unused", "live", "closing", "freed"}]
       /\ value \in [Futures -> {"none", "held", "taken", "destroyed"}]
       /\ cur \in [Threads -> FutureOrNone]
    BY DEF TypeInv, TypeOK, Counters
  <2>2. alloc' \in [Futures -> {"unused", "live", "closing", "freed"}]
    BY <1>3, <2>1 DEF DestructorFrees
  <2>3. value' \in [Futures -> {"none", "held", "taken", "destroyed"}]
    BY <1>3, <2>1 DEF DestructorFrees
  <2>4. UNCHANGED <<home, dep, holds, dependents, ready, result, cancelled, sequence,
                    waitingHead, waiterNext, phase, held, heap, parked, pending, stats,
                    pc, cur, res, detached, chain, tail, heard, runs, disposals>>
    BY <1>3 DEF DestructorFrees, futureVars, linkVars, executorVars, threadVars, historyVars
  <2> QED BY <2>2, <2>3, <2>4 DEF TypeInv, TypeOK, Counters
<1>4. CASE Complete(t)
  <2>1. /\ ready \in [Futures -> BOOLEAN]
       /\ result \in [Futures -> Results \cup {"BUSY"}]
       /\ value \in [Futures -> {"none", "held", "taken", "destroyed"}]
       /\ waitingHead \in [Futures -> FutureOrNone]
       /\ cur \in [Threads -> FutureOrNone]
       /\ res \in [Threads -> Results \cup {"BUSY"}]
       /\ detached \in [Threads -> FutureOrNone]
    BY DEF TypeInv, TypeOK, Counters
  <2>2. result' \in [Futures -> Results \cup {"BUSY"}]
    BY <1>4, <2>1 DEF Complete
  <2>3. value' \in [Futures -> {"none", "held", "taken", "destroyed"}]
    <3>1. value' = [value EXCEPT ![cur[t]] = IF res[t] = "OK" THEN "held" ELSE "none"]
      BY <1>4 DEF Complete
    <3> QED BY <2>1, <3>1
  <2>4. ready' \in [Futures -> BOOLEAN]
    BY <1>4, <2>1 DEF Complete
  <2>5. detached' \in [Threads -> FutureOrNone]
    <3>1. detached' = [detached EXCEPT ![t] = waitingHead[cur[t]]] BY <1>4 DEF Complete
    <3>2. cur[t] \in Futures
      BY <1>4 DEF Complete, TypeInv, ControlInv, Carries, CarryPcs, HandPcs
    <3> QED BY <2>1, <3>1, <3>2
  <2>6. waitingHead' \in [Futures -> FutureOrNone]
    BY <1>4, <2>1 DEF Complete
  <2>7. UNCHANGED <<alloc, home, dep, holds, dependents, cancelled, sequence,
                    waiterNext, phase, held, heap, parked, pending, stats, cur, res,
                    chain, tail, heard, runs, disposals>>
    BY <1>4 DEF Complete, futureVars, linkVars, executorVars, threadVars, historyVars
  <2> QED BY <2>2, <2>3, <2>4, <2>5, <2>6, <2>7, <1>0 DEF TypeInv, TypeOK, Counters
<1>5. CASE Wake(t)
  <2>1. /\ cur \in [Threads -> FutureOrNone]
       /\ res \in [Threads -> Results \cup {"BUSY"}]
       /\ detached \in [Threads -> FutureOrNone]
       /\ chain \in [Threads -> FutureOrNone]
    BY DEF TypeInv, TypeOK, Counters
  <2>2. chain' \in [Threads -> FutureOrNone]
    BY <1>5, <2>1 DEF Wake
  <2>3. detached' \in [Threads -> FutureOrNone]
    BY <1>5, <2>1 DEF Wake
  <2>4. cur' \in [Threads -> FutureOrNone]
    BY <1>5, <2>1 DEF Wake
  <2>5. res' \in [Threads -> Results \cup {"BUSY"}]
    BY <1>5, <2>1 DEF Wake
  <2>6. UNCHANGED <<alloc, home, dep, holds, dependents, ready, result, value,
                    cancelled, sequence, waitingHead, waiterNext, phase, held, heap,
                    parked, pending, stats, tail, heard, runs, disposals>>
    BY <1>5 DEF Wake, futureVars, linkVars, executorVars, threadVars, historyVars
  <2> QED BY <2>2, <2>3, <2>4, <2>5, <2>6, <1>0 DEF TypeInv, TypeOK, Counters
<1>6. CASE PromoteNext(t)
  <2>1. /\ waiterNext \in [Futures -> FutureOrNone]
       /\ cur \in [Threads -> FutureOrNone]
       /\ chain \in [Threads -> FutureOrNone]
    BY DEF TypeInv, TypeOK, Counters
  <2>2. cur' \in [Threads -> FutureOrNone]
    BY <1>6, <2>1 DEF PromoteNext
  <2>3. chain' \in [Threads -> FutureOrNone]
    BY <1>6, <2>1 DEF PromoteNext
  <2>4. waiterNext' \in [Futures -> FutureOrNone]
    BY <1>6, <2>1 DEF PromoteNext
  <2>5. UNCHANGED <<alloc, home, dep, holds, dependents, ready, result, value,
                    cancelled, sequence, waitingHead, phase, held, heap, parked,
                    pending, stats, res, detached, tail, heard, runs, disposals>>
    BY <1>6 DEF PromoteNext, futureVars, linkVars, executorVars, threadVars, historyVars
  <2> QED BY <2>2, <2>3, <2>4, <2>5, <1>0 DEF TypeInv, TypeOK, Counters
<1>7. CASE PromotePush(t)
  <2>1. /\ home \in [Futures -> Executors \cup {None}]
       /\ phase \in [Executors -> Phases]
       /\ heap \in [Executors -> SUBSET Futures]
       /\ parked \in [Executors -> Seq(Futures)]
       /\ cur \in [Threads -> FutureOrNone]
    BY DEF TypeInv, TypeOK, Counters
  <2>2. parked' \in [Executors -> Seq(Futures)]
    <3>1. \/ parked' = parked
          \/ parked' = [parked EXCEPT ![home[cur[t]]] = Unregistered(home[cur[t]], cur[t])]
      BY <1>7 DEF PromotePush
    <3>2. home[cur[t]] \in Executors => Unregistered(home[cur[t]], cur[t]) \in Seq(Futures)
      BY <2>1, UnregisteredType
    <3> QED BY <2>1, <3>1, <3>2
  <2>3. heap' \in [Executors -> SUBSET Futures]
    <3>1. pc[t] = "push" BY <1>7 DEF PromotePush
    <3>2. cur[t] \in Futures BY <3>1 DEF TypeInv, ControlInv, Carries, CarryPcs
    <3>3. heap' = heap \/ heap' = [heap EXCEPT ![home[cur[t]]] = @ \cup {cur[t]}]
      BY <1>7 DEF PromotePush
    <3> QED BY <2>1, <3>2, <3>3
  <2>4. cur' \in [Threads -> FutureOrNone]
    BY <1>7, <2>1 DEF PromotePush, Unregistered
  <2>5. UNCHANGED <<alloc, home, dep, holds, dependents, ready, result, value,
                    cancelled, sequence, waitingHead, waiterNext, phase, held, pending,
                    stats, res, detached, chain, tail, heard, runs, disposals>>
    BY <1>7 DEF PromotePush, futureVars, linkVars, executorVars, threadVars, historyVars
  <2> QED BY <2>2, <2>3, <2>4, <2>5, <1>0 DEF TypeInv, TypeOK, Counters
<1> QED BY <1>1, <1>2, <1>3, <1>4, <1>5, <1>6, <1>7

LEMMA DestroyerTypes ==
    ASSUME TypeInv, NEW e \in Executors,
           DrainNext(e) \/ DrainEnd(e) \/ Join(e) \/ WalkNext(e) \/ WalkEnd(e)
           \/ Disposed(e) \/ Collect(e) \/ CollectTail(e) \/ DestroyEnd(e)
    PROVE  TypeOK'
<1>0. pc' \in [Threads -> Pcs] BY DestroyerPaths DEF TypeInv, Shared
<1>1. CASE DrainNext(e)
  <2>1. /\ heap \in [Executors -> SUBSET Futures]
       /\ cur \in [Threads -> FutureOrNone]
       /\ res \in [Threads -> Results \cup {"BUSY"}]
    BY DEF TypeInv, TypeOK, Counters
  <2>2. heap' \in [Executors -> SUBSET Futures]
    BY <1>1, <2>1 DEF DrainNext, Results
  <2>3. cur' \in [Threads -> FutureOrNone]
    BY <1>1, <2>1 DEF DrainNext, Results
  <2>4. res' \in [Threads -> Results \cup {"BUSY"}]
    BY <1>1, <2>1 DEF DrainNext, Results
  <2>5. UNCHANGED <<alloc, home, dep, holds, dependents, ready, result, value,
                    cancelled, sequence, waitingHead, waiterNext, phase, held, parked,
                    pending, stats, detached, chain, tail, heard, runs, disposals>>
    BY <1>1 DEF DrainNext, futureVars, linkVars, executorVars, threadVars, historyVars
  <2> QED BY <2>2, <2>3, <2>4, <2>5, <1>0 DEF TypeInv, TypeOK, Counters
<1>2. CASE DrainEnd(e)
  <2>1. /\ phase \in [Executors -> Phases]
       /\ held \in [Executors -> BOOLEAN]
    BY DEF TypeInv, TypeOK, Counters
  <2>2. phase' \in [Executors -> Phases]
    BY <1>2, <2>1 DEF DrainEnd, Phases
  <2>3. held' \in [Executors -> BOOLEAN]
    BY <1>2, <2>1 DEF DrainEnd, Phases
  <2>4. UNCHANGED <<alloc, home, dep, holds, dependents, ready, result, value,
                    cancelled, sequence, waitingHead, waiterNext, heap, parked, pending,
                    stats, cur, res, detached, chain, tail, heard, runs, disposals>>
    BY <1>2 DEF DrainEnd, futureVars, linkVars, executorVars, threadVars, historyVars
  <2> QED BY <2>2, <2>3, <2>4, <1>0 DEF TypeInv, TypeOK, Counters
<1>3. CASE Join(e)
  <2>1. /\ phase \in [Executors -> Phases]
       /\ held \in [Executors -> BOOLEAN]
    BY DEF TypeInv, TypeOK, Counters
  <2>2. phase' \in [Executors -> Phases]
    BY <1>3, <2>1 DEF Join, Phases
  <2>3. held' \in [Executors -> BOOLEAN]
    BY <1>3, <2>1 DEF Join, Phases
  <2>4. UNCHANGED <<alloc, home, dep, holds, dependents, ready, result, value,
                    cancelled, sequence, waitingHead, waiterNext, heap, parked, pending,
                    stats, pc, cur, res, detached, chain, tail, heard, runs, disposals>>
    BY <1>3 DEF Join, futureVars, linkVars, executorVars, threadVars, historyVars
  <2> QED BY <2>2, <2>3, <2>4 DEF TypeInv, TypeOK, Counters
<1>4. CASE WalkNext(e)
  <2>1. /\ dep \in [Futures -> FutureOrNone]
       /\ holds \in [Futures -> BOOLEAN]
       /\ cancelled \in [Futures -> BOOLEAN]
       /\ waitingHead \in [Futures -> FutureOrNone]
       /\ waiterNext \in [Futures -> FutureOrNone]
       /\ parked \in [Executors -> Seq(Futures)]
       /\ cur \in [Threads -> FutureOrNone]
       /\ res \in [Threads -> Results \cup {"BUSY"}]
    BY DEF TypeInv, TypeOK, Counters
  <2>2. waitingHead' \in [Futures -> FutureOrNone]
    BY <1>4, <2>1 DEF WalkNext, Unlinked, Results
  <2>3. waiterNext' \in [Futures -> FutureOrNone]
    <3> DEFINE f == Head(parked[e])
    <3>1. waiterNext' = [Unlinked(f)[2] EXCEPT ![f] = None] BY <1>4 DEF WalkNext
    <3>2. Unlinked(f)[2] \in [Futures -> FutureOrNone]
      <4>1. f \in Futures BY <1>4, <2>1 DEF WalkNext
      <4> HIDE DEF f
      <4> QED BY <2>1, <4>1 DEF Unlinked
    <3> HIDE DEF f
    <3> QED BY <3>1, <3>2
  <2>4. cancelled' \in [Futures -> BOOLEAN]
    BY <1>4, <2>1 DEF WalkNext, Unlinked, Results
  <2>5. cur' \in [Threads -> FutureOrNone]
    BY <1>4, <2>1 DEF WalkNext, Unlinked, Results
  <2>6. parked' \in [Executors -> Seq(Futures)]
    BY <1>4, <2>1 DEF WalkNext, Unlinked, Results
  <2>7. res' \in [Threads -> Results \cup {"BUSY"}]
    BY <1>4, <2>1 DEF WalkNext, Unlinked, Results
  <2>8. UNCHANGED <<alloc, home, dep, holds, dependents, ready, result, value, sequence,
                    phase, held, heap, pending, stats, detached, chain, tail, heard,
                    runs, disposals>>
    BY <1>4 DEF WalkNext, futureVars, linkVars, executorVars, threadVars, historyVars
  <2> QED BY <2>2, <2>3, <2>4, <2>5, <2>6, <2>7, <2>8, <1>0 DEF TypeInv, TypeOK, Counters
<1>5. CASE WalkEnd(e)
  <2>1. /\ phase \in [Executors -> Phases]
       /\ held \in [Executors -> BOOLEAN]
    BY DEF TypeInv, TypeOK, Counters
  <2>2. phase' \in [Executors -> Phases]
    BY <1>5, <2>1 DEF WalkEnd, Phases
  <2>3. held' \in [Executors -> BOOLEAN]
    BY <1>5, <2>1 DEF WalkEnd, Phases
  <2>4. UNCHANGED <<alloc, home, dep, holds, dependents, ready, result, value,
                    cancelled, sequence, waitingHead, waiterNext, heap, parked, pending,
                    stats, cur, res, detached, chain, tail, heard, runs, disposals>>
    BY <1>5 DEF WalkEnd, futureVars, linkVars, executorVars, threadVars, historyVars
  <2> QED BY <2>2, <2>3, <2>4, <1>0 DEF TypeInv, TypeOK, Counters
<1>6. CASE Disposed(e)
  <2>1. /\ cur \in [Threads -> FutureOrNone]
       /\ disposals \in [Futures -> Nat]
    BY DEF TypeInv, TypeOK, Counters
  <2>2. disposals' \in [Futures -> Nat]
    <3>1. disposals' = [disposals EXCEPT ![cur[e]] = @ + 1]
      BY <1>6 DEF Disposed, DestructorReturned
    <3> QED BY <2>1, <3>1, Raised
  <2>3. UNCHANGED <<alloc, home, dep, holds, dependents, ready, result, value,
                    cancelled, sequence, waitingHead, waiterNext, phase, held, heap,
                    parked, pending, stats, cur, res, detached, chain, tail, heard,
                    runs>>
    BY <1>6 DEF Disposed, futureVars, linkVars, executorVars, threadVars, historyVars,
                DestructorReturned
  <2> QED BY <2>2, <2>3, <1>0 DEF TypeInv, TypeOK, Counters
<1>7. CASE Collect(e)
  <2>1. /\ waiterNext \in [Futures -> FutureOrNone]
       /\ stats \in [Executors -> Counters]
       /\ detached \in [Threads -> FutureOrNone]
       /\ chain \in [Threads -> FutureOrNone]
       /\ tail \in [Executors -> FutureOrNone]
    BY DEF TypeInv, TypeOK, Counters
  <2>2. stats' \in [Executors -> Counters]
    <3> DEFINE s == Counted(stats[e], "CANCELLED")
    <3>1. stats' = [stats EXCEPT ![e] = s] BY <1>7 DEF Collect
    <3>2. s \in Counters BY <2>1, CountedType
    <3> QED BY <2>1, <3>1, <3>2
  <2>3. detached' \in [Threads -> FutureOrNone]
    BY <1>7, <2>1 DEF Collect, Counted, Counters
  <2>4. waiterNext' \in [Futures -> FutureOrNone]
    BY <1>7, <2>1 DEF Collect, Counted, Counters
  <2>5. chain' \in [Threads -> FutureOrNone]
    BY <1>7, <2>1 DEF Collect, Counted, Counters
  <2>6. tail' \in [Executors -> FutureOrNone]
    BY <1>7, <2>1 DEF Collect, Counted, Counters
  <2>7. UNCHANGED <<alloc, home, dep, holds, dependents, ready, result, value,
                    cancelled, sequence, waitingHead, phase, held, heap, parked,
                    pending, cur, res, heard, runs, disposals>>
    BY <1>7 DEF Collect, futureVars, linkVars, executorVars, threadVars, historyVars
  <2> QED BY <2>2, <2>3, <2>4, <2>5, <2>6, <2>7, <1>0 DEF TypeInv, TypeOK, Counters
<1>8. CASE CollectTail(e)
  <2>1. /\ waiterNext \in [Futures -> FutureOrNone]
       /\ tail \in [Executors -> FutureOrNone]
    BY DEF TypeInv, TypeOK, Counters
  <2>2. tail' \in [Executors -> FutureOrNone]
    <3>1. tail' = tail \/ tail' = [tail EXCEPT ![e] = waiterNext[tail[e]]]
      BY <1>8 DEF CollectTail
    <3>2. tail[e] \in Futures
      BY <1>8, <2>1 DEF CollectTail, TypeInv, ControlInv, DestroyerPlace
    <3> QED BY <2>1, <3>1, <3>2
  <2>3. UNCHANGED <<alloc, home, dep, holds, dependents, ready, result, value,
                    cancelled, sequence, waitingHead, waiterNext, phase, held, heap,
                    parked, pending, stats, cur, res, detached, chain, heard, runs,
                    disposals>>
    BY <1>8 DEF CollectTail, futureVars, linkVars, executorVars, threadVars, historyVars
  <2> QED BY <2>2, <2>3, <1>0 DEF TypeInv, TypeOK, Counters
<1>9. CASE DestroyEnd(e)
  <2>1. /\ phase \in [Executors -> Phases]
       /\ tail \in [Executors -> FutureOrNone]
    BY DEF TypeInv, TypeOK, Counters
  <2>2. phase' \in [Executors -> Phases]
    BY <1>9, <2>1 DEF DestroyEnd, Phases
  <2>3. tail' \in [Executors -> FutureOrNone]
    BY <1>9, <2>1 DEF DestroyEnd, Phases
  <2>4. UNCHANGED <<alloc, home, dep, holds, dependents, ready, result, value,
                    cancelled, sequence, waitingHead, waiterNext, held, heap, parked,
                    pending, stats, cur, res, detached, chain, heard, runs, disposals>>
    BY <1>9 DEF DestroyEnd, futureVars, linkVars, executorVars, threadVars, historyVars
  <2> QED BY <2>2, <2>3, <2>4, <1>0 DEF TypeInv, TypeOK, Counters
<1> QED BY <1>1, <1>2, <1>3, <1>4, <1>5, <1>6, <1>7, <1>8, <1>9

LEMMA FutureTypes ==
    ASSUME TypeInv, NEW f \in Futures,
           Cancel(f) \/ TakeValue(f) \/ BeginFree(f) \/ EndFree(f)
    PROVE  TypeOK'
<1>0. pc' \in [Threads -> Pcs] BY Rested DEF TypeInv, TypeOK, Shared, Cancel, TakeValue,
                                             BeginFree, EndFree, threadVars
<1>1. CASE Cancel(f)
  <2>1. cancelled \in [Futures -> BOOLEAN]
    BY DEF TypeInv, TypeOK, Counters
  <2>2. cancelled' \in [Futures -> BOOLEAN]
    BY <1>1, <2>1 DEF Cancel
  <2>3. UNCHANGED <<alloc, home, dep, holds, dependents, ready, result, value, sequence,
                    waitingHead, waiterNext, phase, held, heap, parked, pending, stats,
                    pc, cur, res, detached, chain, tail, heard, runs, disposals>>
    BY <1>1 DEF Cancel, futureVars, linkVars, executorVars, threadVars, historyVars
  <2> QED BY <2>2, <2>3 DEF TypeInv, TypeOK, Counters
<1>2. CASE TakeValue(f)
  <2>1. value \in [Futures -> {"none", "held", "taken", "destroyed"}]
    BY DEF TypeInv, TypeOK, Counters
  <2>2. value' \in [Futures -> {"none", "held", "taken", "destroyed"}]
    BY <1>2, <2>1 DEF TakeValue
  <2>3. UNCHANGED <<alloc, home, dep, holds, dependents, ready, result, cancelled,
                    sequence, waitingHead, waiterNext, phase, held, heap, parked,
                    pending, stats, pc, cur, res, detached, chain, tail, heard, runs,
                    disposals>>
    BY <1>2 DEF TakeValue, futureVars, linkVars, executorVars, threadVars, historyVars
  <2> QED BY <2>2, <2>3 DEF TypeInv, TypeOK, Counters
<1>3. CASE BeginFree(f)
  <2>1. /\ alloc \in [Futures -> {"unused", "live", "closing", "freed"}]
       /\ cancelled \in [Futures -> BOOLEAN]
    BY DEF TypeInv, TypeOK, Counters
  <2>2. alloc' \in [Futures -> {"unused", "live", "closing", "freed"}]
    BY <1>3, <2>1 DEF BeginFree
  <2>3. cancelled' \in [Futures -> BOOLEAN]
    BY <1>3, <2>1 DEF BeginFree
  <2>4. UNCHANGED <<home, dep, holds, dependents, ready, result, value, sequence,
                    waitingHead, waiterNext, phase, held, heap, parked, pending, stats,
                    pc, cur, res, detached, chain, tail, heard, runs, disposals>>
    BY <1>3 DEF BeginFree, futureVars, linkVars, executorVars, threadVars, historyVars
  <2> QED BY <2>2, <2>3, <2>4 DEF TypeInv, TypeOK, Counters
<1>4. CASE EndFree(f)
  <2>1. /\ alloc \in [Futures -> {"unused", "live", "closing", "freed"}]
       /\ value \in [Futures -> {"none", "held", "taken", "destroyed"}]
    BY DEF TypeInv, TypeOK, Counters
  <2>2. alloc' \in [Futures -> {"unused", "live", "closing", "freed"}]
    BY <1>4, <2>1 DEF EndFree
  <2>3. value' \in [Futures -> {"none", "held", "taken", "destroyed"}]
    BY <1>4, <2>1 DEF EndFree
  <2>4. UNCHANGED <<home, dep, holds, dependents, ready, result, cancelled, sequence,
                    waitingHead, waiterNext, phase, held, heap, parked, pending, stats,
                    pc, cur, res, detached, chain, tail, heard, runs, disposals>>
    BY <1>4 DEF EndFree, futureVars, linkVars, executorVars, threadVars, historyVars
  <2> QED BY <2>2, <2>3, <2>4 DEF TypeInv, TypeOK, Counters
<1> QED BY <1>1, <1>2, <1>3, <1>4

LEMMA SubmitTypes ==
    ASSUME TypeInv, NEW f \in Futures, NEW e \in Executors, NEW d \in FutureOrNone,
           Accept(f, e, d) \/ Reject(f, e, d)
    PROVE  TypeOK'
<1>0. pc' \in [Threads -> Pcs] BY Rested DEF TypeInv, TypeOK, Shared, Accept, Reject
<1>1. CASE Accept(f, e, d)
  <2>1. /\ alloc \in [Futures -> {"unused", "live", "closing", "freed"}]
       /\ home \in [Futures -> Executors \cup {None}]
       /\ dep \in [Futures -> FutureOrNone]
       /\ holds \in [Futures -> BOOLEAN]
       /\ dependents \in [Futures -> Nat]
       /\ sequence \in [Futures -> Nat]
       /\ waitingHead \in [Futures -> FutureOrNone]
       /\ waiterNext \in [Futures -> FutureOrNone]
       /\ heap \in [Executors -> SUBSET Futures]
       /\ parked \in [Executors -> Seq(Futures)]
       /\ pending \in [Executors -> Nat]
       /\ stats \in [Executors -> Counters]
    BY DEF TypeInv, TypeOK, Counters
  <2>2. alloc' \in [Futures -> {"unused", "live", "closing", "freed"}]
    BY <1>1, <2>1 DEF Accept, LinkWaiter, MustPark, Counters
  <2>3. home' \in [Futures -> Executors \cup {None}]
    BY <1>1, <2>1 DEF Accept, LinkWaiter, MustPark, Counters
  <2>4. dep' \in [Futures -> FutureOrNone]
    BY <1>1, <2>1 DEF Accept, LinkWaiter, MustPark, Counters
  <2>5. holds' \in [Futures -> BOOLEAN]
    BY <1>1, <2>1 DEF Accept, LinkWaiter, MustPark, Counters
  <2>6. sequence' \in [Futures -> Nat]
    BY <1>1, <2>1 DEF Accept, LinkWaiter, MustPark, Counters
  <2>7. stats' \in [Executors -> Counters]
    <3>1. stats' = [stats EXCEPT ![e].submitted = @ + 1] BY <1>1 DEF Accept
    <3> QED BY <2>1, <3>1, SubmittedType
  <2>8. pending' \in [Executors -> Nat]
    <3>1. pending' = [pending EXCEPT ![e] = @ + 1] BY <1>1 DEF Accept
    <3> QED BY <2>1, <3>1, Raised
  <2>9. waiterNext' \in [Futures -> FutureOrNone]
    <3>1. \/ waiterNext' = waiterNext
          \/ d \in Futures /\ waiterNext' = [waiterNext EXCEPT ![f] = waitingHead[d]]
      BY <1>1 DEF Accept, LinkWaiter, MustPark
    <3> QED BY <2>1, <3>1
  <2>10. waitingHead' \in [Futures -> FutureOrNone]
    <3>1. waitingHead' = waitingHead \/ waitingHead' = [waitingHead EXCEPT ![d] = f]
      BY <1>1 DEF Accept
    <3> QED BY <2>1, <3>1
  <2>11. parked' \in [Executors -> Seq(Futures)]
    <3>1. parked' = parked \/ parked' = [parked EXCEPT ![e] = Append(parked[e], f)]
      BY <1>1 DEF Accept
    <3>2. Append(parked[e], f) \in Seq(Futures) BY <2>1
    <3> QED BY <2>1, <3>1, <3>2
  <2>12. heap' \in [Executors -> SUBSET Futures]
    <3>1. heap' = heap \/ heap' = [heap EXCEPT ![e] = heap[e] \cup {f}] BY <1>1 DEF Accept
    <3>2. heap[e] \cup {f} \in SUBSET Futures BY <2>1
    <3> QED BY <2>1, <3>1, <3>2
  <2>13. dependents' \in [Futures -> Nat]
    BY <1>1, <2>1, SMTT(30) DEF Accept, LinkWaiter, MustPark, Counters
  <2>14. UNCHANGED <<ready, result, value, cancelled, phase, held, cur, res, detached,
                     chain, tail, heard, runs, disposals>>
    BY <1>1 DEF Accept, futureVars, linkVars, executorVars, threadVars, historyVars
  <2> QED BY <2>2, <2>3, <2>4, <2>5, <2>6, <2>7, <2>8, <2>9, <2>10, <2>11, <2>12, <2>13, <2>14,
             <1>0 DEF TypeInv, TypeOK, Counters
<1>2. CASE Reject(f, e, d)
  <2>1. dependents \in [Futures -> Nat]
    BY DEF TypeInv, TypeOK, Counters
  <2>2. dependents' \in [Futures -> Nat]
    BY <1>2, <2>1 DEF Reject, Lowered
  <2>3. UNCHANGED <<alloc, home, dep, holds, ready, result, value, cancelled, sequence,
                    waitingHead, waiterNext, phase, held, heap, parked, pending, stats,
                    cur, res, detached, chain, tail, heard, runs, disposals>>
    BY <1>2 DEF Reject, futureVars, linkVars, executorVars, threadVars, historyVars
  <2> QED BY <2>2, <2>3, <1>0 DEF TypeInv, TypeOK, Counters
<1> QED BY <1>1, <1>2

LEMMA BeginTypes ==
    ASSUME TypeInv, NEW e \in Executors, pc[e] # "asleep",
           DestroyBegin(e)
    PROVE  TypeOK'
<1>0. pc' \in [Threads -> Pcs] BY DestroyerPaths DEF TypeInv, Shared
<1>1. CASE DestroyBegin(e)
  <2>1. /\ cancelled \in [Futures -> BOOLEAN]
       /\ phase \in [Executors -> Phases]
       /\ held \in [Executors -> BOOLEAN]
       /\ pc \in [Threads -> Pcs]
       /\ cur \in [Threads -> FutureOrNone]
    BY DEF TypeInv, TypeOK, Counters
  <2>2. phase' \in [Executors -> Phases]
    BY <1>1, <2>1 DEF DestroyBegin, Phases
  <2>3. held' \in [Executors -> BOOLEAN]
    BY <1>1, <2>1 DEF DestroyBegin, Phases
  <2>4. cancelled' \in [Futures -> BOOLEAN]
    BY <1>1, <2>1 DEF DestroyBegin, Phases
  <2>5. UNCHANGED <<alloc, home, dep, holds, dependents, ready, result, value, sequence,
                    waitingHead, waiterNext, heap, parked, pending, stats, cur, res,
                    detached, chain, tail, heard, runs, disposals>>
    BY <1>1 DEF DestroyBegin, futureVars, linkVars, executorVars, threadVars, historyVars
  <2> QED BY <2>2, <2>3, <2>4, <2>5, <1>0 DEF TypeInv, TypeOK, Counters
<1> QED BY <1>1

-----------------------------------------------------------------------------
(* Where the threads are *)

USE DEF futureVars, linkVars, executorVars, threadVars, historyVars

\* What is submitted stays submitted, to the same executor, with the same antecedent,
\* what is ready stays ready, and a shutdown is not called off.
Grows ==
    /\ \A f \in Futures :
          /\ Used(f) => Used(f)' /\ home'[f] = home[f] /\ dep'[f] = dep[f]
          /\ ready[f] => ready'[f]
    /\ \A e \in Executors : Stopping(e) => Stopping(e)'

LEMMA SubmitGrows ==
    ASSUME TypeInv, NEW f \in Futures, NEW e \in Executors, NEW d \in FutureOrNone,
           Accept(f, e, d) \/ Reject(f, e, d)
    PROVE  Grows
<1>1. CASE Accept(f, e, d)
  <2>1. /\ alloc' = [alloc EXCEPT ![f] = "live"] /\ home' = [home EXCEPT ![f] = e]
        /\ dep' = [dep EXCEPT ![f] = d] /\ ready' = ready /\ phase' = phase
        /\ alloc[f] = "unused"
    BY <1>1 DEF Accept
  <2> QED BY <2>1 DEF TypeInv, TypeOK, Grows, Used, Stopping
<1>2. CASE Reject(f, e, d) BY <1>2 DEF Reject, Grows, Used, Stopping
<1> QED BY <1>1, <1>2

LEMMA FutureGrows ==
    ASSUME TypeInv, NEW f \in Futures,
           Cancel(f) \/ TakeValue(f) \/ BeginFree(f) \/ EndFree(f)
    PROVE  Grows
<1>1. CASE Cancel(f) \/ TakeValue(f)
  BY <1>1 DEF Cancel, TakeValue, Grows, Used, Stopping
<1>2. CASE BeginFree(f) \/ EndFree(f)
  <2>1. /\ alloc' = [alloc EXCEPT ![f] = "closing"] \/ alloc' = [alloc EXCEPT ![f] = "freed"]
        /\ UNCHANGED <<home, dep, ready, phase>>
    BY <1>2 DEF BeginFree, EndFree
  <2> QED BY <2>1 DEF TypeInv, TypeOK, Grows, Used, Stopping
<1> QED BY <1>1, <1>2

LEMMA WorkerGrows ==
    ASSUME TypeInv, NEW w \in Workers,
           Pop(w) \/ Wait(w) \/ Check(w) \/ ReadAntecedent(w) \/ Run(w)
           \/ Publish(w) \/ PromoteEnd(w)
    PROVE  Grows
<1>1. CASE Pop(w) BY <1>1 DEF Pop, Grows, Used, Stopping
<1>2. CASE Wait(w) BY <1>2 DEF Wait, Grows, Used, Stopping
<1>3. CASE Check(w) BY <1>3 DEF Check, Grows, Used, Stopping
<1>4. CASE ReadAntecedent(w) BY <1>4 DEF ReadAntecedent, Grows, Used, Stopping
<1>5. CASE Run(w) BY <1>5 DEF Run, Grows, Used, Stopping
<1>6. CASE Publish(w) BY <1>6 DEF Publish, Grows, Used, Stopping
<1>7. CASE PromoteEnd(w) BY <1>7 DEF PromoteEnd, Grows, Used, Stopping
<1> QED BY <1>1, <1>2, <1>3, <1>4, <1>5, <1>6, <1>7

LEMMA SharedGrows ==
    ASSUME TypeInv, NEW t \in Threads, Shared(t)
    PROVE  Grows
<1>1. CASE Release(t) BY <1>1 DEF Release, Grows, Used, Stopping
<1>2. CASE DestructorCancels(t) BY <1>2 DEF DestructorCancels, Grows, Used, Stopping
<1>3. CASE DestructorFrees(t)
  <2>1. PICK g \in Futures : alloc' = [alloc EXCEPT ![g] = "freed"] /\ Freeable(g)
    BY <1>3 DEF DestructorFrees
  <2>2. UNCHANGED <<home, dep, ready, phase>> BY <1>3 DEF DestructorFrees
  <2> QED BY <2>1, <2>2 DEF TypeInv, TypeOK, Grows, Used, Stopping
<1>4. CASE Complete(t)
  <2>1. ready' = [ready EXCEPT ![cur[t]] = TRUE] /\ UNCHANGED <<alloc, home, dep, phase>>
    BY <1>4 DEF Complete
  <2> QED BY <2>1 DEF TypeInv, TypeOK, Grows, Used, Stopping
<1>5. CASE Wake(t) BY <1>5 DEF Wake, Grows, Used, Stopping
<1>6. CASE PromoteNext(t) BY <1>6 DEF PromoteNext, Grows, Used, Stopping
<1>7. CASE PromotePush(t) BY <1>7 DEF PromotePush, Grows, Used, Stopping
<1> QED BY <1>1, <1>2, <1>3, <1>4, <1>5, <1>6, <1>7 DEF Shared

LEMMA DestroyerGrows ==
    ASSUME TypeInv, NEW e \in Executors,
           DestroyBegin(e) \/ DrainNext(e) \/ DrainEnd(e) \/ Join(e) \/ WalkNext(e)
           \/ WalkEnd(e) \/ Disposed(e) \/ Collect(e) \/ CollectTail(e) \/ DestroyEnd(e)
    PROVE  Grows
<1>1. UNCHANGED <<alloc, home, dep, ready>>
  BY DEF DestroyBegin, DrainNext, DrainEnd, Join, WalkNext, WalkEnd, Disposed, Collect,
         CollectTail, DestroyEnd
<1>2. \A x \in Executors : Stopping(x) => Stopping(x)'
  <2>1. \/ phase' = phase
        \/ \E p \in {"drain", "join", "walk", "settle", "freed"} :
              phase' = [phase EXCEPT ![e] = p]
    BY DEF DestroyBegin, DrainNext, DrainEnd, Join, WalkNext, WalkEnd, Disposed, Collect,
           CollectTail, DestroyEnd
  <2> QED BY <2>1 DEF TypeInv, TypeOK, Stopping
<1> QED BY <1>1, <1>2 DEF Grows, Used

(* A thread that does not move stays in its place. *)
LEMMA OthersPlace ==
    ASSUME TypeInv, Grows, NEW u \in Threads, cur'[u] = cur[u],
           \/ pc'[u] = pc[u]
           \/ u \in Workers /\ pc[u] = "asleep" /\ pc'[u] = "idle",
           u \in Executors =>
              phase'[u] = phase[u] /\ held'[u] = held[u] /\ tail'[u] = tail[u]
    PROVE  /\ Carries(u)'
           /\ u \in Workers => WorkerPlace(u)'
           /\ u \in Executors => DestroyerPlace(u)'
<1> USE DEF TypeInv, ControlInv
<1>1. Carries(u)'
  <2>1. pc'[u] \in CarryPcs \cup {"antecedent"} => pc'[u] = pc[u] /\ pc[u] \in CarryPcs
    BY DEF CarryPcs, HandPcs, CurrentPcs
  <2>2. Carries(u) OBVIOUS
  <2>3. CASE pc'[u] \in CarryPcs \cup {"antecedent"}
    <3>1. pc'[u] = pc[u] /\ cur[u] \in Futures /\ Used(cur[u]) BY <2>1, <2>2, <2>3 DEF Carries
    <3>2. Used(cur[u])' /\ dep'[cur[u]] = dep[cur[u]] BY <3>1 DEF Grows, Used
    <3> QED BY <2>2, <3>1, <3>2 DEF Carries, Used
  <2>4. CASE pc'[u] \notin CarryPcs \cup {"antecedent"} BY <2>4 DEF Carries
  <2> QED BY <2>3, <2>4
<1>2. u \in Workers => WorkerPlace(u)' BY DEF WorkerPlace, WorkerPcs
<1>3. u \in Executors => DestroyerPlace(u)'
  BY Distinct DEF DestroyerPlace
<1> QED BY <1>1, <1>2, <1>3

\* The steps of a worker, of a destroying thread and of the program that are not shared.
WorkerOwn(w) ==
    Pop(w) \/ Wait(w) \/ Check(w) \/ ReadAntecedent(w) \/ Run(w) \/ Publish(w)
    \/ PromoteEnd(w)
DestroyerOwn(e) ==
    \/ DrainNext(e) \/ DrainEnd(e) \/ Join(e) \/ WalkNext(e) \/ WalkEnd(e)
    \/ Disposed(e) \/ Collect(e) \/ CollectTail(e) \/ DestroyEnd(e)

(* Whose step it is, everyone else keeps what is in hand. *)
LEMMA OnlyMine ==
    ASSUME TypeInv, NEW t \in Threads,
           \/ t \in Workers /\ WorkerOwn(t)
           \/ Shared(t)
           \/ t \in Executors /\ (DestroyBegin(t) \/ DestroyerOwn(t))
    PROVE  /\ Grows
           /\ \A u \in Threads \ {t} :
                 /\ cur'[u] = cur[u]
                 /\ \/ pc'[u] = pc[u]
                    \/ u \in Workers /\ pc[u] = "asleep" /\ pc'[u] = "idle"
                 /\ u \in Executors =>
                       phase'[u] = phase[u] /\ held'[u] = held[u] /\ tail'[u] = tail[u]
<1> DEFINE Mine(u) == /\ cur'[u] = cur[u]
                      /\ \/ pc'[u] = pc[u]
                         \/ u \in Workers /\ pc[u] = "asleep" /\ pc'[u] = "idle"
                      /\ u \in Executors =>
                            phase'[u] = phase[u] /\ held'[u] = held[u] /\ tail'[u] = tail[u]
<1>0. /\ cur \in [Threads -> FutureOrNone] /\ phase \in [Executors -> Phases]
      /\ held \in [Executors -> BOOLEAN] /\ tail \in [Executors -> FutureOrNone]
      /\ TypeOK
  BY DEF TypeInv, TypeOK
<1>1. CASE t \in Workers /\ WorkerOwn(t)
  <2>1. Grows BY <1>1, WorkerGrows DEF WorkerOwn
  <2>2. cur' = cur \/ \E f : cur' = [cur EXCEPT ![t] = f]
    BY <1>1 DEF WorkerOwn, Pop, Wait, Check, ReadAntecedent, Run, Publish, PromoteEnd
  <2>3. UNCHANGED <<phase, held, tail>>
    BY <1>1 DEF WorkerOwn, Pop, Wait, Check, ReadAntecedent, Run, Publish, PromoteEnd
  <2>4. \E l : Moves(t, l) BY <1>0, <1>1, WorkerPaths DEF WorkerOwn
  <2> QED BY <1>0, <2>1, <2>2, <2>3, <2>4 DEF Moves
<1>2. CASE Shared(t)
  <2>1. Grows BY <1>2, SharedGrows
  <2>2. cur' = cur \/ \E f : cur' = [cur EXCEPT ![t] = f]
    BY <1>2 DEF Shared, Release, DestructorCancels, DestructorFrees, Complete, Wake,
                PromoteNext, PromotePush
  <2>3. UNCHANGED <<phase, held, tail>>
    BY <1>2 DEF Shared, Release, DestructorCancels, DestructorFrees, Complete, Wake,
                PromoteNext, PromotePush
  <2>4. pc' = pc \/ \E l : Moves(t, l) BY <1>0, <1>2, SharedPaths DEF Shared
  <2> QED BY <1>0, <2>1, <2>2, <2>3, <2>4 DEF Moves
<1>3. CASE t \in Executors /\ (DestroyBegin(t) \/ DestroyerOwn(t))
  <2>1. Grows BY <1>3, DestroyerGrows DEF DestroyerOwn
  <2>2. cur' = cur \/ \E f : cur' = [cur EXCEPT ![t] = f]
    BY <1>3 DEF DestroyerOwn, DestroyBegin, DrainNext, DrainEnd, Join, WalkNext, WalkEnd,
                Disposed, Collect, CollectTail, DestroyEnd
  <2>3. /\ phase' = phase \/ \E p : phase' = [phase EXCEPT ![t] = p]
        /\ held' = held \/ \E b : held' = [held EXCEPT ![t] = b]
        /\ tail' = tail \/ \E f : tail' = [tail EXCEPT ![t] = f]
    BY <1>3 DEF DestroyerOwn, DestroyBegin, DrainNext, DrainEnd, Join, WalkNext, WalkEnd,
                Disposed, Collect, CollectTail, DestroyEnd
  <2>4. pc[t] # "asleep"
    BY <1>3 DEF TypeInv, ControlInv, DestroyerPlace, DestroyPcs
  <2>5. pc' = pc \/ \E l : Moves(t, l) BY <1>0, <1>3, <2>4, DestroyerPaths DEF DestroyerOwn
  <2> QED BY <1>0, <2>1, <2>2, <2>3, <2>5 DEF Moves
<1> QED BY <1>1, <1>2, <1>3

LEMMA OthersKeep ==
    ASSUME TypeInv, NEW t \in Threads,
           \/ t \in Workers /\ WorkerOwn(t)
           \/ Shared(t)
           \/ t \in Executors /\ (DestroyBegin(t) \/ DestroyerOwn(t)),
           Carries(t)', t \in Workers => WorkerPlace(t)',
           t \in Executors => DestroyerPlace(t)'
    PROVE  ControlInv'
<1>1. \A u \in Threads \ {t} : /\ Carries(u)'
                               /\ u \in Workers => WorkerPlace(u)'
                               /\ u \in Executors => DestroyerPlace(u)'
  BY OnlyMine, OthersPlace
<1> QED BY <1>1 DEF ControlInv

LEMMA WorkerControl ==
    ASSUME TypeInv, NEW w \in Workers, WorkerOwn(w)
    PROVE  ControlInv'
<1>0. TypeOK /\ w \notin Executors /\ Grows /\ Carries(w) /\ cur \in [Threads -> FutureOrNone]
  BY Distinct, OnlyMine DEF TypeInv, TypeOK, ControlInv
<1>1. CASE Pop(w)
  <2>1. PICK f \in heap[Home[w]] : cur' = [cur EXCEPT ![w] = f] BY <1>1 DEF Pop
  <2>2. f \in Futures /\ Used(f) BY Distinct DEF TypeInv, TypeOK, UsedInv
  <2>3. pc'[w] = "check" BY <1>0, <1>1, WorkerPaths DEF Moves
  <2>4. cur'[w] = f /\ Used(f)' BY <1>0, <2>1, <2>2 DEF Grows, Used
  <2> QED BY <1>0, <2>2, <2>3, <2>4, OthersKeep
          DEF Carries, WorkerOwn, WorkerPlace, WorkerPcs, CurrentPcs, Used
<1>2. CASE Wait(w) \/ PromoteEnd(w)
  <2>1. pc'[w] \in {"exited", "asleep", "idle"} BY <1>0, <1>2, WorkerPaths DEF Moves
  <2>2. Carries(w)' BY <2>1 DEF Carries, CarryPcs, HandPcs, CurrentPcs
  <2> QED BY <1>0, <2>1, <2>2, OthersKeep DEF WorkerOwn, WorkerPlace, WorkerPcs
<1>3. CASE Check(w) \/ ReadAntecedent(w) \/ Run(w) \/ Publish(w)
  <2>1. /\ pc[w] \in CarryPcs
        /\ pc'[w] \in {"release", "callback", "antecedent", "run", "complete"}
        /\ pc'[w] = "antecedent" => dep[cur[w]] # None
    <3>1. pc[w] \in {"check", "antecedent", "run", "callback"}
      BY <1>0, <1>3, WorkerPaths
    <3>2. CASE Check(w)
      BY <1>0, <3>1, <3>2, WorkerPaths DEF Moves, CarryPcs, HandPcs, CurrentPcs
    <3>3. CASE ReadAntecedent(w) \/ Run(w) \/ Publish(w)
      BY <1>0, <3>1, <3>3, WorkerPaths DEF Moves, CarryPcs, HandPcs, CurrentPcs
    <3> QED BY <1>3, <3>2, <3>3
  <2>2. cur' = cur BY <1>3 DEF Check, ReadAntecedent, Run, Publish
  <2>3. cur[w] \in Futures /\ Used(cur[w]) /\ Used(cur[w])' /\ dep'[cur[w]] = dep[cur[w]]
    BY <1>0, <2>1, <2>2 DEF Carries, Grows, Used
  <2>4. Carries(w)' BY <2>1, <2>2, <2>3 DEF Carries, Used
  <2> QED BY <1>0, <2>1, <2>4, OthersKeep DEF WorkerOwn, WorkerPlace, WorkerPcs, CurrentPcs
<1> QED BY <1>1, <1>2, <1>3 DEF WorkerOwn

LEMMA SharedControl ==
    ASSUME TypeInv, NEW t \in Threads, Shared(t)
    PROVE  ControlInv'
<1>0. /\ TypeOK /\ Grows /\ Carries(t) /\ cur \in [Threads -> FutureOrNone]
      /\ t \in Workers <=> t \notin Executors
      /\ t \in Executors =>
            DestroyerPlace(t) /\ phase'[t] = phase[t] /\ held'[t] = held[t] /\ tail'[t] = tail[t]
  <2>1. t \in Executors => phase'[t] = phase[t] /\ held'[t] = held[t] /\ tail'[t] = tail[t]
    BY DEF Shared, Release, DestructorCancels, DestructorFrees, Complete, Wake,
           PromoteNext, PromotePush
  <2> QED BY <2>1, Distinct, OnlyMine DEF TypeInv, TypeOK, ControlInv
<1>1. CASE Release(t) \/ Complete(t) \/ DestructorCancels(t) \/ DestructorFrees(t)
  <2>1. /\ pc[t] \in {"release", "complete", "callback"}
        /\ pc'[t] \in {"callback", "complete", "wake"}
    <3>1. CASE DestructorCancels(t) \/ DestructorFrees(t) BY <1>0, <3>1, SharedPaths
    <3>2. CASE Release(t) \/ Complete(t) BY <1>0, <3>2, SharedPaths DEF Moves
    <3> QED BY <1>1, <3>1, <3>2
  <2>2. cur' = cur BY <1>1 DEF Release, Complete, DestructorCancels, DestructorFrees
  <2>3. cur[t] \in Futures /\ Used(cur[t])
    BY <1>0, <2>1 DEF Carries, CarryPcs, HandPcs, CurrentPcs
  <2>4. Used(cur[t])' BY <1>0, <2>2, <2>3 DEF Grows, Used
  <2>5. Carries(t)' BY <2>1, <2>2, <2>3, <2>4 DEF Carries, Used
  <2>6. t \in Workers => WorkerPlace(t)' BY <2>1 DEF WorkerPlace, WorkerPcs, CurrentPcs
  <2>7. t \in Executors => DestroyerPlace(t)'
    BY <1>0, <2>1 DEF DestroyerPlace, DestroyPcs
  <2> QED BY <2>5, <2>6, <2>7, OthersKeep
<1>2. CASE Wake(t)
  <2>1. pc[t] = "wake" /\ pc'[t] = IF t \in Workers THEN "promote" ELSE "collect"
    BY <1>0, <1>2, SharedPaths DEF Moves
  <2>2. Carries(t)' BY <2>1 DEF Carries, CarryPcs, HandPcs, CurrentPcs
  <2>3. t \in Workers => WorkerPlace(t)' BY <2>1 DEF WorkerPlace, WorkerPcs
  <2>4. t \in Executors => DestroyerPlace(t)' BY <1>0, <2>1 DEF DestroyerPlace, DestroyPcs
  <2> QED BY <2>2, <2>3, <2>4, OthersKeep
<1>3. CASE PromoteNext(t)
  <2>1. pc[t] = "promote" /\ pc'[t] = "push" BY <1>0, <1>3, SharedPaths DEF Moves
  <2>2. cur'[t] = chain[t] /\ chain[t] # None BY <1>0, <1>3 DEF PromoteNext
  <2>3. chain[t] \in Futures /\ Used(chain[t]) BY <2>2 DEF TypeInv, TypeOK, UsedInv
  <2>4. alloc' = alloc BY <1>3 DEF PromoteNext
  <2>5. Carries(t)' BY <2>1, <2>2, <2>3, <2>4 DEF Carries, Used
  <2>6. t \in Workers => WorkerPlace(t)' BY <2>1 DEF WorkerPlace, WorkerPcs
  <2>7. t \in Executors => DestroyerPlace(t)' BY <1>0, <2>1 DEF DestroyerPlace, DestroyPcs
  <2> QED BY <2>5, <2>6, <2>7, OthersKeep
<1>4. CASE PromotePush(t)
  <2>1. pc[t] = "push" /\ pc'[t] = "promote" BY <1>0, <1>4, SharedPaths DEF Moves
  <2>2. Carries(t)' BY <2>1 DEF Carries, CarryPcs, HandPcs, CurrentPcs
  <2>3. t \in Workers => WorkerPlace(t)' BY <2>1 DEF WorkerPlace, WorkerPcs
  <2>4. t \in Executors => DestroyerPlace(t)' BY <1>0, <2>1 DEF DestroyerPlace, DestroyPcs
  <2> QED BY <2>2, <2>3, <2>4, OthersKeep
<1> QED BY <1>1, <1>2, <1>3, <1>4 DEF Shared

LEMMA DestroyerControl ==
    ASSUME TypeInv, NEW e \in Executors, DestroyBegin(e) \/ DestroyerOwn(e)
    PROVE  ControlInv'
<1>0. /\ TypeOK /\ Grows /\ Carries(e) /\ DestroyerPlace(e) /\ e \notin Workers
      /\ cur \in [Threads -> FutureOrNone] /\ phase \in [Executors -> Phases]
      /\ held \in [Executors -> BOOLEAN] /\ tail \in [Executors -> FutureOrNone]
  BY Distinct, OnlyMine DEF TypeInv, TypeOK, ControlInv
<1> SUFFICES Carries(e)' /\ DestroyerPlace(e)'
  BY <1>0, OthersKeep
<1>1. CASE DestroyBegin(e)
  <2>1. phase[e] = "open" /\ phase'[e] = "drain" /\ held'[e] = TRUE
    BY <1>0, <1>1 DEF DestroyBegin
  <2>2. pc'[e] = "next" BY <1>0, <1>1, <2>1, DestroyerPaths DEF DestroyerPlace, Moves
  <2> QED BY <1>0, <2>1, <2>2 DEF Carries, CarryPcs, HandPcs, CurrentPcs, DestroyerPlace,
                                  DestroyPcs
<1>2. CASE DrainNext(e) \/ WalkNext(e)
  <2>1. pc[e] = "next" /\ pc'[e] = "callback" BY <1>0, <1>2, DestroyerPaths DEF Moves
  <2>2. /\ phase[e] \in {"drain", "walk"}
        /\ phase'[e] = phase[e] /\ held'[e] = held[e] /\ tail'[e] = tail[e]
    BY <1>2 DEF DrainNext, WalkNext
  <2>3. cur'[e] \in Futures /\ Used(cur'[e]) /\ alloc' = alloc
    <3>1. CASE DrainNext(e)
      <4>1. PICK f \in heap[e] : cur' = [cur EXCEPT ![e] = f] BY <3>1 DEF DrainNext
      <4>2. f \in Futures /\ Used(f) BY DEF TypeInv, TypeOK, UsedInv
      <4> QED BY <1>0, <3>1, <4>1, <4>2 DEF DrainNext
    <3>2. CASE WalkNext(e)
      <4>1. parked[e] # << >> /\ cur' = [cur EXCEPT ![e] = Head(parked[e])] /\ alloc' = alloc
        BY <3>2 DEF WalkNext
      <4>2. parked[e] \in Seq(Futures) BY <1>0 DEF TypeOK
      <4>3. 1 \in DOMAIN parked[e] /\ Head(parked[e]) = parked[e][1] /\ Head(parked[e]) \in Futures
        BY <4>1, <4>2
      <4>4. Used(Head(parked[e])) BY <4>3 DEF TypeInv, UsedInv
      <4> QED BY <1>0, <4>1, <4>3, <4>4
    <3> QED BY <1>2, <3>1, <3>2
  <2> QED BY <1>0, <2>1, <2>2, <2>3 DEF Carries, DestroyerPlace, DestroyPcs, Used
<1>3. CASE DrainEnd(e)
  <2>1. pc[e] = "next" /\ pc'[e] = "next" BY <1>0, <1>3, DestroyerPaths DEF Moves
  <2>2. phase[e] = "drain" /\ phase'[e] = "join" /\ held'[e] = FALSE BY <1>0, <1>3 DEF DrainEnd
  <2> QED BY <1>0, <2>1, <2>2 DEF Carries, CarryPcs, HandPcs, CurrentPcs, DestroyerPlace,
                                  DestroyPcs
<1>4. CASE Join(e)
  <2>1. pc[e] = "next" /\ pc'[e] = "next"
    BY <1>0, <1>4, DestroyerPaths DEF Join, DestroyerPlace
  <2>2. phase[e] = "join" /\ phase'[e] = "walk" /\ held'[e] = TRUE BY <1>0, <1>4 DEF Join
  <2> QED BY <1>0, <2>1, <2>2 DEF Carries, CarryPcs, HandPcs, CurrentPcs, DestroyerPlace,
                                  DestroyPcs
<1>5. CASE WalkEnd(e)
  <2>1. pc[e] = "next" /\ pc'[e] = "promote" BY <1>0, <1>5, DestroyerPaths DEF Moves
  <2>2. phase[e] = "walk" /\ phase'[e] = "settle" /\ held'[e] = FALSE BY <1>0, <1>5 DEF WalkEnd
  <2> QED BY <1>0, <2>1, <2>2 DEF Carries, CarryPcs, HandPcs, CurrentPcs, DestroyerPlace,
                                  DestroyPcs
<1>6. CASE Disposed(e)
  <2>1. pc[e] = "callback" /\ pc'[e] \in {"release", "complete"}
    BY <1>0, <1>6, DestroyerPaths DEF Moves
  <2>2. cur' = cur /\ alloc' = alloc /\ phase' = phase /\ held' = held
    BY <1>6 DEF Disposed
  <2> QED BY <1>0, <2>1, <2>2
          DEF Carries, CarryPcs, HandPcs, CurrentPcs, DestroyerPlace, DestroyPcs, Used
<1>7. CASE Collect(e)
  <2>1. /\ pc[e] = "collect"
        /\ pc'[e] = IF detached[e] = None THEN "next" ELSE "advance"
    BY <1>0, <1>7, DestroyerPaths DEF Moves
  <2>2. /\ phase'[e] = phase[e] /\ held'[e] = held[e]
        /\ detached[e] # None => tail'[e] = detached[e]
    BY <1>0, <1>7 DEF Collect
  <2>3. DestroyerPlace(e)' BY <1>0, <2>1, <2>2 DEF DestroyerPlace, DestroyPcs
  <2>4. Carries(e)' BY <2>1 DEF Carries, CarryPcs, HandPcs, CurrentPcs
  <2> QED BY <2>3, <2>4
<1>8. CASE CollectTail(e)
  <2>1. /\ pc[e] = "advance"
        /\ pc'[e] = IF waiterNext[tail[e]] = None THEN "next" ELSE "advance"
    BY <1>0, <1>8, DestroyerPaths DEF Moves
  <2>2. /\ phase'[e] = phase[e] /\ held'[e] = held[e]
        /\ waiterNext[tail[e]] # None => tail'[e] = waiterNext[tail[e]]
    BY <1>0, <1>8 DEF CollectTail
  <2>3. DestroyerPlace(e)' BY <1>0, <2>1, <2>2 DEF DestroyerPlace, DestroyPcs
  <2>4. Carries(e)' BY <2>1 DEF Carries, CarryPcs, HandPcs, CurrentPcs
  <2> QED BY <2>3, <2>4
<1>9. CASE DestroyEnd(e)
  <2>1. pc[e] = "promote" /\ pc'[e] = "done" BY <1>0, <1>9, DestroyerPaths DEF Moves
  <2>2. phase'[e] = "freed" /\ held'[e] = held[e] BY <1>0, <1>9 DEF DestroyEnd
  <2> QED BY <1>0, <2>1, <2>2 DEF Carries, CarryPcs, HandPcs, CurrentPcs, DestroyerPlace,
                                  DestroyPcs
<1> QED BY <1>1, <1>2, <1>3, <1>4, <1>5, <1>6, <1>7, <1>8, <1>9 DEF DestroyerOwn

(* The program moves no thread. *)
ProgramOwn ==
    \/ \E f \in Futures, e \in Executors, d \in FutureOrNone :
         Accept(f, e, d) \/ Reject(f, e, d)
    \/ \E f \in Futures : Cancel(f) \/ TakeValue(f) \/ BeginFree(f) \/ EndFree(f)

LEMMA ProgramRests ==
    ASSUME TypeInv, ProgramOwn
    PROVE  /\ Grows /\ Rests /\ UNCHANGED <<phase, held, tail, cur, res, detached, chain,
                                            ready, result>>
           /\ pc' \in [Threads -> Pcs]
<1>0. pc \in [Threads -> Pcs] BY DEF TypeInv, TypeOK
<1>1. ASSUME NEW f \in Futures, NEW e \in Executors, NEW d \in FutureOrNone,
             Accept(f, e, d) \/ Reject(f, e, d)
      PROVE  /\ Grows /\ Rests /\ pc' \in [Threads -> Pcs]
             /\ UNCHANGED <<phase, held, tail, cur, res, detached, chain, ready, result>>
  <2>1. Grows BY <1>1, SubmitGrows
  <2>2. WakeOne(e, pc) \/ pc' = WakeAll(e, pc) BY <1>1 DEF Accept, Reject
  <2>3. Rests /\ pc' \in [Threads -> Pcs] BY <1>0, <2>2, Rested
  <2>4. UNCHANGED <<phase, held, tail, cur, res, detached, chain, ready, result>>
    BY <1>1 DEF Accept, Reject
  <2> QED BY <2>1, <2>3, <2>4
<1>2. ASSUME NEW f \in Futures, Cancel(f) \/ TakeValue(f) \/ BeginFree(f) \/ EndFree(f)
      PROVE  /\ Grows /\ Rests /\ pc' \in [Threads -> Pcs]
             /\ UNCHANGED <<phase, held, tail, cur, res, detached, chain, ready, result>>
  <2>1. Grows BY <1>2, FutureGrows
  <2>2. /\ pc' = pc
        /\ UNCHANGED <<phase, held, tail, cur, res, detached, chain, ready, result>>
    BY <1>2 DEF Cancel, TakeValue, BeginFree, EndFree
  <2> QED BY <1>0, <2>1, <2>2 DEF Rests
<1> QED BY <1>1, <1>2 DEF ProgramOwn

LEMMA ProgramControl ==
    ASSUME TypeInv, ProgramOwn
    PROVE  ControlInv'
<1>1. \A u \in Threads : /\ Carries(u)'
                         /\ u \in Workers => WorkerPlace(u)'
                         /\ u \in Executors => DestroyerPlace(u)'
  BY ProgramRests, OthersPlace DEF Rests
<1> QED BY <1>1 DEF ControlInv

LEMMA Steps ==
    Next <=> \/ ProgramOwn
             \/ \E w \in Workers : WorkerOwn(w)
             \/ \E t \in Threads : Shared(t)
             \/ \E e \in Executors : DestroyBegin(e) \/ DestroyerOwn(e)
BY DEF Next, Program, Worker, Destroyer, ProgramOwn, WorkerOwn, DestroyerOwn

-----------------------------------------------------------------------------
(* What the queues hold and the links lead to *)

(* Only an accepted submission makes a future used. *)
LEMMA UsedSame ==
    ASSUME TypeInv,
           \/ \E f \in Futures, e \in Executors, d \in FutureOrNone : Reject(f, e, d)
           \/ \E f \in Futures : Cancel(f) \/ TakeValue(f) \/ BeginFree(f) \/ EndFree(f)
           \/ \E w \in Workers : WorkerOwn(w)
           \/ \E t \in Threads : Shared(t)
           \/ \E e \in Executors : DestroyBegin(e) \/ DestroyerOwn(e)
    PROVE  home' = home /\ dep' = dep /\ \A f \in Futures : Used(f)' <=> Used(f)
<1>1. CASE \/ \E f \in Futures, e \in Executors, d \in FutureOrNone : Reject(f, e, d)
           \/ \E f \in Futures : Cancel(f) \/ TakeValue(f)
  BY <1>1 DEF Reject, Cancel, TakeValue, Used
<1>2. ASSUME NEW f \in Futures, BeginFree(f) \/ EndFree(f)
      PROVE  home' = home /\ dep' = dep /\ \A g \in Futures : Used(g)' <=> Used(g)
  <2>1. /\ alloc[f] \in {"live", "closing"} /\ home' = home /\ dep' = dep
        /\ alloc' = [alloc EXCEPT ![f] = "closing"] \/ alloc' = [alloc EXCEPT ![f] = "freed"]
    BY <1>2 DEF BeginFree, EndFree, Usable
  <2> QED BY <2>1, ZenonT(40) DEF TypeInv, TypeOK, Used
<1>3. CASE \E w \in Workers : WorkerOwn(w)
  BY <1>3 DEF WorkerOwn, Pop, Wait, Check, ReadAntecedent, Run, Publish, PromoteEnd, Used
<1>4. ASSUME NEW t \in Threads, Shared(t)
      PROVE  home' = home /\ dep' = dep /\ \A g \in Futures : Used(g)' <=> Used(g)
  <2>1. CASE DestructorFrees(t)
    <3>1. PICK g \in Futures : alloc' = [alloc EXCEPT ![g] = "freed"] /\ Freeable(g)
      BY <2>1 DEF DestructorFrees
    <3>2. Used(g) BY <3>1 DEF TypeInv, UsedInv, Freeable
    <3> QED BY <2>1, <3>1, <3>2 DEF TypeInv, TypeOK, Used, DestructorFrees
  <2>2. CASE ~DestructorFrees(t)
    BY <1>4, <2>2 DEF Shared, Release, DestructorCancels, Complete, Wake, PromoteNext,
                      PromotePush, Used
  <2> QED BY <2>1, <2>2
<1>5. CASE \E e \in Executors : DestroyBegin(e) \/ DestroyerOwn(e)
  BY <1>5 DEF DestroyBegin, DestroyerOwn, DrainNext, DrainEnd, Join, WalkNext, WalkEnd,
              Disposed, Collect, CollectTail, DestroyEnd, Used
<1> QED BY <1>1, <1>2, <1>3, <1>4, <1>5

(* What fviz_pending_unlink leaves in the registry. *)
LEMMA UnregisteredHas ==
    ASSUME parked \in [Executors -> Seq(Futures)], NEW e \in Executors, NEW f,
           Registered(e, f)
    PROVE  LET s == parked[e]
               q == Unregistered(e, f)
           IN  /\ Len(q) = Len(s) - 1 /\ DOMAIN q = 1 .. Len(q)
               /\ \A j \in DOMAIN q : \E i \in DOMAIN s : q[j] = s[i]
               /\ \A i \in DOMAIN s : s[i] # f => \E j \in DOMAIN q : q[j] = s[i]
               /\ (\A i, j \in DOMAIN s : s[i] = s[j] => i = j) =>
                     /\ \A j \in DOMAIN q : q[j] # f
                     /\ \A i, j \in DOMAIN q : q[i] = q[j] => i = j
<1> DEFINE s == parked[e]
           k == CHOOSE j \in DOMAIN s : s[j] = f
           q == [j \in 1 .. Len(s) - 1 |-> IF j < k THEN s[j] ELSE s[j + 1]]
<1>1. Len(s) \in Nat /\ DOMAIN s = 1 .. Len(s) OBVIOUS
<1>2. k \in 1 .. Len(s) /\ s[k] = f BY <1>1 DEF Registered
<1>3. Unregistered(e, f) = q BY DEF Unregistered
<1> HIDE DEF s, k
<1>4. Len(s) - 1 \in Nat BY <1>1, <1>2
<1>5. DOMAIN q = 1 .. Len(s) - 1 /\ Len(q) = Len(s) - 1 BY <1>4
<1>6. \A j \in 1 .. Len(s) - 1 : q[j] = IF j < k THEN s[j] ELSE s[j + 1] OBVIOUS
<1> HIDE DEF q
<1>7. \A j \in DOMAIN q : \E i \in DOMAIN s : q[j] = s[i] BY <1>1, <1>2, <1>5, <1>6, SMTT(30)
<1>9. ASSUME NEW i \in DOMAIN s, s[i] # f PROVE \E j \in DOMAIN q : q[j] = s[i]
  <2>1. i \in 1 .. Len(s) /\ i # k BY <1>1, <1>2, <1>9
  <2>2. CASE i < k
    <3>1. i \in DOMAIN q /\ q[i] = s[i] BY <1>1, <1>2, <1>5, <1>6, <2>1, <2>2
    <3> QED BY <3>1
  <2>3. CASE i > k
    <3>1. i - 1 \in DOMAIN q /\ ~(i - 1 < k) /\ (i - 1) + 1 = i
      BY <1>1, <1>2, <1>5, <2>1, <2>3
    <3>2. q[i - 1] = s[i] BY <1>5, <1>6, <3>1
    <3> QED BY <3>1, <3>2
  <2> QED BY <1>1, <1>2, <2>1, <2>2, <2>3
<1>8. ASSUME \A i, j \in DOMAIN s : s[i] = s[j] => i = j
      PROVE  /\ \A j \in DOMAIN q : q[j] # f
             /\ \A i, j \in DOMAIN q : q[i] = q[j] => i = j
  <2>1. \A j \in DOMAIN q : q[j] # f BY <1>1, <1>2, <1>5, <1>6, <1>8
  <2>3. ASSUME NEW i \in DOMAIN q, NEW j \in DOMAIN q, q[i] = q[j] PROVE i = j
    <3> DEFINE at(n) == IF n < k THEN n ELSE n + 1
    <3>1. at(i) \in DOMAIN s /\ at(j) \in DOMAIN s /\ q[i] = s[at(i)] /\ q[j] = s[at(j)]
      BY <1>1, <1>2, <1>5, <1>6
    <3>2. at(i) = at(j) BY <1>8, <2>3, <3>1
    <3> QED BY <1>1, <1>2, <1>5, <3>2
  <2> QED BY <2>1, <2>3
<1> QED BY <1>3, <1>5, <1>7, <1>8, <1>9, <1>1 DEF s

(* A registry that loses its first future. *)
LEMMA TailHas ==
    ASSUME parked \in [Executors -> Seq(Futures)], NEW e \in Executors, parked[e] # << >>
    PROVE  LET s == parked[e]
           IN  /\ 1 \in DOMAIN s /\ Head(s) = s[1] /\ Head(s) \in Futures
               /\ Len(Tail(s)) = Len(s) - 1 /\ DOMAIN Tail(s) = 1 .. Len(Tail(s))
               /\ \A j \in DOMAIN Tail(s) : j + 1 \in DOMAIN s /\ Tail(s)[j] = s[j + 1]
               /\ \A i \in DOMAIN s : i # 1 =>
                     i - 1 \in DOMAIN Tail(s) /\ Tail(s)[i - 1] = s[i]
<1> DEFINE s == parked[e]
<1>1. s \in Seq(Futures) /\ s # << >> OBVIOUS
<1> HIDE DEF s
<1>2. /\ 1 \in DOMAIN s /\ Head(s) = s[1] /\ Head(s) \in Futures
      /\ Len(Tail(s)) = Len(s) - 1 /\ DOMAIN Tail(s) = 1 .. Len(Tail(s))
      /\ \A j \in DOMAIN Tail(s) : j + 1 \in DOMAIN s /\ Tail(s)[j] = s[j + 1]
  BY <1>1
<1>3. \A i \in DOMAIN s : i # 1 =>
          i - 1 \in DOMAIN Tail(s) /\ Tail(s)[i - 1] = s[i]
  BY <1>1
<1> QED BY <1>2, <1>3 DEF s

LEMMA UsedFrame ==
    ASSUME TypeInv, home' = home, dep' = dep, \A f \in Futures : Used(f)' <=> Used(f),
           \A e \in Executors : heap'[e] \subseteq Futures /\ \A f \in heap'[e] : Used(f),
           \A e \in Executors : parked'[e] = parked[e]
              \/ \A i \in DOMAIN parked'[e] : parked'[e][i] \in Futures /\ Used(parked'[e][i]),
           \A f \in Futures : ready'[f] => Used(f),
           \A f \in Futures :
              /\ waitingHead'[f] # None => waitingHead'[f] \in Futures /\ Used(waitingHead'[f])
              /\ waiterNext'[f] # None => waiterNext'[f] \in Futures /\ Used(waiterNext'[f]),
           \A t \in Threads :
              /\ detached'[t] # None => detached'[t] \in Futures /\ Used(detached'[t])
              /\ chain'[t] # None => chain'[t] \in Futures /\ Used(chain'[t])
    PROVE  UsedInv'
<1>1. \A e \in Executors : \A f \in heap'[e] : Used(f)' OBVIOUS
<1>2. ASSUME NEW e \in Executors, NEW i \in DOMAIN parked'[e] PROVE Used(parked[e][i])'
  <2>1. CASE parked'[e] = parked[e]
    <3>1. i \in DOMAIN parked[e] /\ parked[e] \in Seq(Futures)
      BY <1>2, <2>1 DEF TypeInv, TypeOK
    <3>2. parked[e][i] \in Futures BY <3>1
    <3>3. Used(parked[e][i]) BY <3>1 DEF TypeInv, UsedInv
    <3> QED BY <2>1, <3>2, <3>3
  <2> QED BY <2>1
<1>3. \A f \in Futures : /\ Used(f)' => home'[f] \in Executors
                         /\ ready'[f] => Used(f)'
                         /\ Used(f)' /\ dep'[f] # None => Used(dep[f])'
  <2>1. \A f \in Futures : dep[f] \in FutureOrNone BY DEF TypeInv, TypeOK
  <2> QED BY <2>1 DEF TypeInv, UsedInv
<1>4. \A f \in Futures : /\ waitingHead'[f] # None => Used(waitingHead[f])'
                         /\ waiterNext'[f] # None => Used(waiterNext[f])'
  OBVIOUS
<1>5. \A t \in Threads : /\ detached'[t] # None => Used(detached[t])'
                         /\ chain'[t] # None => Used(chain[t])'
  OBVIOUS
<1> QED BY <1>1, <1>2, <1>3, <1>4, <1>5 DEF UsedInv, Used

(* The same before the step. *)
LEMMA UsedNow ==
    ASSUME TypeInv
    PROVE  /\ \A e \in Executors : heap[e] \subseteq Futures /\ \A f \in heap[e] : Used(f)
           /\ \A e \in Executors : /\ parked[e] \in Seq(Futures)
                                   /\ \A i \in DOMAIN parked[e] :
                                        parked[e][i] \in Futures /\ Used(parked[e][i])
           /\ \A f \in Futures :
                 /\ ready[f] => Used(f)
                 /\ waitingHead[f] # None => waitingHead[f] \in Futures /\ Used(waitingHead[f])
                 /\ waiterNext[f] # None => waiterNext[f] \in Futures /\ Used(waiterNext[f])
                 /\ dep[f] # None => dep[f] \in Futures
           /\ \A t \in Threads :
                 /\ detached[t] # None => detached[t] \in Futures /\ Used(detached[t])
                 /\ chain[t] # None => chain[t] \in Futures /\ Used(chain[t])
                 /\ pc[t] \in CarryPcs => cur[t] \in Futures /\ Used(cur[t])
<1>1. \A e \in Executors : parked[e] \in Seq(Futures) BY DEF TypeInv, TypeOK
<1>2. \A e \in Executors : \A i \in DOMAIN parked[e] : parked[e][i] \in Futures BY <1>1
<1>3. \A e \in Executors : heap[e] \subseteq Futures BY DEF TypeInv, TypeOK
<1>4. \A f \in Futures : /\ waitingHead[f] \in FutureOrNone /\ waiterNext[f] \in FutureOrNone
                         /\ dep[f] \in FutureOrNone
  BY DEF TypeInv, TypeOK
<1>5. \A t \in Threads : detached[t] \in FutureOrNone /\ chain[t] \in FutureOrNone
  BY DEF TypeInv, TypeOK
<1> QED BY <1>1, <1>2, <1>3, <1>4, <1>5 DEF TypeInv, UsedInv, ControlInv, Carries

LEMMA AcceptUsed ==
    ASSUME TypeInv, NEW f \in Futures, NEW e \in Executors, NEW d \in FutureOrNone,
           Accept(f, e, d)
    PROVE  UsedInv'
<1>0. /\ alloc' = [alloc EXCEPT ![f] = "live"] /\ home' = [home EXCEPT ![f] = e]
      /\ dep' = [dep EXCEPT ![f] = d] /\ UNCHANGED <<ready, detached, chain>>
      /\ alloc[f] = "unused" /\ (d # None => d \in Futures /\ Used(d))
  BY DEF Accept, MayDepend, Usable, Used
<1>1. \A g \in Futures : Used(g)' <=> Used(g) \/ g = f
  <2>1. alloc \in [Futures -> {"unused", "live", "closing", "freed"}] BY DEF TypeInv, TypeOK
  <2>2. \A g \in Futures : alloc'[g] = IF g = f THEN "live" ELSE alloc[g] BY <1>0, <2>1
  <2> QED BY <2>2 DEF Used
<1>2. \A x \in Executors : \A g \in heap'[x] : g \in Futures /\ (Used(g) \/ g = f)
  <2>1. heap' = heap \/ heap' = [heap EXCEPT ![e] = heap[e] \cup {f}] BY DEF Accept
  <2>2. heap \in [Executors -> SUBSET Futures] BY DEF TypeInv, TypeOK
  <2>3. \A x \in Executors : heap'[x] \subseteq heap[x] \cup {f} BY <2>1, <2>2
  <2> QED BY <2>3, UsedNow
<1>3. \A x \in Executors : \A i \in DOMAIN parked'[x] :
         parked'[x][i] \in Futures /\ (Used(parked'[x][i]) \/ parked'[x][i] = f)
  <2>0. parked \in [Executors -> Seq(Futures)] BY DEF TypeInv, TypeOK
  <2>1. parked' = parked \/ parked' = [parked EXCEPT ![e] = Append(parked[e], f)]
    BY DEF Accept
  <2>2. ASSUME NEW i \in DOMAIN Append(parked[e], f)
        PROVE  Append(parked[e], f)[i] = f \/ \E j \in DOMAIN parked[e] :
                                                Append(parked[e], f)[i] = parked[e][j]
    <3>1. parked[e] \in Seq(Futures) BY UsedNow
    <3> QED BY <2>2, <3>1
  <2>3. \A j \in DOMAIN parked[e] : parked[e][j] \in Futures /\ Used(parked[e][j]) BY UsedNow
  <2>4. \A i \in DOMAIN Append(parked[e], f) :
           /\ Append(parked[e], f)[i] \in Futures
           /\ Used(Append(parked[e], f)[i]) \/ Append(parked[e], f)[i] = f
    BY <2>2, <2>3
  <2>5. \A x \in Executors : parked'[x] = parked[x] \/ (x = e /\ parked'[x] = Append(parked[e], f))
    BY <2>0, <2>1
  <2> QED BY <2>4, <2>5, UsedNow
<1>4. \A g \in Futures :
         /\ waitingHead'[g] # None => waitingHead'[g] \in Futures
                                      /\ (Used(waitingHead'[g]) \/ waitingHead'[g] = f)
         /\ waiterNext'[g] # None => waiterNext'[g] \in Futures
                                     /\ (Used(waiterNext'[g]) \/ waiterNext'[g] = f)
  <2>0. waitingHead \in [Futures -> FutureOrNone] /\ waiterNext \in [Futures -> FutureOrNone]
    BY DEF TypeInv, TypeOK
  <2>1. waitingHead' = waitingHead \/ waitingHead' = [waitingHead EXCEPT ![d] = f]
    BY DEF Accept
  <2>2. \/ waiterNext' = waiterNext
        \/ d \in Futures /\ waiterNext' = [waiterNext EXCEPT ![f] = waitingHead[d]]
    BY <1>0 DEF Accept, LinkWaiter, MustPark
  <2>3. \A g \in Futures : waitingHead'[g] = waitingHead[g] \/ waitingHead'[g] = f
    BY <2>0, <2>1
  <2>4. \A g \in Futures : \/ waiterNext'[g] = waiterNext[g]
                           \/ d \in Futures /\ waiterNext'[g] = waitingHead[d]
    BY <2>0, <2>2
  <2> QED BY <2>3, <2>4, UsedNow
<1>5. \A g \in Futures : /\ Used(g)' => home'[g] \in Executors
                         /\ ready'[g] => Used(g)'
                         /\ Used(g)' /\ dep'[g] # None => Used(dep[g])'
  <2>1. home \in [Futures -> Executors \cup {None}] /\ dep \in [Futures -> FutureOrNone]
    BY DEF TypeInv, TypeOK
  <2>2. \A g \in Futures : /\ home'[g] = IF g = f THEN e ELSE home[g]
                           /\ dep'[g] = IF g = f THEN d ELSE dep[g]
    BY <1>0, <2>1
  <2>3. \A g \in Futures : Used(g) => home[g] \in Executors /\ (dep[g] # None => Used(dep[g]))
    BY DEF TypeInv, UsedInv
  <2>4. \A g \in Futures : dep[g] # None => dep[g] \in Futures BY <2>1
  <2>5. ASSUME NEW g \in Futures, Used(g)', dep'[g] # None PROVE Used(dep[g])'
    <3>1. CASE g = f
      <4>1. dep'[g] = d /\ Used(d) /\ d \in Futures BY <1>0, <2>2, <2>5, <3>1
      <4>2. Used(d)' BY <1>1, <4>1
      <4> QED BY <4>1, <4>2 DEF Used
    <3>2. CASE g # f
      <4>1. dep'[g] = dep[g] /\ Used(g) BY <1>1, <2>2, <2>5, <3>2
      <4>2. Used(dep[g]) /\ dep[g] \in Futures BY <2>3, <2>4, <2>5, <4>1
      <4>3. alloc'[dep[g]] # "unused" BY <1>1, <4>2 DEF Used
      <4> QED BY <4>1, <4>3 DEF Used
    <3> QED BY <3>1, <3>2
  <2> QED BY <1>0, <1>1, <2>2, <2>3, <2>5, UsedNow
<1>6. \A g \in Futures : Used(g) \/ g = f => alloc'[g] # "unused" BY <1>1 DEF Used
<1>7. \A t \in Threads : /\ detached'[t] # None => alloc'[detached'[t]] # "unused"
                         /\ chain'[t] # None => alloc'[chain'[t]] # "unused"
  BY <1>0, <1>6, UsedNow
<1> QED BY <1>2, <1>3, <1>4, <1>5, <1>6, <1>7 DEF UsedInv, Used

LEMMA UnregisteredFrom ==
    ASSUME parked \in [Executors -> Seq(Futures)], NEW e \in Executors, NEW f
    PROVE  \A j \in DOMAIN Unregistered(e, f) : \E i \in DOMAIN parked[e] :
              Unregistered(e, f)[j] = parked[e][i]
<1> DEFINE s == parked[e]
           k == CHOOSE j \in DOMAIN s : s[j] = f
           q == [j \in 1 .. Len(s) - 1 |-> IF j < k THEN s[j] ELSE s[j + 1]]
<1>1. Len(s) \in Nat /\ DOMAIN s = 1 .. Len(s) OBVIOUS
<1>2. Unregistered(e, f) = q BY DEF Unregistered
<1> HIDE DEF s, k
<1>3. \A j \in DOMAIN q : j \in 1 .. Len(s) /\ j + 1 \in 1 .. Len(s) BY <1>1
<1>4. \A j \in DOMAIN q : \E i \in DOMAIN s : q[j] = s[i] BY <1>1, <1>3
<1> QED BY <1>2, <1>4 DEF s

LEMMA WorkerUsed ==
    ASSUME TypeInv, NEW w \in Workers, WorkerOwn(w)
    PROVE  UsedInv'
<1>1. home' = home /\ dep' = dep /\ \A f \in Futures : Used(f)' <=> Used(f) BY UsedSame
<1>2. UNCHANGED <<ready, parked, waitingHead, waiterNext, detached, chain>>
  BY DEF WorkerOwn, Pop, Wait, Check, ReadAntecedent, Run, Publish, PromoteEnd
<1>3. heap' = heap \/ \E f : heap' = [heap EXCEPT ![Home[w]] = @ \ {f}]
  BY DEF WorkerOwn, Pop, Wait, Check, ReadAntecedent, Run, Publish, PromoteEnd
<1>4. heap \in [Executors -> SUBSET Futures] BY DEF TypeInv, TypeOK
<1>5. \A e \in Executors : heap'[e] \subseteq heap[e] BY <1>3, <1>4
<1> QED BY <1>1, <1>2, <1>5, UsedNow, UsedFrame

LEMMA SharedUsed ==
    ASSUME TypeInv, NEW t \in Threads, Shared(t)
    PROVE  UsedInv'
<1>1. home' = home /\ dep' = dep /\ \A f \in Futures : Used(f)' <=> Used(f) BY UsedSame
<1>2. /\ heap \in [Executors -> SUBSET Futures] /\ parked \in [Executors -> Seq(Futures)]
      /\ ready \in [Futures -> BOOLEAN]
      /\ waitingHead \in [Futures -> FutureOrNone] /\ waiterNext \in [Futures -> FutureOrNone]
      /\ detached \in [Threads -> FutureOrNone] /\ chain \in [Threads -> FutureOrNone]
  BY DEF TypeInv, TypeOK
<1>3. CASE Release(t) \/ DestructorCancels(t) \/ DestructorFrees(t)
  <2>1. UNCHANGED <<heap, parked, ready, waitingHead, waiterNext, detached, chain>>
    BY <1>3 DEF Release, DestructorCancels, DestructorFrees
  <2> QED BY <1>1, <2>1, UsedNow, UsedFrame
<1>4. CASE Complete(t)
  <2>1. cur[t] \in Futures /\ Used(cur[t])
    BY <1>4, UsedNow DEF Complete, CarryPcs, HandPcs
  <2>2. /\ ready' = [ready EXCEPT ![cur[t]] = TRUE]
        /\ detached' = [detached EXCEPT ![t] = waitingHead[cur[t]]]
        /\ waitingHead' = [waitingHead EXCEPT ![cur[t]] = None]
        /\ UNCHANGED <<heap, parked, waiterNext, chain>>
    BY <1>4 DEF Complete
  <2>3. \A f \in Futures : ready'[f] => Used(f) BY <1>2, <2>1, <2>2, UsedNow
  <2>4. \A f \in Futures : waitingHead'[f] # None => waitingHead'[f] = waitingHead[f]
    BY <1>2, <2>1, <2>2
  <2>5. \A u \in Threads : \/ detached'[u] = detached[u]
                           \/ detached'[u] = waitingHead[cur[t]]
    BY <1>2, <2>2
  <2>6. \A u \in Threads : detached'[u] # None => detached'[u] \in Futures /\ Used(detached'[u])
    BY <2>1, <2>5, UsedNow
  <2> QED BY <1>1, <2>2, <2>3, <2>4, <2>6, UsedNow, UsedFrame
<1>5. CASE Wake(t)
  <2>1. /\ UNCHANGED <<heap, parked, ready, waitingHead, waiterNext>>
        /\ \/ UNCHANGED <<detached, chain>>
           \/ /\ chain' = [chain EXCEPT ![t] = detached[t]]
              /\ detached' = [detached EXCEPT ![t] = None]
    BY <1>5 DEF Wake
  <2>2. \A u \in Threads : /\ detached'[u] = detached[u] \/ detached'[u] = None
                           /\ chain'[u] = chain[u] \/ chain'[u] = detached[u]
    BY <1>2, <2>1
  <2> QED BY <1>1, <2>1, <2>2, UsedNow, UsedFrame
<1>6. CASE PromoteNext(t)
  <2>1. /\ UNCHANGED <<heap, parked, ready, waitingHead, detached>>
        /\ chain' = [chain EXCEPT ![t] = waiterNext[chain[t]]]
        /\ waiterNext' = [waiterNext EXCEPT ![chain[t]] = None]
        /\ chain[t] # None
    BY <1>6 DEF PromoteNext
  <2>2. chain[t] \in Futures BY <2>1, UsedNow
  <2>3. \A u \in Threads : chain'[u] = chain[u] \/ chain'[u] = waiterNext[chain[t]]
    BY <1>2, <2>1
  <2>4. \A f \in Futures : waiterNext'[f] = waiterNext[f] \/ waiterNext'[f] = None
    BY <1>2, <2>1
  <2> QED BY <1>1, <2>1, <2>2, <2>3, <2>4, UsedNow, UsedFrame
<1>7. CASE PromotePush(t)
  <2> DEFINE e == home[cur[t]]
  <2>1. cur[t] \in Futures /\ Used(cur[t])
    BY <1>7, UsedNow DEF PromotePush, CarryPcs, HandPcs
  <2>2. e \in Executors BY <2>1 DEF TypeInv, UsedInv
  <2>3. /\ UNCHANGED <<ready, waitingHead, waiterNext, detached, chain>>
        /\ \/ UNCHANGED <<parked, heap>>
           \/ /\ parked' = [parked EXCEPT ![e] = Unregistered(e, cur[t])]
              /\ heap' = [heap EXCEPT ![e] = @ \cup {cur[t]}]
    BY <1>7 DEF PromotePush
  <2> HIDE DEF e
  <2>4. \A x \in Executors : heap'[x] \subseteq heap[x] \cup {cur[t]} BY <1>2, <2>2, <2>3
  <2>5. \A x \in Executors : \/ parked'[x] = parked[x]
                             \/ x = e /\ parked'[x] = Unregistered(e, cur[t])
    BY <1>2, <2>3
  <2>6. \A i \in DOMAIN Unregistered(e, cur[t]) :
           Unregistered(e, cur[t])[i] \in Futures /\ Used(Unregistered(e, cur[t])[i])
    BY <1>2, <2>2, UnregisteredFrom, UsedNow
  <2> QED BY <1>1, <2>1, <2>3, <2>4, <2>5, <2>6, UsedNow, UsedFrame
<1> QED BY <1>3, <1>4, <1>5, <1>6, <1>7 DEF Shared

LEMMA DestroyerUsed ==
    ASSUME TypeInv, NEW e \in Executors, DestroyBegin(e) \/ DestroyerOwn(e)
    PROVE  UsedInv'
<1>1. home' = home /\ dep' = dep /\ \A f \in Futures : Used(f)' <=> Used(f) BY UsedSame
<1>2. /\ heap \in [Executors -> SUBSET Futures] /\ parked \in [Executors -> Seq(Futures)]
      /\ waitingHead \in [Futures -> FutureOrNone] /\ waiterNext \in [Futures -> FutureOrNone]
      /\ detached \in [Threads -> FutureOrNone] /\ chain \in [Threads -> FutureOrNone]
      /\ tail \in [Executors -> FutureOrNone] /\ dep \in [Futures -> FutureOrNone]
  BY DEF TypeInv, TypeOK
<1>3. CASE \/ DestroyBegin(e) \/ DrainEnd(e) \/ Join(e) \/ WalkEnd(e) \/ Disposed(e)
           \/ CollectTail(e) \/ DestroyEnd(e)
  <2>1. UNCHANGED <<heap, parked, ready, waitingHead, waiterNext, detached, chain>>
    BY <1>3 DEF DestroyBegin, DrainEnd, Join, WalkEnd, Disposed, CollectTail, DestroyEnd
  <2> QED BY <1>1, <2>1, UsedNow, UsedFrame
<1>4. CASE DrainNext(e)
  <2>1. /\ UNCHANGED <<parked, ready, waitingHead, waiterNext, detached, chain>>
        /\ \E f : heap' = [heap EXCEPT ![e] = @ \ {f}]
    BY <1>4 DEF DrainNext
  <2>2. \A x \in Executors : heap'[x] \subseteq heap[x] BY <1>2, <2>1
  <2> QED BY <1>1, <2>1, <2>2, UsedNow, UsedFrame
<1>5. CASE WalkNext(e)
  <2> DEFINE f == Head(parked[e])
  <2>1. /\ UNCHANGED <<heap, ready, detached, chain>> /\ parked[e] # << >>
        /\ waitingHead' = Unlinked(f)[1] /\ waiterNext' = [Unlinked(f)[2] EXCEPT ![f] = None]
        /\ parked' = [parked EXCEPT ![e] = Tail(@)]
    BY <1>5 DEF WalkNext
  <2>2. f \in Futures BY <1>2, <2>1, TailHas
  <2>3. \A i \in DOMAIN Tail(parked[e]) :
           Tail(parked[e])[i] \in Futures /\ Used(Tail(parked[e])[i])
    BY <1>2, <2>1, TailHas, UsedNow
  <2>4. \A x \in Executors : parked'[x] = parked[x] \/ parked'[x] = Tail(parked[e])
    BY <1>2, <2>1
  <2> HIDE DEF f
  <2>5. \A g \in Futures :
           /\ waitingHead'[g] = waitingHead[g] \/ waitingHead'[g] = waiterNext[f]
           /\ \/ waiterNext'[g] = waiterNext[g] \/ waiterNext'[g] = waiterNext[f]
              \/ waiterNext'[g] = None
    <3>1. \/ Unlinked(f) = <<waitingHead, waiterNext>>
          \/ Unlinked(f) = <<[waitingHead EXCEPT ![dep[f]] = waiterNext[f]], waiterNext>>
          \/ Unlinked(f) = <<waitingHead, [g \in Futures |-> IF waiterNext[g] = f THEN waiterNext[f]
                                           ELSE waiterNext[g]]>>
      BY DEF Unlinked
    <3> QED BY <1>2, <2>1, <2>2, <3>1
  <2> QED BY <1>1, <2>1, <2>2, <2>3, <2>4, <2>5, UsedNow, UsedFrame
<1>6. CASE Collect(e)
  <2>1. /\ UNCHANGED <<heap, parked, ready, waitingHead>>
        /\ detached' = [detached EXCEPT ![e] = None]
        /\ \/ waiterNext' = waiterNext
           \/ waiterNext' = [waiterNext EXCEPT ![tail[e]] = detached[e]]
        /\ chain' = chain \/ chain' = [chain EXCEPT ![e] = detached[e]]
    BY <1>6 DEF Collect
  <2>2. \A u \in Threads : /\ detached'[u] = detached[u] \/ detached'[u] = None
                           /\ chain'[u] = chain[u] \/ chain'[u] = detached[e]
    BY <1>2, <2>1
  <2>3. \A g \in Futures : waiterNext'[g] = waiterNext[g] \/ waiterNext'[g] = detached[e]
    BY <1>2, <2>1
  <2> QED BY <1>1, <2>1, <2>2, <2>3, UsedNow, UsedFrame
<1> QED BY <1>3, <1>4, <1>5, <1>6 DEF DestroyerOwn

LEMMA ProgramUsed ==
    ASSUME TypeInv, ProgramOwn
    PROVE  UsedInv'
<1>1. ASSUME NEW f \in Futures, NEW e \in Executors, NEW d \in FutureOrNone, Accept(f, e, d)
      PROVE  UsedInv'
  BY <1>1, AcceptUsed
<1>2. CASE \/ \E f \in Futures, e \in Executors, d \in FutureOrNone : Reject(f, e, d)
           \/ \E f \in Futures : Cancel(f) \/ TakeValue(f) \/ BeginFree(f) \/ EndFree(f)
  <2>1. home' = home /\ dep' = dep /\ \A f \in Futures : Used(f)' <=> Used(f)
    BY <1>2, UsedSame
  <2>2. UNCHANGED <<heap, parked, ready, waitingHead, waiterNext, detached, chain>>
    BY <1>2 DEF Reject, Cancel, TakeValue, BeginFree, EndFree
  <2> QED BY <2>1, <2>2, UsedNow, UsedFrame
<1> QED BY <1>1, <1>2 DEF ProgramOwn

(* The types and where the threads are, in every step. *)
LEMMA TypeStep == TypeInv /\ [Next]_vars => TypeInv'
<1> SUFFICES ASSUME TypeInv, [Next]_vars PROVE TypeInv'
  OBVIOUS
<1>1. CASE ProgramOwn
  <2>1. TypeOK' BY <1>1, SubmitTypes, FutureTypes DEF ProgramOwn
  <2> QED BY <1>1, <2>1, ProgramControl, ProgramUsed DEF TypeInv
<1>2. ASSUME NEW w \in Workers, WorkerOwn(w) PROVE TypeInv'
  <2>1. TypeOK' BY <1>2, WorkerTypes DEF WorkerOwn
  <2> QED BY <1>2, <2>1, WorkerControl, WorkerUsed DEF TypeInv
<1>3. ASSUME NEW t \in Threads, Shared(t) PROVE TypeInv'
  <2>1. TypeOK' BY <1>3, SharedTypes DEF Shared
  <2> QED BY <1>3, <2>1, SharedControl, SharedUsed DEF TypeInv
<1>4. ASSUME NEW e \in Executors, DestroyBegin(e) \/ DestroyerOwn(e) PROVE TypeInv'
  <2>1. pc[e] # "asleep" BY DEF TypeInv, ControlInv, DestroyerPlace, DestroyPcs
  <2>2. TypeOK' BY <1>4, <2>1, BeginTypes, DestroyerTypes DEF DestroyerOwn
  <2> QED BY <1>4, <2>2, DestroyerControl, DestroyerUsed DEF TypeInv
<1>5. CASE UNCHANGED vars
  BY <1>5 DEF vars, TypeInv, TypeOK, ControlInv, WorkerPlace, DestroyerPlace, Carries,
              UsedInv, Used
<1> QED BY <1>1, <1>2, <1>3, <1>4, <1>5, Steps

(* Every variable has its type, every thread is at a step the code can be at, with a future
   in hand where it needs one, the phase of a shutdown agrees with where its thread is, and
   only futures that were submitted are queued, parked, linked or depended on. *)
THEOREM TypesAlways == Spec => []TypeInv
BY TypeInit, TypeStep, PTL DEF Spec

-----------------------------------------------------------------------------
(* The links *)

LEMMA LinkAt ==
    /\ \A f \in Futures :
          /\ <<"head", f>> \in Links /\ Target[<<"head", f>>] = waitingHead[f]
          /\ <<"next", f>> \in Links /\ Target[<<"next", f>>] = waiterNext[f]
          /\ Target'[<<"head", f>>] = waitingHead'[f]
          /\ Target'[<<"next", f>>] = waiterNext'[f]
    /\ \A t \in Threads :
          /\ <<"detached", t>> \in Links /\ Target[<<"detached", t>>] = detached[t]
          /\ <<"chain", t>> \in Links /\ Target[<<"chain", t>>] = chain[t]
          /\ <<"cur", t>> \in Links
          /\ Target[<<"cur", t>>] = IF pc[t] = "push" THEN cur[t] ELSE None
          /\ Target'[<<"detached", t>>] = detached'[t]
          /\ Target'[<<"chain", t>>] = chain'[t]
          /\ Target'[<<"cur", t>>] = IF pc'[t] = "push" THEN cur'[t] ELSE None
    /\ \A l \in Links :
          \/ \E f \in Futures : l = <<"head", f>> \/ l = <<"next", f>>
          \/ \E t \in Threads : l = <<"detached", t>> \/ l = <<"chain", t>> \/ l = <<"cur", t>>
<1>1. \A l : l \in Links <=> \/ \E f \in Futures : l = <<"head", f>> \/ l = <<"next", f>>
                             \/ \E t \in Threads : l = <<"detached", t>> \/ l = <<"chain", t>>
                                                   \/ l = <<"cur", t>>
  BY DEF Links
<1>2. \A f \in Futures :
          /\ Target[<<"head", f>>] = waitingHead[f]
          /\ Target[<<"next", f>>] = waiterNext[f]
          /\ Target'[<<"head", f>>] = waitingHead'[f]
          /\ Target'[<<"next", f>>] = waiterNext'[f]
  BY <1>1 DEF Target
<1>3. \A t \in Threads :
          /\ Target[<<"detached", t>>] = detached[t]
          /\ Target[<<"chain", t>>] = chain[t]
          /\ Target[<<"cur", t>>] = IF pc[t] = "push" THEN cur[t] ELSE None
          /\ Target'[<<"detached", t>>] = detached'[t]
          /\ Target'[<<"chain", t>>] = chain'[t]
          /\ Target'[<<"cur", t>>] = IF pc'[t] = "push" THEN cur'[t] ELSE None
  BY <1>1 DEF Target
<1> QED BY <1>1, <1>2, <1>3

(* A link leads to a used future. *)
LEMMA LinkUsed ==
    ASSUME TypeInv
    PROVE  \A l \in Links : Target[l] # None => Target[l] \in Futures /\ Used(Target[l])
<1>1. \A f \in Futures : /\ waitingHead[f] # None => waitingHead[f] \in Futures /\ Used(waitingHead[f])
                         /\ waiterNext[f] # None => waiterNext[f] \in Futures /\ Used(waiterNext[f])
  BY UsedNow
<1>2. \A t \in Threads : /\ detached[t] # None => detached[t] \in Futures /\ Used(detached[t])
                         /\ chain[t] # None => chain[t] \in Futures /\ Used(chain[t])
                         /\ pc[t] = "push" => cur[t] \in Futures /\ Used(cur[t])
  BY UsedNow DEF CarryPcs
<1>3. ASSUME NEW l \in Links, Target[l] # None PROVE Target[l] \in Futures /\ Used(Target[l])
  <2>1. CASE \E f \in Futures : l = <<"head", f>> \/ l = <<"next", f>>
    <3>1. PICK f \in Futures : l = <<"head", f>> \/ l = <<"next", f>> BY <2>1
    <3>2. Target[l] = waitingHead[f] \/ Target[l] = waiterNext[f] BY <3>1, LinkAt, ZenonT(40)
    <3> QED BY <1>1, <1>3, <3>2
  <2>2. CASE \E t \in Threads : l = <<"detached", t>> \/ l = <<"chain", t>> \/ l = <<"cur", t>>
    <3>1. PICK t \in Threads : l = <<"detached", t>> \/ l = <<"chain", t>> \/ l = <<"cur", t>>
      BY <2>2
    <3>2. \/ Target[l] = detached[t] \/ Target[l] = chain[t]
          \/ pc[t] = "push" /\ Target[l] = cur[t]
      BY <1>3, <3>1, LinkAt
    <3> QED BY <1>2, <1>3, <3>2
  <2> QED BY <2>1, <2>2, LinkAt
<1> QED BY <1>3

(* A step that passes targets from link to link, and may unregister g. *)
LEMMA LinksPass ==
    ASSUME TypeInv, LinkInv, Grows, NEW g, NEW move \in [Links -> Links],
           \A k, l \in Links : move[k] = move[l] => k = l,
           \A l \in Links : /\ Target'[l] = None \/ Target'[l] = Target[move[l]]
                            /\ Target'[l] # g,
           \A x \in Futures : Used(x) /\ x # g /\ Registered(home[x], x) =>
              Stopping(home[x])' \/ Registered(home[x], x)'
    PROVE  LinkInv'
<1>1. \A k, l \in Links : Target'[k] = Target'[l] /\ Target'[k] # None => k = l
  <2> SUFFICES ASSUME NEW k \in Links, NEW l \in Links, Target'[k] = Target'[l],
                      Target'[k] # None
               PROVE  k = l
    OBVIOUS
  <2>1. Target[move[k]] = Target[move[l]] /\ Target[move[k]] # None OBVIOUS
  <2>2. move[k] = move[l] BY <2>1 DEF LinkInv
  <2> QED BY <2>2
<1>2. ASSUME NEW l \in Links, Target'[l] # None
      PROVE  /\ Used(Target[l])'
             /\ Stopping(home[Target[l]])' \/ Registered(home[Target[l]], Target[l])'
  <2> DEFINE x == Target[move[l]]
  <2>1. Target'[l] = x /\ x # None /\ x # g BY <1>2
  <2>2. x \in Futures /\ Used(x) BY <2>1, LinkUsed
  <2>3. Stopping(home[x]) \/ Registered(home[x], x) BY <2>1 DEF LinkInv
  <2>4. home[x] \in Executors BY <2>2 DEF TypeInv, UsedInv
  <2> HIDE DEF x
  <2>5. alloc'[x] # "unused" /\ home'[x] = home[x] BY <2>2 DEF Grows, Used
  <2>6. \/ phase'[home[x]] # "open"
        \/ \E i \in DOMAIN parked'[home[x]] : parked'[home[x]][i] = x
    BY <2>1, <2>2, <2>3, <2>4 DEF Grows, Stopping, Registered
  <2> QED BY <2>1, <2>5, <2>6 DEF Used, Stopping, Registered
<1> QED BY <1>1, <1>2 DEF LinkInv

(* A step that passes targets along at most three links, dropping some. *)
LEMMA LinksRotate ==
    ASSUME TypeInv, LinkInv, Grows,
           NEW a \in Links, NEW b \in Links, NEW c \in Links, a # b, b # c,
           \A l \in Links \ {a, b, c} : Target'[l] = None \/ Target'[l] = Target[l],
           Target'[a] = None \/ Target'[a] = Target[b],
           Target'[b] = None \/ Target'[b] = Target[c],
           c # a => Target'[c] = None \/ Target'[c] = Target[a],
           \A x \in Futures : Used(x) /\ Registered(home[x], x) =>
              Stopping(home[x])' \/ Registered(home[x], x)'
    PROVE  LinkInv'
<1> DEFINE move == [l \in Links |-> IF l = a THEN b ELSE IF l = b THEN c
                                    ELSE IF l = c THEN a ELSE l]
<1>1. move \in [Links -> Links] OBVIOUS
<1>2. \A k, l \in Links : move[k] = move[l] => k = l OBVIOUS
<1>3. \A l \in Links : Target'[l] = None \/ Target'[l] = Target[move[l]] OBVIOUS
<1> HIDE DEF move
<1>4. \E g : \A l \in Links : Target'[l] # g
  <2>1. PICK g : g \notin {Target'[l] : l \in Links} BY NoSetContainsEverything
  <2> QED BY <2>1
<1>5. PICK g : \A l \in Links : Target'[l] # g BY <1>4
<1>6. \A l \in Links : /\ Target'[l] = None \/ Target'[l] = Target[move[l]]
                       /\ Target'[l] # g
  BY <1>3, <1>5
<1> QED BY <1>1, <1>2, <1>6, LinksPass

(* A step that drops links, and may unregister a future no link leads to. *)
LEMMA LinksDrop ==
    ASSUME TypeInv, LinkInv, Grows, NEW g,
           \A l \in Links : /\ Target'[l] = None \/ Target'[l] = Target[l]
                            /\ Target'[l] # g,
           \A x \in Futures : Used(x) /\ x # g /\ Registered(home[x], x) =>
              Stopping(home[x])' \/ Registered(home[x], x)'
    PROVE  LinkInv'
<1> DEFINE move == [l \in Links |-> l]
<1>1. move \in [Links -> Links] /\ \A l \in Links : move[l] = l OBVIOUS
<1> HIDE DEF move
<1>2. \A k, l \in Links : move[k] = move[l] => k = l BY <1>1
<1>3. \A l \in Links : /\ Target'[l] = None \/ Target'[l] = Target[move[l]]
                       /\ Target'[l] # g
  BY <1>1
<1> QED BY <1>1, <1>2, <1>3, LinksPass

(* The links outside x keep their target or lose it. *)
LEMMA LinksKeep ==
    ASSUME NEW x,
           \A f \in Futures :
              /\ waitingHead'[f] = None \/ waitingHead'[f] = waitingHead[f] \/ <<"head", f>> \in x
              /\ waiterNext'[f] = None \/ waiterNext'[f] = waiterNext[f] \/ <<"next", f>> \in x,
           \A t \in Threads :
              /\ detached'[t] = None \/ detached'[t] = detached[t] \/ <<"detached", t>> \in x
              /\ chain'[t] = None \/ chain'[t] = chain[t] \/ <<"chain", t>> \in x
              /\ \/ pc'[t] = "push" => pc[t] = "push" /\ cur'[t] = cur[t]
                 \/ <<"cur", t>> \in x
    PROVE  \A l \in Links \ x : Target'[l] = None \/ Target'[l] = Target[l]
<1> SUFFICES ASSUME NEW l \in Links, l \notin x
             PROVE  Target'[l] = None \/ Target'[l] = Target[l]
  OBVIOUS
<1>1. CASE \E f \in Futures : l = <<"head", f>> \/ l = <<"next", f>>
  <2>1. PICK f \in Futures : l = <<"head", f>> \/ l = <<"next", f>> BY <1>1
  <2>2. CASE l = <<"head", f>>
    <3>1. Target[l] = waitingHead[f] /\ Target'[l] = waitingHead'[f] BY <2>2, LinkAt
    <3> QED BY <2>2, <3>1
  <2>3. CASE l = <<"next", f>>
    <3>1. Target[l] = waiterNext[f] /\ Target'[l] = waiterNext'[f] BY <2>3, LinkAt
    <3> QED BY <2>3, <3>1
  <2> QED BY <2>1, <2>2, <2>3
<1>2. CASE \E t \in Threads : l = <<"detached", t>> \/ l = <<"chain", t>> \/ l = <<"cur", t>>
  <2>1. PICK t \in Threads : l = <<"detached", t>> \/ l = <<"chain", t>> \/ l = <<"cur", t>>
    BY <1>2
  <2>2. CASE l = <<"detached", t>>
    <3>1. Target[l] = detached[t] /\ Target'[l] = detached'[t] BY <2>2, LinkAt
    <3> QED BY <2>2, <3>1
  <2>3. CASE l = <<"chain", t>>
    <3>1. Target[l] = chain[t] /\ Target'[l] = chain'[t] BY <2>3, LinkAt
    <3> QED BY <2>3, <3>1
  <2>4. CASE l = <<"cur", t>>
    <3>1. /\ Target[l] = IF pc[t] = "push" THEN cur[t] ELSE None
          /\ Target'[l] = IF pc'[t] = "push" THEN cur'[t] ELSE None
      BY <2>4, LinkAt
    <3> QED BY <2>4, <3>1
  <2> QED BY <2>1, <2>2, <2>3, <2>4
<1> QED BY <1>1, <1>2, LinkAt

LEMMA RegisteredSame ==
    ASSUME TypeInv, Grows, parked' = parked
    PROVE  \A x \in Futures : Used(x) /\ Registered(home[x], x) =>
              Stopping(home[x])' \/ Registered(home[x], x)'
BY DEF Grows, Registered

(* Links stay where a step only moves threads that do not push. *)
LEMMA LinksSame ==
    ASSUME TypeInv, LinkInv, Grows, parked' = parked,
           UNCHANGED <<waitingHead, waiterNext, detached, chain>>,
           \A t \in Threads : pc'[t] = "push" => pc[t] = "push" /\ cur'[t] = cur[t]
    PROVE  LinkInv'
<1>1. \A l \in Links \ {} : Target'[l] = None \/ Target'[l] = Target[l]
  BY LinksKeep
<1>2. PICK g : g \notin {Target'[l] : l \in Links} BY NoSetContainsEverything
<1> QED BY <1>1, <1>2, LinksDrop, RegisteredSame

LEMMA ProgramLinks ==
    ASSUME TypeInv, LinkInv, ProgramOwn
    PROVE  LinkInv'
<1>0. Grows /\ Rests /\ UNCHANGED <<cur, detached, chain>> BY ProgramRests
<1>1. \A t \in Threads : pc'[t] = "push" => pc[t] = "push" /\ cur'[t] = cur[t]
  BY <1>0 DEF Rests
<1>2. CASE \/ \E f \in Futures, e \in Executors, d \in FutureOrNone : Reject(f, e, d)
           \/ \E f \in Futures : Cancel(f) \/ TakeValue(f) \/ BeginFree(f) \/ EndFree(f)
  <2>1. UNCHANGED <<parked, waitingHead, waiterNext>>
    BY <1>2 DEF Reject, Cancel, TakeValue, BeginFree, EndFree
  <2> QED BY <1>0, <1>1, <2>1, LinksSame
<1>3. ASSUME NEW f \in Futures, NEW e \in Executors, NEW d \in FutureOrNone, Accept(f, e, d)
      PROVE  LinkInv'
  <2>1. CASE ~MustPark(d)
    <3>1. UNCHANGED <<parked, waitingHead, waiterNext>> BY <1>3, <2>1 DEF Accept
    <3> QED BY <1>0, <1>1, <3>1, LinksSame
  <2>2. CASE MustPark(d)
    <3>0. /\ waitingHead \in [Futures -> FutureOrNone] /\ waiterNext \in [Futures -> FutureOrNone]
          /\ parked \in [Executors -> Seq(Futures)] /\ d \in Futures
          /\ home \in [Futures -> Executors \cup {None}]
          /\ alloc \in [Futures -> {"unused", "live", "closing", "freed"}]
      BY <2>2 DEF TypeInv, TypeOK, MustPark
    <3>1. /\ waiterNext' = [waiterNext EXCEPT ![f] = waitingHead[d]]
          /\ waitingHead' = [waitingHead EXCEPT ![d] = f]
          /\ parked' = [parked EXCEPT ![e] = Append(parked[e], f)]
          /\ home' = [home EXCEPT ![f] = e] /\ alloc' = [alloc EXCEPT ![f] = "live"]
          /\ alloc[f] = "unused"
      BY <1>3, <2>2 DEF Accept, LinkWaiter
    <3> DEFINE h == <<"head", d>>
               n == <<"next", f>>
    <3>2. h \in Links /\ n \in Links /\ Target'[h] = f /\ Target'[n] = Target[h]
      <4>1. waitingHead'[d] = f /\ waiterNext'[f] = waitingHead[d] BY <3>0, <3>1
      <4>2. h \in Links /\ n \in Links BY <3>0 DEF Links
      <4>3. /\ Target'[h] = waitingHead'[d] /\ Target'[n] = waiterNext'[f]
            /\ Target[h] = waitingHead[d]
        BY <3>0, LinkAt
      <4> QED BY <4>1, <4>2, <4>3
    <3>8. h # n OBVIOUS
    <3>3. \A l \in Links \ {h, n} : Target'[l] = None \/ Target'[l] = Target[l]
      <4>1. \A g \in Futures : /\ waitingHead'[g] = waitingHead[g] \/ g = d
                               /\ waiterNext'[g] = waiterNext[g] \/ g = f
        BY <3>0, <3>1
      <4> QED BY <1>0, <1>1, <4>1, LinksKeep
    <3> HIDE DEF h, n
    <3>4. \A l \in Links : Target[l] # f BY <3>1, LinkUsed, Distinct DEF Used
    <3>5. \A k, l \in Links : Target'[k] = Target'[l] /\ Target'[k] # None => k = l
      <4>1. \A k, l \in Links : Target[k] = Target[l] /\ Target[k] # None => k = l
        BY DEF LinkInv
      <4>2. f # None BY Distinct
      <4> QED BY <3>2, <3>8, <3>3, <3>4, <4>1, <4>2
    <3>6. \A x \in Futures : x = f \/ (Used(x) /\ (Stopping(home[x]) \/ Registered(home[x], x))) =>
             /\ alloc'[x] # "unused"
             /\ phase'[home'[x]] # "open" \/ \E i \in DOMAIN parked'[home'[x]] : parked'[home'[x]][i] = x
      <4> SUFFICES ASSUME NEW x \in Futures,
                          x = f \/ (Used(x) /\ (Stopping(home[x]) \/ Registered(home[x], x)))
                   PROVE  /\ alloc'[x] # "unused"
                          /\ \/ phase'[home'[x]] # "open"
                             \/ \E i \in DOMAIN parked'[home'[x]] : parked'[home'[x]][i] = x
        OBVIOUS
      <4>1. parked[e] \in Seq(Futures) BY <3>0
      <4>2. CASE x = f
        <5>1. alloc'[x] = "live" /\ home'[x] = e /\ parked'[e] = Append(parked[e], f)
          BY <3>0, <3>1, <4>2
        <5>2. /\ Len(parked[e]) + 1 \in DOMAIN Append(parked[e], f)
              /\ Append(parked[e], f)[Len(parked[e]) + 1] = f
          BY <4>1
        <5> QED BY <4>2, <5>1, <5>2
      <4>3. CASE x # f
        <5>1. /\ Used(x) /\ (Stopping(home[x]) \/ Registered(home[x], x))
              /\ home[x] \in Executors /\ home'[x] = home[x] /\ alloc'[x] # "unused"
          BY <4>3, <1>0 DEF Grows, Used, TypeInv, UsedInv
        <5>2. CASE Stopping(home[x]) BY <1>0, <5>1, <5>2 DEF Grows, Stopping
        <5>3. CASE Registered(home[x], x)
          <6>1. PICK i \in DOMAIN parked[home[x]] : parked[home[x]][i] = x
            BY <5>3 DEF Registered
          <6>2. CASE home[x] # e
            <7>1. parked'[home[x]] = parked[home[x]] BY <3>0, <3>1, <5>1, <6>2
            <7> QED BY <5>1, <6>1, <7>1
          <6>3. CASE home[x] = e
            <7>1. i \in DOMAIN Append(parked[e], f) /\ Append(parked[e], f)[i] = x
              BY <4>1, <6>1, <6>3
            <7>2. parked'[e] = Append(parked[e], f) BY <3>0, <3>1
            <7> QED BY <5>1, <6>3, <7>1, <7>2
          <6> QED BY <6>2, <6>3
        <5> QED BY <5>1, <5>2, <5>3
      <4> QED BY <4>2, <4>3
    <3>7. ASSUME NEW l \in Links, Target'[l] # None
          PROVE  /\ Used(Target[l])'
                 /\ Stopping(home[Target[l]])' \/ Registered(home[Target[l]], Target[l])'
      <4>1. Target'[l] = f \/ \E k \in Links : Target'[l] = Target[k] BY <3>2, <3>3, <3>7
      <4>2. /\ Target'[l] \in Futures
            /\ \/ Target'[l] = f
               \/ /\ Used(Target'[l])
                  /\ Stopping(home[Target'[l]]) \/ Registered(home[Target'[l]], Target'[l])
        BY <3>7, <4>1, LinkUsed DEF LinkInv
      <4> QED BY <3>6, <4>2 DEF Used, Stopping, Registered
    <3> QED BY <3>5, <3>7 DEF LinkInv
  <2> QED BY <2>1, <2>2
<1> QED BY <1>2, <1>3 DEF ProgramOwn

LEMMA WorkerLinks ==
    ASSUME TypeInv, LinkInv, NEW w \in Workers, WorkerOwn(w)
    PROVE  LinkInv'
<1>0. /\ Grows
      /\ \A u \in Threads \ {w} : cur'[u] = cur[u] /\ (pc'[u] = "push" => pc[u] = "push")
  BY OnlyMine
<1>1. pc'[w] # "push" BY WorkerPaths DEF TypeInv, WorkerOwn, Moves
<1>2. UNCHANGED <<parked, waitingHead, waiterNext, detached, chain>>
  BY DEF WorkerOwn, Pop, Wait, Check, ReadAntecedent, Run, Publish, PromoteEnd
<1> QED BY <1>0, <1>1, <1>2, LinksSame

LEMMA SharedLinks ==
    ASSUME TypeInv, LinkInv, NEW t \in Threads, Shared(t)
    PROVE  LinkInv'
<1>0. /\ Grows
      /\ \A u \in Threads \ {t} : cur'[u] = cur[u] /\ (pc'[u] = "push" => pc[u] = "push")
  BY OnlyMine
<1>00. /\ waitingHead \in [Futures -> FutureOrNone] /\ waiterNext \in [Futures -> FutureOrNone]
       /\ detached \in [Threads -> FutureOrNone] /\ chain \in [Threads -> FutureOrNone]
       /\ cur \in [Threads -> FutureOrNone] /\ parked \in [Executors -> Seq(Futures)]
       /\ TypeOK
  BY DEF TypeInv, TypeOK
<1>1. CASE Release(t) \/ DestructorCancels(t) \/ DestructorFrees(t)
  <2>1. pc'[t] # "push" BY <1>1, <1>00, SharedPaths DEF Moves
  <2>2. UNCHANGED <<parked, waitingHead, waiterNext, detached, chain>>
    BY <1>1 DEF Release, DestructorCancels, DestructorFrees
  <2> QED BY <1>0, <2>1, <2>2, LinksSame
<1>2. CASE Complete(t)
  <2> DEFINE f == cur[t]
             a == <<"detached", t>>
             b == <<"head", f>>
  <2>1. pc'[t] # "push" BY <1>2, <1>00, SharedPaths DEF Moves
  <2>2. f \in Futures BY <1>2, UsedNow DEF Complete, CarryPcs, HandPcs
  <2>3. /\ detached' = [detached EXCEPT ![t] = waitingHead[f]]
        /\ waitingHead' = [waitingHead EXCEPT ![f] = None]
        /\ UNCHANGED <<parked, waiterNext, chain>>
    BY <1>2 DEF Complete
  <2>4. a \in Links /\ b \in Links BY <2>2 DEF Links
  <2>5. a # b OBVIOUS
  <2>6. Target'[a] = Target[b] /\ Target'[b] = None
    <3>1. detached'[t] = waitingHead[f] /\ waitingHead'[f] = None BY <1>00, <2>2, <2>3
    <3>2. /\ Target'[a] = detached'[t] /\ Target'[b] = waitingHead'[f]
          /\ Target[b] = waitingHead[f]
      BY <2>2, LinkAt
    <3> QED BY <3>1, <3>2
  <2>7. \A l \in Links \ {a, b} : Target'[l] = None \/ Target'[l] = Target[l]
    <3>1. /\ \A g \in Futures : waitingHead'[g] = waitingHead[g] \/ g = f
          /\ \A u \in Threads : detached'[u] = detached[u] \/ u = t
      BY <1>00, <2>2, <2>3
    <3> QED BY <1>0, <2>1, <2>3, <3>1, LinksKeep, ZenonT(60)
  <2> HIDE DEF a, b
  <2> QED BY <1>0, <2>3, <2>4, <2>5, <2>6, <2>7, LinksRotate, RegisteredSame
<1>3. CASE Wake(t)
  <2> DEFINE a == <<"chain", t>>
             b == <<"detached", t>>
  <2>1. pc'[t] # "push" BY <1>3, <1>00, SharedPaths DEF Moves
  <2>2. CASE t \notin Workers
    <3>1. UNCHANGED <<parked, waitingHead, waiterNext, detached, chain>>
      BY <1>3, <2>2 DEF Wake
    <3> QED BY <1>0, <2>1, <3>1, LinksSame
  <2>3. CASE t \in Workers
    <3>1. /\ chain' = [chain EXCEPT ![t] = detached[t]]
          /\ detached' = [detached EXCEPT ![t] = None]
          /\ UNCHANGED <<parked, waitingHead, waiterNext>>
      BY <1>3, <2>3 DEF Wake
    <3>2. a \in Links /\ b \in Links BY DEF Links
    <3>3. a # b OBVIOUS
    <3>4. Target'[a] = Target[b] /\ Target'[b] = None
      <4>1. chain'[t] = detached[t] /\ detached'[t] = None BY <1>00, <3>1
      <4>2. /\ Target'[a] = chain'[t] /\ Target'[b] = detached'[t]
            /\ Target[b] = detached[t]
        BY LinkAt
      <4> QED BY <4>1, <4>2
    <3>5. \A l \in Links \ {a, b} : Target'[l] = None \/ Target'[l] = Target[l]
      <4>1. \A u \in Threads : /\ detached'[u] = detached[u] \/ u = t
                               /\ chain'[u] = chain[u] \/ u = t
        BY <1>00, <3>1
      <4> QED BY <1>0, <2>1, <3>1, <4>1, LinksKeep
    <3> HIDE DEF a, b
    <3> QED BY <1>0, <3>1, <3>2, <3>3, <3>4, <3>5, LinksRotate, RegisteredSame
  <2> QED BY <2>2, <2>3
<1>4. CASE PromoteNext(t)
  <2> DEFINE f == chain[t]
             a == <<"cur", t>>
             b == <<"chain", t>>
             c == <<"next", f>>
  <2>1. pc[t] = "promote" /\ pc'[t] = "push" BY <1>4, <1>00, SharedPaths DEF Moves
  <2>2. /\ cur' = [cur EXCEPT ![t] = f] /\ chain' = [chain EXCEPT ![t] = waiterNext[f]]
        /\ waiterNext' = [waiterNext EXCEPT ![f] = None] /\ f # None
        /\ UNCHANGED <<parked, waitingHead, detached>>
    BY <1>4 DEF PromoteNext
  <2>3. f \in Futures BY <1>00, <2>2
  <2>4. a \in Links /\ b \in Links /\ c \in Links BY <2>3 DEF Links
  <2>5. a # b /\ b # c /\ c # a OBVIOUS
  <2>6. Target'[a] = Target[b] /\ Target'[b] = Target[c] /\ Target'[c] = None
    <3>1. cur'[t] = f /\ chain'[t] = waiterNext[f] /\ waiterNext'[f] = None
      BY <1>00, <2>2, <2>3
    <3>2. /\ Target'[a] = cur'[t] /\ Target'[b] = chain'[t] /\ Target'[c] = waiterNext'[f]
          /\ Target[b] = chain[t] /\ Target[c] = waiterNext[f]
      BY <2>1, <2>3, LinkAt
    <3> QED BY <3>1, <3>2
  <2>7. \A l \in Links \ {a, b, c} : Target'[l] = None \/ Target'[l] = Target[l]
    <3>1. /\ \A g \in Futures : waiterNext'[g] = waiterNext[g] \/ g = f
          /\ \A u \in Threads : chain'[u] = chain[u] \/ u = t
      BY <1>00, <2>2, <2>3
    <3> QED BY <1>0, <2>2, <3>1, LinksKeep, ZenonT(60)
  <2> HIDE DEF a, b, c
  <2> QED BY <1>0, <2>2, <2>4, <2>5, <2>6, <2>7, LinksRotate, RegisteredSame
<1>5. CASE PromotePush(t)
  <2> DEFINE f == cur[t]
             e == home[f]
  <2>1. pc[t] = "push" /\ pc'[t] = "promote" BY <1>5, <1>00, SharedPaths DEF Moves
  <2>2. UNCHANGED <<waitingHead, waiterNext, detached, chain>> BY <1>5 DEF PromotePush
  <2>3. f \in Futures /\ Used(f) /\ e \in Executors
    BY <2>1, UsedNow DEF CarryPcs, TypeInv, UsedInv
  <2>4. CASE Stopping(e)
    <3>1. parked' = parked BY <1>5, <2>4 DEF PromotePush
    <3> QED BY <1>0, <2>1, <2>2, <3>1, LinksSame
  <2>5. CASE ~Stopping(e)
    <3>1. parked' = [parked EXCEPT ![e] = Unregistered(e, f)] BY <1>5, <2>5 DEF PromotePush
    <3>2. Target[<<"cur", t>>] = f /\ <<"cur", t>> \in Links BY <2>1, LinkAt
    <3>3. f # None BY <2>3, Distinct
    <3>4. Registered(e, f) BY <2>5, <3>2, <3>3 DEF LinkInv
    <3>5. Target'[<<"cur", t>>] = None BY <2>1, LinkAt
    <3>6. \A l \in Links \ {} : Target'[l] = None \/ Target'[l] = Target[l]
      BY <1>0, <2>1, <2>2, LinksKeep
    <3>7. \A l \in Links : Target'[l] # f BY <3>2, <3>3, <3>5, <3>6 DEF LinkInv
    <3>8. ASSUME NEW x \in Futures, Used(x), x # f, Registered(home[x], x)
          PROVE  Registered(home[x], x)'
      <4>1. home'[x] = home[x] BY <1>0, <3>8 DEF Grows
      <4>2. PICK i \in DOMAIN parked[home[x]] : parked[home[x]][i] = x
        BY <3>8 DEF Registered
      <4>3. CASE home[x] # e
        <5>1. parked'[home[x]] = parked[home[x]]
          BY <1>00, <2>3, <3>1, <3>8, <4>3 DEF TypeInv, UsedInv
        <5> QED BY <4>1, <4>2, <5>1 DEF Registered
      <4>4. CASE home[x] = e
        <5>1. parked'[e] = Unregistered(e, f) BY <1>00, <2>3, <3>1
        <5>2. \E j \in DOMAIN Unregistered(e, f) : Unregistered(e, f)[j] = x
          BY <1>00, <2>3, <3>4, <3>8, <4>2, <4>4, UnregisteredHas
        <5> QED BY <4>1, <4>4, <5>1, <5>2 DEF Registered
      <4> QED BY <4>3, <4>4
    <3> QED BY <1>0, <3>6, <3>7, <3>8, LinksDrop
  <2> QED BY <2>4, <2>5
<1> QED BY <1>1, <1>2, <1>3, <1>4, <1>5 DEF Shared

LEMMA DestroyerLinks ==
    ASSUME TypeInv, LinkInv, NEW e \in Executors, DestroyBegin(e) \/ DestroyerOwn(e)
    PROVE  LinkInv'
<1>0. /\ Grows
      /\ \A u \in Threads \ {e} : cur'[u] = cur[u] /\ (pc'[u] = "push" => pc[u] = "push")
  BY OnlyMine
<1>00. /\ waitingHead \in [Futures -> FutureOrNone] /\ waiterNext \in [Futures -> FutureOrNone]
       /\ detached \in [Threads -> FutureOrNone] /\ chain \in [Threads -> FutureOrNone]
       /\ tail \in [Executors -> FutureOrNone] /\ parked \in [Executors -> Seq(Futures)]
       /\ TypeOK
  BY DEF TypeInv, TypeOK
<1>1. pc'[e] # "push" /\ DestroyerPlace(e)
  <2>1. DestroyerPlace(e) /\ pc[e] # "asleep"
    BY DEF TypeInv, ControlInv, DestroyerPlace, DestroyPcs
  <2>2. CASE Join(e) BY <1>00, <2>1, <2>2, DestroyerPaths DEF Join, DestroyerPlace
  <2>3. CASE ~Join(e) BY <1>00, <2>1, <2>3, DestroyerPaths DEF DestroyerOwn, Moves
  <2> QED BY <2>1, <2>2, <2>3
<1>2. CASE \/ DestroyBegin(e) \/ DrainNext(e) \/ DrainEnd(e) \/ Join(e) \/ WalkEnd(e)
           \/ Disposed(e) \/ CollectTail(e) \/ DestroyEnd(e)
  <2>1. UNCHANGED <<parked, waitingHead, waiterNext, detached, chain>>
    BY <1>2 DEF DestroyBegin, DrainNext, DrainEnd, Join, WalkEnd, Disposed, CollectTail,
                DestroyEnd
  <2> QED BY <1>0, <1>1, <2>1, LinksSame
<1>3. CASE WalkNext(e)
  <2> DEFINE f == Head(parked[e])
             d == dep[f]
             c == <<"next", f>>
  <2>1. /\ UNCHANGED <<home, detached, chain, phase>> /\ parked[e] # << >> /\ phase[e] = "walk"
        /\ waitingHead' = Unlinked(f)[1] /\ waiterNext' = [Unlinked(f)[2] EXCEPT ![f] = None]
        /\ parked' = [parked EXCEPT ![e] = Tail(@)]
    BY <1>3 DEF WalkNext
  <2>2. f \in Futures BY <1>00, <2>1, TailHas
  <2>3. \A x \in Futures : Used(x) /\ Registered(home[x], x) =>
           Stopping(home[x])' \/ Registered(home[x], x)'
    BY <1>00, <2>1 DEF TypeInv, UsedInv, Registered, Stopping
  <2>4. c \in Links /\ Target[c] = waiterNext[f] BY <2>2, LinkAt
  <2> HIDE DEF f
  <2>5. \/ Unlinked(f) = <<waitingHead, waiterNext>>
        \/ /\ d \in Futures /\ waitingHead[d] = f
           /\ Unlinked(f) = <<[waitingHead EXCEPT ![d] = waiterNext[f]], waiterNext>>
        \/ Unlinked(f) = <<waitingHead, [g \in Futures |-> IF waiterNext[g] = f THEN waiterNext[f]
                                         ELSE waiterNext[g]]>>
    <3>1. \/ Unlinked(f) = <<waitingHead, waiterNext>>
          \/ /\ waitingHead[d] = f
             /\ Unlinked(f) = <<[waitingHead EXCEPT ![d] = waiterNext[f]], waiterNext>>
          \/ Unlinked(f) = <<waitingHead, [g \in Futures |-> IF waiterNext[g] = f THEN waiterNext[f]
                                         ELSE waiterNext[g]]>>
      BY DEF Unlinked
    <3>2. d \notin Futures => [waitingHead EXCEPT ![d] = waiterNext[f]] = waitingHead
      BY <1>00
    <3> QED BY <3>1, <3>2
  <2>6. CASE /\ d \in Futures /\ waitingHead[d] = f
             /\ Unlinked(f) = <<[waitingHead EXCEPT ![d] = waiterNext[f]], waiterNext>>
    <3> DEFINE b == <<"head", d>>
    <3>1. /\ waitingHead'[d] = waiterNext[f] /\ waiterNext'[f] = None
          /\ \A g \in Futures : waitingHead'[g] = waitingHead[g] \/ g = d
          /\ \A g \in Futures : waiterNext'[g] = waiterNext[g] \/ g = f
      BY <1>00, <2>1, <2>2, <2>6
    <3>2. b \in Links /\ Target'[b] = waitingHead'[d] BY <2>6, LinkAt
    <3>3. Target'[c] = waiterNext'[f] BY <2>2, LinkAt
    <3>4. b # c OBVIOUS
    <3>5. \A l \in Links \ {b, c} : Target'[l] = None \/ Target'[l] = Target[l]
      BY <1>0, <1>1, <2>1, <3>1, LinksKeep, ZenonT(60)
    <3> HIDE DEF b, c
    <3> QED BY <1>0, <2>3, <2>4, <3>1, <3>2, <3>3, <3>4, <3>5, LinksRotate
  <2>7. CASE \/ Unlinked(f) = <<waitingHead, waiterNext>>
             \/ /\ Unlinked(f) = <<waitingHead, [g \in Futures |->
                                      IF waiterNext[g] = f THEN waiterNext[f] ELSE waiterNext[g]]>>
                /\ \A g \in Futures : g # f => waiterNext[g] # f
    <3>1. \A g \in Futures : /\ waitingHead'[g] = waitingHead[g]
                             /\ waiterNext'[g] = None \/ waiterNext'[g] = waiterNext[g]
      BY <1>00, <2>1, <2>2, <2>7
    <3>2. \A l \in Links \ {} : Target'[l] = None \/ Target'[l] = Target[l]
      BY <1>0, <1>1, <2>1, <3>1, LinksKeep
    <3>3. PICK g : g \notin {Target'[l] : l \in Links} BY NoSetContainsEverything
    <3>4. \A l \in Links : Target'[l] # g BY <3>3
    <3> QED BY <1>0, <2>3, <3>2, <3>4, LinksDrop
  <2>8. ASSUME NEW p \in Futures, p # f, waiterNext[p] = f,
               Unlinked(f) = <<waitingHead, [g \in Futures |->
                                  IF waiterNext[g] = f THEN waiterNext[f] ELSE waiterNext[g]]>>
        PROVE  LinkInv'
    <3> DEFINE b == <<"next", p>>
    <3>0. \A g \in Futures : waiterNext[g] = f => g = p
      <4> SUFFICES ASSUME NEW g \in Futures, waiterNext[g] = f PROVE g = p
        OBVIOUS
      <4>1. /\ <<"next", g>> \in Links /\ <<"next", p>> \in Links
            /\ Target[<<"next", g>>] = f /\ Target[<<"next", p>>] = f
        BY <2>8, LinkAt
      <4>2. f # None BY <2>2, Distinct
      <4>3. <<"next", g>> = <<"next", p>> BY <4>1, <4>2 DEF LinkInv
      <4> QED BY <4>3
    <3>1. /\ waiterNext'[p] = waiterNext[f] /\ waiterNext'[f] = None
          /\ \A g \in Futures : waitingHead'[g] = waitingHead[g]
          /\ \A g \in Futures : waiterNext'[g] = waiterNext[g] \/ g = f \/ g = p
      BY <1>00, <2>1, <2>2, <2>8, <3>0
    <3>2. b \in Links /\ Target'[b] = waiterNext'[p] BY <2>8, LinkAt
    <3>3. Target'[c] = waiterNext'[f] BY <2>2, LinkAt
    <3>4. b # c BY <2>8
    <3>5. \A l \in Links \ {b, c} : Target'[l] = None \/ Target'[l] = Target[l]
      BY <1>0, <1>1, <2>1, <3>1, LinksKeep, ZenonT(60)
    <3> HIDE DEF b, c
    <3> QED BY <1>0, <2>3, <2>4, <3>1, <3>2, <3>3, <3>4, <3>5, LinksRotate
  <2> QED BY <2>5, <2>6, <2>7, <2>8
<1>4. CASE Collect(e)
  <2> DEFINE a == <<"detached", e>>
  <2>1. /\ UNCHANGED <<parked, waitingHead>>
        /\ detached' = [detached EXCEPT ![e] = None]
        /\ \/ UNCHANGED <<waiterNext, chain>>
           \/ /\ tail[e] # None /\ chain' = chain
              /\ waiterNext' = [waiterNext EXCEPT ![tail[e]] = detached[e]]
           \/ /\ waiterNext' = waiterNext
              /\ chain' = [chain EXCEPT ![e] = detached[e]]
    BY <1>4 DEF Collect
  <2>2. /\ a \in Links /\ Target'[a] = None /\ Target[a] = detached[e]
        /\ \A u \in Threads : detached'[u] = detached[u] \/ detached'[u] = None
    BY <1>00, <2>1, LinkAt
  <2>3. CASE UNCHANGED <<waiterNext, chain>>
    <3>2. \A l \in Links \ {} : Target'[l] = None \/ Target'[l] = Target[l]
      BY <1>0, <1>1, <2>1, <2>2, <2>3, LinksKeep
    <3>3. PICK g : g \notin {Target'[l] : l \in Links} BY NoSetContainsEverything
    <3>4. \A l \in Links : Target'[l] # g BY <3>3
    <3> QED BY <1>0, <2>1, <3>2, <3>4, LinksDrop, RegisteredSame
  <2>4. CASE /\ tail[e] # None /\ chain' = chain
             /\ waiterNext' = [waiterNext EXCEPT ![tail[e]] = detached[e]]
    <3> DEFINE b == <<"next", tail[e]>>
    <3>1. tail[e] \in Futures BY <1>00, <2>4
    <3>2. b \in Links /\ Target'[b] = waiterNext'[tail[e]] BY <3>1, LinkAt
    <3>3. waiterNext'[tail[e]] = detached[e] BY <1>00, <2>4, <3>1
    <3>4. a # b OBVIOUS
    <3>5. \A l \in Links \ {a, b} : Target'[l] = None \/ Target'[l] = Target[l]
      <4>1. \A g \in Futures : waiterNext'[g] = waiterNext[g] \/ g = tail[e]
        BY <1>00, <2>4, <3>1
      <4>2. \A f \in Futures :
               /\ waitingHead'[f] = waitingHead[f]
               /\ waiterNext'[f] = waiterNext[f] \/ <<"next", f>> \in {a, b}
        BY <2>1, <4>1
      <4>3. \A t \in Threads :
               /\ detached'[t] = None \/ detached'[t] = detached[t]
               /\ chain'[t] = chain[t]
               /\ pc'[t] = "push" => pc[t] = "push" /\ cur'[t] = cur[t]
        BY <1>0, <1>1, <2>1, <2>2, <2>4
      <4> QED BY ONLY <4>2, <4>3, LinksKeep
    <3> HIDE DEF a, b
    <3> QED BY <1>0, <2>1, <2>2, <3>2, <3>3, <3>4, <3>5, LinksRotate, RegisteredSame
  <2>5. CASE waiterNext' = waiterNext /\ chain' = [chain EXCEPT ![e] = detached[e]]
    <3> DEFINE b == <<"chain", e>>
    <3>2. b \in Links /\ Target'[b] = chain'[e] BY LinkAt
    <3>3. chain'[e] = detached[e] BY <1>00, <2>5
    <3>4. a # b OBVIOUS
    <3>5. \A l \in Links \ {a, b} : Target'[l] = None \/ Target'[l] = Target[l]
      <4>1. \A u \in Threads : chain'[u] = chain[u] \/ u = e BY <1>00, <2>5
      <4>2. waiterNext' = waiterNext /\ waitingHead' = waitingHead BY <2>1, <2>5
      <4> QED BY <1>0, <1>1, <2>2, <4>1, <4>2, LinksKeep
    <3> HIDE DEF a, b
    <3> QED BY <1>0, <2>1, <2>2, <3>2, <3>3, <3>4, <3>5, LinksRotate, RegisteredSame
  <2> QED BY <2>1, <2>3, <2>4, <2>5
<1> QED BY <1>2, <1>3, <1>4 DEF DestroyerOwn

LEMMA LinkStep == TypeInv /\ LinkInv /\ [Next]_vars => LinkInv'
<1> SUFFICES ASSUME TypeInv, LinkInv, [Next]_vars PROVE LinkInv'
  OBVIOUS
<1>1. CASE UNCHANGED vars
  <2>1. Target' = Target BY <1>1 DEF vars, Target
  <2> QED BY <1>1, <2>1 DEF vars, LinkInv, Used, Stopping, Registered
<1> QED BY <1>1, ProgramLinks, WorkerLinks, SharedLinks, DestroyerLinks, Steps

LEMMA LinkInit == Init => LinkInv
<1> SUFFICES ASSUME Init, NEW l \in Links PROVE Target[l] = None
  BY DEF LinkInv
<1>1. /\ \A f \in Futures : waitingHead[f] = None /\ waiterNext[f] = None
      /\ \A t \in Threads : detached[t] = None /\ chain[t] = None /\ cur[t] = None
  BY DEF Init
<1>2. CASE \E f \in Futures : l = <<"head", f>> \/ l = <<"next", f>>
  <2>1. PICK f \in Futures : l = <<"head", f>> \/ l = <<"next", f>> BY <1>2
  <2>2. Target[l] = waitingHead[f] \/ Target[l] = waiterNext[f] BY <2>1, LinkAt
  <2> QED BY <1>1, <2>2
<1>3. CASE \E t \in Threads : l = <<"detached", t>> \/ l = <<"chain", t>> \/ l = <<"cur", t>>
  <2>1. PICK t \in Threads : l = <<"detached", t>> \/ l = <<"chain", t>> \/ l = <<"cur", t>>
    BY <1>3
  <2>2. \/ Target[l] = detached[t] \/ Target[l] = chain[t] \/ Target[l] = cur[t]
        \/ Target[l] = None
    BY <2>1, LinkAt
  <2> QED BY <1>1, <2>2
<1> QED BY <1>2, <1>3, LinkAt

-----------------------------------------------------------------------------
(* Every unfinished future is in one place *)

(* A step that moves no future. *)
LEMMA PlaceSame ==
    ASSUME PlaceInv, UNCHANGED <<heap, parked, ready, home>>,
           \A f \in Futures : Used(f)' <=> Used(f),
           \A t \in Threads : /\ pc'[t] \in HandPcs <=> pc[t] \in HandPcs
                              /\ pc[t] \in HandPcs => cur'[t] = cur[t]
    PROVE  PlaceInv'
<1>1. HeapPlace' BY DEF PlaceInv, HeapPlace, Registered
<1>2. ParkedPlace' BY DEF PlaceInv, ParkedPlace
<1>3. \A t \in Threads : \A f : InHand(t, f)' <=> InHand(t, f) BY DEF InHand
<1>4. HandPlace'
  <2> SUFFICES ASSUME NEW t \in Threads, pc'[t] \in HandPcs
               PROVE  /\ home'[cur'[t]] = ExecutorOf(t) /\ ~ready'[cur'[t]]
                      /\ cur'[t] \notin heap'[home'[cur'[t]]]
                      /\ ~Registered(home[cur[t]], cur[t])'
                      /\ \A u \in Threads : InHand(u, cur[t])' => u = t
    BY DEF HandPlace, ExecutorOf
  <2>1. pc[t] \in HandPcs /\ cur'[t] = cur[t] OBVIOUS
  <2>2. \A u \in Threads : InHand(u, cur[t])' => InHand(u, cur[t])
    BY <2>1 DEF InHand
  <2> QED BY <2>1, <2>2 DEF PlaceInv, HandPlace, Registered
<1>5. Placed'
  <2> SUFFICES ASSUME NEW f \in Futures, Unfinished(f)'
               PROVE  \/ f \in heap'[home'[f]] \/ Registered(home[f], f)'
                      \/ \E t \in Threads : InHand(t, f)'
    BY DEF Placed
  <2>1. Unfinished(f) BY DEF Unfinished, Used
  <2> QED BY <1>3, <2>1 DEF PlaceInv, Placed, Registered
<1> QED BY <1>1, <1>2, <1>4, <1>5 DEF PlaceInv

(* A thread takes a future from the heap or from the registry of its executor. *)
LEMMA PlaceTaken ==
    ASSUME TypeInv, PlaceInv, UNCHANGED <<ready, home>>,
           \A f \in Futures : Used(f)' <=> Used(f),
           NEW t \in Threads, NEW f \in Futures, NEW e \in Executors, e = ExecutorOf(t),
           pc[t] \notin HandPcs, pc'[t] \in HandPcs, cur'[t] = f,
           \A u \in Threads \ {t} : /\ pc'[u] \in HandPcs <=> pc[u] \in HandPcs
                                    /\ cur'[u] = cur[u],
           \/ /\ parked' = parked /\ f \in heap[e]
              /\ heap' = [heap EXCEPT ![e] = @ \ {f}]
           \/ /\ heap' = heap /\ parked[e] # << >> /\ f = Head(parked[e])
              /\ parked' = [parked EXCEPT ![e] = Tail(@)]
    PROVE  PlaceInv'
<1>0. /\ heap \in [Executors -> SUBSET Futures] /\ parked \in [Executors -> Seq(Futures)]
  BY DEF TypeInv, TypeOK
<1>1. \A x \in Executors : heap'[x] \subseteq heap[x]
  BY <1>0
<1>2. \A x \in Executors : \A g : Registered(x, g)' => Registered(x, g)
  <2>1. CASE parked' = parked BY <2>1 DEF Registered
  <2>2. CASE parked[e] # << >> /\ parked' = [parked EXCEPT ![e] = Tail(@)]
    <3>1. \A x \in Executors : x # e => parked'[x] = parked[x] BY <1>0, <2>2
    <3>2. parked'[e] = Tail(parked[e]) BY <1>0, <2>2
    <3>3. \A j \in DOMAIN Tail(parked[e]) : \E i \in DOMAIN parked[e] :
             Tail(parked[e])[j] = parked[e][i]
      BY <1>0, <2>2, TailHas
    <3>4. \A g : Registered(e, g)' => Registered(e, g) BY <3>2, <3>3 DEF Registered
    <3>5. \A x \in Executors : x # e => \A g : Registered(x, g)' => Registered(x, g)
      BY <3>1 DEF Registered
    <3> QED BY <3>4, <3>5
  <2> QED BY <2>1, <2>2
<1>3. HeapPlace'
  <2> SUFFICES ASSUME NEW x \in Executors, NEW g \in heap'[x]
               PROVE  home'[g] = x /\ ~ready'[g] /\ ~Registered(x, g)'
    BY DEF HeapPlace
  <2> QED BY <1>1, <1>2 DEF PlaceInv, HeapPlace
<1>4. ParkedPlace'
  <2>1. CASE parked' = parked BY <2>1 DEF PlaceInv, ParkedPlace
  <2>2. CASE parked[e] # << >> /\ parked' = [parked EXCEPT ![e] = Tail(@)]
    <3>1. \A x \in Executors : x # e => parked'[x] = parked[x] BY <1>0, <2>2
    <3>2. parked'[e] = Tail(parked[e]) BY <1>0, <2>2
    <3>3. \A j \in DOMAIN Tail(parked[e]) :
             j \in Nat /\ j + 1 \in DOMAIN parked[e] /\ Tail(parked[e])[j] = parked[e][j + 1]
      BY <1>0, <2>2, TailHas
    <3>4. /\ \A i \in DOMAIN parked'[e] :
                home'[parked'[e][i]] = e /\ ~ready'[parked'[e][i]]
          /\ \A i, j \in DOMAIN parked'[e] : parked'[e][i] = parked'[e][j] => i = j
      BY <3>2, <3>3 DEF PlaceInv, ParkedPlace
    <3>5. \A x \in Executors : x # e =>
             /\ \A i \in DOMAIN parked'[x] :
                   home'[parked'[x][i]] = x /\ ~ready'[parked'[x][i]]
             /\ \A i, j \in DOMAIN parked'[x] : parked'[x][i] = parked'[x][j] => i = j
      BY <3>1 DEF PlaceInv, ParkedPlace
    <3> QED BY <3>4, <3>5 DEF ParkedPlace
  <2> QED BY <2>1, <2>2
<1>5. home[f] = e /\ ~ready[f] /\ f \notin heap'[e] /\ ~Registered(e, f)'
  <2>1. CASE parked' = parked /\ f \in heap[e] /\ heap' = [heap EXCEPT ![e] = @ \ {f}]
    BY <1>0, <1>2, <2>1 DEF PlaceInv, HeapPlace
  <2>2. CASE /\ heap' = heap /\ parked[e] # << >> /\ f = Head(parked[e])
             /\ parked' = [parked EXCEPT ![e] = Tail(@)]
    <3>1. 1 \in DOMAIN parked[e] /\ f = parked[e][1] BY <1>0, <2>2, TailHas
    <3>2. home[f] = e /\ ~ready[f] BY <3>1 DEF PlaceInv, ParkedPlace
    <3>3. Registered(e, f) BY <3>1 DEF Registered
    <3>4. f \notin heap'[e] BY <2>2, <3>3 DEF PlaceInv, HeapPlace
    <3>5. parked'[e] = Tail(parked[e]) BY <1>0, <2>2
    <3>6. \A j \in DOMAIN Tail(parked[e]) :
             j \in Nat /\ j # 0 /\ j + 1 \in DOMAIN parked[e]
             /\ Tail(parked[e])[j] = parked[e][j + 1]
      BY <1>0, <2>2, TailHas
    <3>7. \A j \in DOMAIN Tail(parked[e]) : Tail(parked[e])[j] # f
      BY <3>1, <3>6 DEF PlaceInv, ParkedPlace
    <3> QED BY <3>2, <3>4, <3>5, <3>7 DEF Registered
  <2> QED BY <2>1, <2>2
<1>6. \A u \in Threads : ~InHand(u, f)
  <2>1. f \in heap[e] \/ Registered(e, f)
    <3>1. CASE parked[e] # << >> /\ f = Head(parked[e])
      BY <1>0, <3>1, TailHas DEF Registered
    <3> QED BY <3>1
  <2> QED BY <1>5, <2>1 DEF PlaceInv, HandPlace, InHand
<1>7. HandPlace'
  <2> SUFFICES ASSUME NEW v \in Threads, pc'[v] \in HandPcs
               PROVE  /\ home'[cur'[v]] = ExecutorOf(v) /\ ~ready'[cur'[v]]
                      /\ cur'[v] \notin heap'[home'[cur'[v]]]
                      /\ ~Registered(home[cur[v]], cur[v])'
                      /\ \A u \in Threads : InHand(u, cur[v])' => u = v
    BY DEF HandPlace, ExecutorOf
  <2>1. CASE v = t
    <3>1. cur'[v] = f /\ home'[f] = e BY <1>5, <2>1
    <3>2. \A u \in Threads : InHand(u, cur[v])' => u = v
      BY <1>6, <2>1, <3>1 DEF InHand
    <3> QED BY <1>5, <2>1, <3>1, <3>2 DEF Registered
  <2>2. CASE v # t
    <3> DEFINE g == cur[v]
    <3>1. cur'[v] = g /\ pc[v] \in HandPcs /\ InHand(v, g) BY <2>2 DEF InHand
    <3>2. /\ home[g] = ExecutorOf(v) /\ ~ready[g] /\ g \notin heap[home[g]]
          /\ ~Registered(home[g], g) /\ \A u \in Threads : InHand(u, g) => u = v
      BY <3>1 DEF PlaceInv, HandPlace
    <3>3. g # f BY <1>6, <3>1
    <3>4. home[g] \in Executors BY <3>2, Distinct DEF ExecutorOf
    <3> HIDE DEF g
    <3>5. g \notin heap'[home[g]] /\ ~\E i \in DOMAIN parked'[home[g]] : parked'[home[g]][i] = g
      BY <1>1, <1>2, <3>2, <3>4 DEF Registered
    <3>6. \A u \in Threads : cur'[u] = g /\ pc'[u] \in HandPcs => u = v
      BY <3>2, <3>3 DEF InHand
    <3> QED BY <3>1, <3>2, <3>5, <3>6 DEF Registered, InHand
  <2> QED BY <2>1, <2>2
<1>8. Placed'
  <2> SUFFICES ASSUME NEW g \in Futures, Unfinished(g)'
               PROVE  \/ g \in heap'[home'[g]] \/ Registered(home[g], g)'
                      \/ \E u \in Threads : InHand(u, g)'
    BY DEF Placed
  <2>1. Unfinished(g) BY DEF Unfinished, Used
  <2>2. CASE g = f BY <2>2 DEF InHand
  <2>3. CASE g # f /\ \E u \in Threads : InHand(u, g)
    BY <2>3 DEF InHand
  <2>4. CASE g # f /\ g \in heap[home[g]]
    <3>1. home[g] \in Executors BY <2>1 DEF Unfinished, Used, TypeInv, UsedInv
    <3> QED BY <1>0, <2>4, <3>1
  <2>5. CASE g # f /\ Registered(home[g], g)
    <3>1. home[g] \in Executors BY <2>1 DEF Unfinished, Used, TypeInv, UsedInv
    <3>2. PICK i \in DOMAIN parked[home[g]] : parked[home[g]][i] = g
      BY <2>5 DEF Registered
    <3>3. CASE parked'[home[g]] = parked[home[g]] BY <3>2, <3>3 DEF Registered
    <3>4. CASE /\ home[g] = e /\ parked[e] # << >> /\ f = Head(parked[e])
               /\ parked' = [parked EXCEPT ![e] = Tail(@)]
      <4>1. parked'[e] = Tail(parked[e]) BY <1>0, <3>4
      <4>2. i # 1 BY <1>0, <2>5, <3>2, <3>4, TailHas
      <4>3. i - 1 \in DOMAIN Tail(parked[e]) /\ Tail(parked[e])[i - 1] = g
        BY <1>0, <3>2, <3>4, <4>2, TailHas
      <4> QED BY <3>4, <4>1, <4>3 DEF Registered
    <3> QED BY <1>0, <3>1, <3>3, <3>4
  <2> QED BY <2>1, <2>2, <2>3, <2>4, <2>5 DEF PlaceInv, Placed
<1> QED BY <1>3, <1>4, <1>7, <1>8 DEF PlaceInv

(* A step that makes one future, which is nowhere, used and puts it in the heap or at
   the end of the registry. *)
LEMMA PlaceAccepted ==
    ASSUME TypeInv, PlaceInv, NEW f \in Futures, NEW e \in Executors, NEW d \in FutureOrNone,
           Accept(f, e, d)
    PROVE  PlaceInv'
<1>0. /\ heap \in [Executors -> SUBSET Futures] /\ parked \in [Executors -> Seq(Futures)]
      /\ home \in [Futures -> Executors \cup {None}]
      /\ alloc \in [Futures -> {"unused", "live", "closing", "freed"}]
  BY DEF TypeInv, TypeOK
<1>1. /\ alloc' = [alloc EXCEPT ![f] = "live"] /\ home' = [home EXCEPT ![f] = e]
      /\ ready' = ready /\ cur' = cur /\ alloc[f] = "unused"
      /\ \/ parked' = parked /\ heap' = [heap EXCEPT ![e] = @ \cup {f}]
         \/ heap' = heap /\ parked' = [parked EXCEPT ![e] = Append(parked[e], f)]
  BY DEF Accept
<1>2. \A g \in Futures : /\ home'[g] = IF g = f THEN e ELSE home[g]
                         /\ Used(g)' <=> Used(g) \/ g = f
                         /\ Used(g) => home[g] \in Executors
  BY <1>0, <1>1 DEF Used, TypeInv, UsedInv
<1>3. \A u \in Threads : /\ pc'[u] \in HandPcs <=> pc[u] \in HandPcs
                         /\ pc[u] \in HandPcs => cur[u] \in Futures /\ Used(cur[u]) /\ cur[u] # f
  <2>1. Rests BY ProgramRests DEF ProgramOwn
  <2>2. \A u \in Threads : pc[u] \in HandPcs => cur[u] \in Futures /\ Used(cur[u])
    BY UsedNow DEF CarryPcs
  <2> QED BY <1>1, <2>1, <2>2 DEF Rests, HandPcs, CurrentPcs, Used
<1>4. ~Used(f) /\ ~ready[f] /\ \A x \in Executors : f \notin heap[x] /\ ~Registered(x, f)
  <2>1. ~Used(f) BY <1>1 DEF Used
  <2> QED BY <2>1, UsedNow DEF Registered
<1>5. \A x \in Executors : \A g : g # f => (g \in heap'[x] <=> g \in heap[x])
  BY <1>0, <1>1
<1>6. \A x \in Executors : \A i \in DOMAIN parked[x] :
         i \in DOMAIN parked'[x] /\ parked'[x][i] = parked[x][i]
  <2>1. CASE parked' = parked BY <2>1
  <2>2. CASE parked' = [parked EXCEPT ![e] = Append(parked[e], f)]
    <3>1. parked'[e] = Append(parked[e], f) /\ parked[e] \in Seq(Futures) BY <1>0, <2>2
    <3>2. \A i \in DOMAIN parked[e] :
             i \in DOMAIN parked'[e] /\ parked'[e][i] = parked[e][i]
      BY <3>1
    <3>3. \A x \in Executors : x # e => parked'[x] = parked[x] BY <1>0, <2>2
    <3> QED BY <3>2, <3>3
  <2> QED BY <1>1, <2>1, <2>2
<1>7. \A x \in Executors : \A i \in DOMAIN parked'[x] :
         \/ i \in DOMAIN parked[x] /\ parked'[x][i] = parked[x][i]
         \/ x = e /\ heap' = heap /\ i = Len(parked[e]) + 1 /\ parked'[x][i] = f
  <2>1. CASE parked' = parked BY <2>1
  <2>2. CASE heap' = heap /\ parked' = [parked EXCEPT ![e] = Append(parked[e], f)]
    <3>1. parked'[e] = Append(parked[e], f) /\ parked[e] \in Seq(Futures) BY <1>0, <2>2
    <3>2. \A i \in DOMAIN parked'[e] :
             \/ i \in DOMAIN parked[e] /\ parked'[e][i] = parked[e][i]
             \/ i = Len(parked[e]) + 1 /\ parked'[e][i] = f
      BY <3>1
    <3>3. \A x \in Executors : x # e => parked'[x] = parked[x] BY <1>0, <2>2
    <3> QED BY <2>2, <3>2, <3>3
  <2> QED BY <1>1, <2>1, <2>2
<1>8. \A x \in Executors : \A g : g # f => (Registered(x, g)' <=> Registered(x, g))
  BY <1>6, <1>7 DEF Registered
<1>9. HeapPlace'
  <2> SUFFICES ASSUME NEW x \in Executors, NEW g \in heap'[x]
               PROVE  home'[g] = x /\ ~ready'[g] /\ ~Registered(x, g)'
    BY DEF HeapPlace
  <2>1. CASE g = f
    <3>1. heap' # heap BY <1>4, <2>1
    <3>2. x = e /\ parked' = parked BY <1>0, <1>1, <1>4, <2>1, <3>1
    <3> QED BY <1>1, <1>2, <1>4, <2>1, <3>2 DEF Registered
  <2>2. CASE g # f
    <3>1. g \in heap[x] /\ g \in Futures BY <1>0, <1>5, <2>2
    <3>2. ~Registered(x, g)' BY <1>8, <2>2, <3>1 DEF PlaceInv, HeapPlace
    <3> QED BY <1>1, <1>2, <2>2, <3>1, <3>2 DEF PlaceInv, HeapPlace
  <2> QED BY <2>1, <2>2
<1>10. ParkedPlace'
  <2> SUFFICES ASSUME NEW x \in Executors
               PROVE  /\ \A i \in DOMAIN parked'[x] :
                            home'[parked'[x][i]] = x /\ ~ready'[parked'[x][i]]
                      /\ \A i, j \in DOMAIN parked'[x] : parked'[x][i] = parked'[x][j] => i = j
    BY DEF ParkedPlace
  <2>1. \A i \in DOMAIN parked[x] : parked[x][i] \in Futures /\ parked[x][i] # f
    BY <1>4, UsedNow DEF Registered
  <2>2. \A i \in DOMAIN parked[x] : home[parked[x][i]] = x /\ ~ready[parked[x][i]]
    BY DEF PlaceInv, ParkedPlace
  <2>3. \A i, j \in DOMAIN parked[x] : parked[x][i] = parked[x][j] => i = j
    BY DEF PlaceInv, ParkedPlace
  <2>4. \A i \in DOMAIN parked'[x] : home'[parked'[x][i]] = x /\ ~ready'[parked'[x][i]]
    BY <1>1, <1>2, <1>4, <1>7, <2>1, <2>2
  <2>5. \A i, j \in DOMAIN parked'[x] : parked'[x][i] = parked'[x][j] => i = j
    BY <1>7, <2>1, <2>3
  <2> QED BY <2>4, <2>5
<1>11. HandPlace'
  <2> SUFFICES ASSUME NEW t \in Threads, pc'[t] \in HandPcs
               PROVE  /\ home'[cur'[t]] = ExecutorOf(t) /\ ~ready'[cur'[t]]
                      /\ cur'[t] \notin heap'[home'[cur'[t]]]
                      /\ ~Registered(home[cur[t]], cur[t])'
                      /\ \A u \in Threads : InHand(u, cur[t])' => u = t
    BY DEF HandPlace, ExecutorOf
  <2> DEFINE g == cur[t]
  <2>1. pc[t] \in HandPcs /\ cur'[t] = g /\ g \in Futures /\ Used(g) /\ g # f BY <1>1, <1>3
  <2>2. /\ home[g] = ExecutorOf(t) /\ ~ready[g] /\ g \notin heap[home[g]]
        /\ ~Registered(home[g], g) /\ \A u \in Threads : InHand(u, g) => u = t
    BY <2>1 DEF PlaceInv, HandPlace
  <2> HIDE DEF g
  <2>3. home'[g] = home[g] /\ home[g] \in Executors BY <1>2, <2>1
  <2>4. g \notin heap'[home[g]] /\ ~\E i \in DOMAIN parked'[home[g]] : parked'[home[g]][i] = g
    BY <1>5, <1>8, <2>1, <2>2, <2>3 DEF Registered
  <2>5. \A u \in Threads : cur'[u] = g /\ pc'[u] \in HandPcs => u = t
    BY <1>1, <1>3, <2>2 DEF InHand
  <2> QED BY <1>1, <2>1, <2>2, <2>3, <2>4, <2>5 DEF Registered, InHand
<1>12. Placed'
  <2> SUFFICES ASSUME NEW g \in Futures, Unfinished(g)'
               PROVE  \/ g \in heap'[home'[g]] \/ Registered(home[g], g)'
                      \/ \E u \in Threads : InHand(u, g)'
    BY DEF Placed
  <2>1. CASE g = f
    <3>1. home'[g] = e BY <1>2, <2>1
    <3>2. CASE heap' = [heap EXCEPT ![e] = @ \cup {f}] BY <1>0, <2>1, <3>1, <3>2
    <3>3. CASE parked' = [parked EXCEPT ![e] = Append(parked[e], f)]
      <4>1. parked'[e] = Append(parked[e], f) /\ parked[e] \in Seq(Futures) BY <1>0, <3>3
      <4>2. Len(parked[e]) + 1 \in DOMAIN parked'[e] /\ parked'[e][Len(parked[e]) + 1] = f
        BY <4>1
      <4> QED BY <2>1, <3>1, <4>2 DEF Registered
    <3> QED BY <1>1, <3>2, <3>3
  <2>2. CASE g # f
    <3>1. Unfinished(g) /\ home'[g] = home[g] /\ home[g] \in Executors
      BY <1>1, <1>2, <2>2 DEF Unfinished, Used
    <3>2. \/ g \in heap[home[g]] \/ Registered(home[g], g)
          \/ \E u \in Threads : InHand(u, g)
      BY <3>1 DEF PlaceInv, Placed
    <3>3. CASE g \in heap[home[g]] BY <1>5, <2>2, <3>1, <3>3
    <3>4. CASE Registered(home[g], g)
      <4>1. Registered(home[g], g) <=> \E i \in DOMAIN parked'[home[g]] : parked'[home[g]][i] = g
        BY <1>8, <2>2, <3>1 DEF Registered
      <4> QED BY <3>1, <3>4, <4>1 DEF Registered
    <3>5. CASE \E u \in Threads : InHand(u, g)
      BY <1>1, <1>3, <3>5 DEF InHand
    <3> QED BY <3>2, <3>3, <3>4, <3>5
  <2> QED BY <2>1, <2>2
<1> QED BY <1>9, <1>10, <1>11, <1>12 DEF PlaceInv

LEMMA CompletePlace ==
    ASSUME TypeInv, PlaceInv, NEW t \in Threads, Complete(t)
    PROVE  PlaceInv'
<1> DEFINE f == cur[t]
<1>0. f \in Futures /\ Used(f) BY UsedNow DEF Complete, CarryPcs, HandPcs
<1>1. /\ UNCHANGED <<heap, parked, home, alloc>> /\ ready' = [ready EXCEPT ![f] = TRUE]
      /\ cur' = cur
  BY DEF Complete
<1>2. /\ InHand(t, f) /\ pc'[t] \notin HandPcs
      /\ \A u \in Threads \ {t} : pc'[u] \in HandPcs <=> pc[u] \in HandPcs
  <2>1. pc[t] = "complete" /\ pc'[t] = "wake"
    BY SharedPaths DEF TypeInv, Complete, Moves
  <2>2. \A u \in Threads \ {t} : pc'[u] = pc[u] \/ (pc[u] = "asleep" /\ pc'[u] = "idle")
    BY OnlyMine DEF Shared
  <2> QED BY <2>1, <2>2 DEF InHand, HandPcs, CurrentPcs
<1>3. /\ \A x \in Executors : f \notin heap[x] /\ ~Registered(x, f)
      /\ \A u \in Threads : InHand(u, f) => u = t
  <2>1. /\ f \notin heap[home[f]] /\ ~Registered(home[f], f)
        /\ \A u \in Threads : InHand(u, f) => u = t
    BY <1>2 DEF PlaceInv, HandPlace, InHand
  <2> QED BY <2>1 DEF PlaceInv, HeapPlace, ParkedPlace, Registered
<1>4. \A g \in Futures : g # f => ready'[g] = ready[g]
  BY <1>1 DEF TypeInv, TypeOK
<1> HIDE DEF f
<1>5. HeapPlace'
  BY <1>1, <1>3, <1>4, UsedNow DEF PlaceInv, HeapPlace, Registered
<1>6. ParkedPlace'
  BY <1>1, <1>3, <1>4, UsedNow DEF PlaceInv, ParkedPlace, Registered
<1>7. HandPlace'
  <2> SUFFICES ASSUME NEW v \in Threads, pc'[v] \in HandPcs
               PROVE  /\ home'[cur'[v]] = ExecutorOf(v) /\ ~ready'[cur'[v]]
                      /\ cur'[v] \notin heap'[home'[cur'[v]]]
                      /\ ~Registered(home[cur[v]], cur[v])'
                      /\ \A u \in Threads : InHand(u, cur[v])' => u = v
    BY DEF HandPlace, ExecutorOf
  <2>1. v # t /\ pc[v] \in HandPcs /\ cur'[v] = cur[v] /\ InHand(v, cur[v])
    BY <1>1, <1>2 DEF InHand
  <2>2. cur[v] # f /\ cur[v] \in Futures BY <1>3, <2>1, UsedNow DEF InHand, CarryPcs
  <2>3. \A u \in Threads : InHand(u, cur[v])' => InHand(u, cur[v])
    BY <1>1, <1>2 DEF InHand
  <2>4. ~ready'[cur[v]] BY <1>4, <2>1, <2>2 DEF PlaceInv, HandPlace
  <2> QED BY <1>1, <2>1, <2>3, <2>4 DEF PlaceInv, HandPlace, Registered
<1>8. Placed'
  <2> SUFFICES ASSUME NEW g \in Futures, Unfinished(g)'
               PROVE  \/ g \in heap'[home'[g]] \/ Registered(home[g], g)'
                      \/ \E u \in Threads : InHand(u, g)'
    BY DEF Placed
  <2>1. g # f
    <3>1. ready \in [Futures -> BOOLEAN] BY DEF TypeInv, TypeOK
    <3> QED BY <1>0, <1>1, <3>1 DEF Unfinished
  <2>2. Unfinished(g) BY <1>1, <1>4, <2>1 DEF Unfinished
  <2>3. \A u \in Threads : InHand(u, g) => InHand(u, g)'
    <3>1. ASSUME NEW u \in Threads, InHand(u, g) PROVE InHand(u, g)'
      <4>1. u # t BY <1>2, <2>1, <3>1 DEF InHand
      <4> QED BY <1>1, <1>2, <3>1, <4>1 DEF InHand
    <3> QED BY <3>1
  <2> QED BY <1>1, <2>2, <2>3 DEF PlaceInv, Placed, Registered
<1> QED BY <1>5, <1>6, <1>7, <1>8 DEF PlaceInv

LEMMA PushPlace ==
    ASSUME TypeInv, LinkInv, PlaceInv, NEW t \in Threads, PromotePush(t)
    PROVE  PlaceInv'
<1> DEFINE f == cur[t]
           e == home[f]
<1>0. /\ heap \in [Executors -> SUBSET Futures] /\ parked \in [Executors -> Seq(Futures)]
      /\ TypeOK
  BY DEF TypeInv, TypeOK
<1>1. pc[t] = "push" /\ pc'[t] = "promote" BY <1>0, SharedPaths DEF Moves
<1>2. UNCHANGED <<alloc, home, ready>> BY DEF PromotePush
<1>3. f \in Futures /\ Used(f) /\ e \in Executors
  BY <1>1, UsedNow DEF CarryPcs, TypeInv, UsedInv
<1>4. \A u \in Threads : /\ pc'[u] \in HandPcs <=> pc[u] \in HandPcs
                         /\ pc[u] \in HandPcs => cur'[u] = cur[u]
  <2>1. \A u \in Threads \ {t} :
           cur'[u] = cur[u] /\ (pc'[u] = pc[u] \/ (pc[u] = "asleep" /\ pc'[u] = "idle"))
    BY OnlyMine DEF Shared
  <2> QED BY <1>1, <2>1 DEF HandPcs, CurrentPcs
<1>5. CASE Stopping(e)
  <2>1. UNCHANGED <<parked, heap>> BY <1>5 DEF PromotePush
  <2> QED BY <1>2, <1>4, <2>1, PlaceSame DEF Used
<1>6. CASE ~Stopping(e)
  <2>1. parked' = [parked EXCEPT ![e] = Unregistered(e, f)]
        /\ heap' = [heap EXCEPT ![e] = @ \cup {f}]
    BY <1>6 DEF PromotePush
  <2>2. Registered(e, f)
    <3>1. Target[<<"cur", t>>] = f /\ <<"cur", t>> \in Links BY <1>1, LinkAt
    <3>2. f # None BY <1>3, Distinct
    <3> QED BY <1>6, <3>1, <3>2 DEF LinkInv
  <2>3. ~ready[f] /\ \A u \in Threads : ~InHand(u, f)
    <3>1. ~ready[f] BY <1>3, <2>2 DEF Registered, PlaceInv, ParkedPlace
    <3>2. \A u \in Threads : ~InHand(u, f) BY <2>2 DEF PlaceInv, HandPlace, InHand
    <3> QED BY <3>1, <3>2
  <2> HIDE DEF f, e
  <2>4. /\ parked'[e] = Unregistered(e, f) /\ heap'[e] = heap[e] \cup {f}
        /\ \A x \in Executors : x # e => parked'[x] = parked[x] /\ heap'[x] = heap[x]
    BY <1>0, <1>3, <2>1
  <2>5. \A i, j \in DOMAIN parked[e] : parked[e][i] = parked[e][j] => i = j
    BY <1>3 DEF PlaceInv, ParkedPlace
  <2>6. /\ \A j \in DOMAIN parked'[e] : \E i \in DOMAIN parked[e] : parked'[e][j] = parked[e][i]
        /\ \A i \in DOMAIN parked[e] : parked[e][i] # f =>
              \E j \in DOMAIN parked'[e] : parked'[e][j] = parked[e][i]
        /\ \A j \in DOMAIN parked'[e] : parked'[e][j] # f
        /\ \A i, j \in DOMAIN parked'[e] : parked'[e][i] = parked'[e][j] => i = j
    <3> DEFINE q == Unregistered(e, f)
    <3>1. /\ \A j \in DOMAIN q : \E i \in DOMAIN parked[e] : q[j] = parked[e][i]
          /\ \A i \in DOMAIN parked[e] : parked[e][i] # f =>
                \E j \in DOMAIN q : q[j] = parked[e][i]
          /\ \A j \in DOMAIN q : q[j] # f
          /\ \A i, j \in DOMAIN q : q[i] = q[j] => i = j
      BY <1>0, <1>3, <2>2, <2>5, UnregisteredHas
    <3> QED BY <2>4, <3>1
  <2>7. \A x \in Executors : \A g :
           (\E i \in DOMAIN parked'[x] : parked'[x][i] = g) => Registered(x, g)
    BY <2>4, <2>6 DEF Registered
  <2>8. HeapPlace'
    <3> SUFFICES ASSUME NEW x \in Executors, NEW g \in heap'[x]
                 PROVE  home'[g] = x /\ ~ready'[g] /\ ~Registered(x, g)'
      BY DEF HeapPlace
    <3>1. CASE g \in heap[x]
      <4>1. home[g] = x /\ ~ready[g] /\ ~Registered(x, g)
        BY <3>1 DEF PlaceInv, HeapPlace
      <4>2. ~\E i \in DOMAIN parked'[x] : parked'[x][i] = g BY <2>7, <4>1
      <4> QED BY <1>2, <4>1, <4>2 DEF Registered
    <3>2. CASE g \notin heap[x]
      <4>1. x = e /\ g = f BY <2>4, <3>2
      <4>2. home[f] = e BY <4>1 DEF e
      <4>3. ~\E i \in DOMAIN parked'[x] : parked'[x][i] = g BY <2>6, <4>1
      <4> QED BY <1>2, <2>3, <4>1, <4>2, <4>3 DEF Registered
    <3> QED BY <3>1, <3>2
  <2>9. ParkedPlace'
    <3> SUFFICES ASSUME NEW x \in Executors
                 PROVE  /\ \A i \in DOMAIN parked'[x] :
                              home'[parked'[x][i]] = x /\ ~ready'[parked'[x][i]]
                        /\ \A i, j \in DOMAIN parked'[x] : parked'[x][i] = parked'[x][j] => i = j
      BY DEF ParkedPlace
    <3>1. /\ \A i \in DOMAIN parked[x] : home[parked[x][i]] = x /\ ~ready[parked[x][i]]
          /\ \A i, j \in DOMAIN parked[x] : parked[x][i] = parked[x][j] => i = j
      BY DEF PlaceInv, ParkedPlace
    <3>2. CASE x = e BY <1>2, <2>6, <3>1, <3>2
    <3>3. CASE x # e BY <1>2, <2>4, <3>1, <3>3
    <3> QED BY <3>2, <3>3
  <2>10. HandPlace'
    <3> SUFFICES ASSUME NEW v \in Threads, pc'[v] \in HandPcs
                 PROVE  /\ home'[cur'[v]] = ExecutorOf(v) /\ ~ready'[cur'[v]]
                        /\ cur'[v] \notin heap'[home'[cur'[v]]]
                        /\ ~Registered(home[cur[v]], cur[v])'
                        /\ \A u \in Threads : InHand(u, cur[v])' => u = v
      BY DEF HandPlace, ExecutorOf
    <3> DEFINE g == cur[v]
    <3>1. pc[v] \in HandPcs /\ cur'[v] = g BY <1>4
    <3>2. /\ home[g] = ExecutorOf(v) /\ ~ready[g] /\ g \notin heap[home[g]]
          /\ ~Registered(home[g], g) /\ \A u \in Threads : InHand(u, g) => u = v
      BY <3>1 DEF PlaceInv, HandPlace
    <3>3. g # f BY <2>3, <3>1 DEF InHand
    <3>4. home[g] \in Executors BY <3>2, Distinct DEF ExecutorOf
    <3>5. \A u \in Threads : cur'[u] = g /\ pc'[u] \in HandPcs => u = v
      BY <1>4, <3>2 DEF InHand
    <3> HIDE DEF g
    <3>6. g \notin heap'[home[g]] BY <2>4, <3>2, <3>3, <3>4
    <3>7. ~\E i \in DOMAIN parked'[home[g]] : parked'[home[g]][i] = g BY <2>7, <3>2, <3>4
    <3> QED BY <1>2, <3>1, <3>2, <3>5, <3>6, <3>7 DEF Registered, InHand
  <2>11. Placed'
    <3> SUFFICES ASSUME NEW g \in Futures, Unfinished(g)'
                 PROVE  \/ g \in heap'[home'[g]] \/ Registered(home[g], g)'
                        \/ \E u \in Threads : InHand(u, g)'
      BY DEF Placed
    <3>1. Unfinished(g) /\ home'[g] = home[g] /\ home[g] \in Executors
      BY <1>2 DEF Unfinished, Used, TypeInv, UsedInv
    <3>2. \/ g \in heap[home[g]] \/ Registered(home[g], g)
          \/ \E u \in Threads : InHand(u, g)
      BY <3>1 DEF PlaceInv, Placed
    <3>3. CASE g \in heap[home[g]] BY <2>4, <3>1, <3>3
    <3>4. CASE g = f
      <4>1. home[g] = e BY <3>4 DEF e
      <4> QED BY <2>4, <3>1, <3>4, <4>1
    <3>5. CASE Registered(home[g], g) /\ g # f
      <4>1. \E i \in DOMAIN parked'[home[g]] : parked'[home[g]][i] = g
        <5>1. PICK i \in DOMAIN parked[home[g]] : parked[home[g]][i] = g
          BY <3>5 DEF Registered
        <5>2. CASE home[g] = e BY <2>6, <3>5, <5>1, <5>2
        <5>3. CASE home[g] # e BY <2>4, <3>1, <5>1, <5>3
        <5> QED BY <5>2, <5>3
      <4> QED BY <3>1, <4>1 DEF Registered
    <3>6. CASE \E u \in Threads : InHand(u, g) BY <1>4, <3>6 DEF InHand
    <3> QED BY <3>2, <3>3, <3>4, <3>5, <3>6
  <2> QED BY <2>8, <2>9, <2>10, <2>11 DEF PlaceInv
<1> QED BY <1>5, <1>6

LEMMA PlaceStep == TypeInv /\ LinkInv /\ PlaceInv /\ [Next]_vars => PlaceInv'
<1> SUFFICES ASSUME TypeInv, LinkInv, PlaceInv, [Next]_vars PROVE PlaceInv'
  OBVIOUS
<1>0. TypeOK BY DEF TypeInv
<1>1. CASE ProgramOwn
  <2>1. Rests /\ UNCHANGED <<cur, ready>> BY <1>1, ProgramRests
  <2>2. \A t \in Threads : /\ pc'[t] \in HandPcs <=> pc[t] \in HandPcs
                           /\ cur'[t] = cur[t]
    BY <2>1 DEF Rests, HandPcs, CurrentPcs
  <2>3. CASE \/ \E f \in Futures, e \in Executors, d \in FutureOrNone : Reject(f, e, d)
             \/ \E f \in Futures : Cancel(f) \/ TakeValue(f) \/ BeginFree(f) \/ EndFree(f)
    <3>1. home' = home /\ \A f \in Futures : Used(f)' <=> Used(f) BY <2>3, UsedSame
    <3>2. UNCHANGED <<heap, parked>>
      BY <2>3 DEF Reject, Cancel, TakeValue, BeginFree, EndFree
    <3> QED BY <2>1, <2>2, <3>1, <3>2, PlaceSame
  <2> QED BY <1>1, <2>3, PlaceAccepted DEF ProgramOwn
<1>2. ASSUME NEW w \in Workers, WorkerOwn(w) PROVE PlaceInv'
  <2>1. home' = home /\ \A f \in Futures : Used(f)' <=> Used(f) BY <1>2, UsedSame
  <2>2. \A u \in Threads \ {w} : /\ pc'[u] \in HandPcs <=> pc[u] \in HandPcs
                                 /\ cur'[u] = cur[u]
    BY <1>2, OnlyMine DEF HandPcs, CurrentPcs
  <2>3. CASE Pop(w)
    <3>1. PICK f \in heap[Home[w]] : /\ heap' = [heap EXCEPT ![Home[w]] = @ \ {f}]
                                     /\ cur' = [cur EXCEPT ![w] = f]
      BY <2>3 DEF Pop
    <3>2. Home[w] \in Executors /\ f \in Futures /\ Home[w] = ExecutorOf(w)
      BY Distinct, UsedNow DEF ExecutorOf
    <3>3. cur'[w] = f BY <3>1 DEF TypeInv, TypeOK
    <3>4. pc[w] \notin HandPcs /\ pc'[w] \in HandPcs
      BY <1>0, <2>3, WorkerPaths DEF Moves, HandPcs, CurrentPcs
    <3>5. UNCHANGED <<ready, parked>> BY <2>3 DEF Pop
    <3> QED BY <2>1, <2>2, <3>1, <3>2, <3>3, <3>4, <3>5, PlaceTaken
  <2>4. CASE ~Pop(w)
    <3>1. UNCHANGED <<heap, parked, ready, cur>>
      BY <1>2, <2>4 DEF WorkerOwn, Wait, Check, ReadAntecedent, Run, Publish, PromoteEnd
    <3>2. pc'[w] \in HandPcs <=> pc[w] \in HandPcs
      BY <1>0, <1>2, <2>4, WorkerPaths DEF WorkerOwn, Moves, HandPcs, CurrentPcs
    <3> QED BY <2>1, <2>2, <3>1, <3>2, PlaceSame
  <2> QED BY <2>3, <2>4
<1>3. ASSUME NEW t \in Threads, Shared(t) PROVE PlaceInv'
  <2>1. home' = home /\ \A f \in Futures : Used(f)' <=> Used(f) BY <1>3, UsedSame
  <2>2. \A u \in Threads \ {t} : /\ pc'[u] \in HandPcs <=> pc[u] \in HandPcs
                                 /\ cur'[u] = cur[u]
    BY <1>3, OnlyMine DEF HandPcs, CurrentPcs
  <2>3. CASE Release(t) \/ DestructorCancels(t) \/ DestructorFrees(t)
    <3>1. UNCHANGED <<heap, parked, ready, cur>>
      BY <2>3 DEF Release, DestructorCancels, DestructorFrees
    <3>2. pc'[t] \in HandPcs <=> pc[t] \in HandPcs
      BY <1>0, <2>3, SharedPaths DEF Moves, HandPcs, CurrentPcs
    <3> QED BY <2>1, <2>2, <3>1, <3>2, PlaceSame
  <2>4. CASE Wake(t) \/ PromoteNext(t)
    <3>1. UNCHANGED <<heap, parked, ready>> BY <2>4 DEF Wake, PromoteNext
    <3>2. pc'[t] \notin HandPcs /\ pc[t] \notin HandPcs
      BY <1>0, <2>4, SharedPaths DEF Moves, HandPcs, CurrentPcs
    <3> QED BY <2>1, <2>2, <3>1, <3>2, PlaceSame
  <2> QED BY <1>3, <2>3, <2>4, CompletePlace, PushPlace DEF Shared
<1>4. ASSUME NEW e \in Executors, DestroyBegin(e) \/ DestroyerOwn(e) PROVE PlaceInv'
  <2>1. home' = home /\ \A f \in Futures : Used(f)' <=> Used(f) BY <1>4, UsedSame
  <2>2. \A u \in Threads \ {e} : /\ pc'[u] \in HandPcs <=> pc[u] \in HandPcs
                                 /\ cur'[u] = cur[u]
    BY <1>4, OnlyMine DEF HandPcs, CurrentPcs
  <2>3. pc[e] # "asleep" /\ ExecutorOf(e) = e
    BY Distinct DEF TypeInv, ControlInv, DestroyerPlace, DestroyPcs, ExecutorOf
  <2>4. CASE DrainNext(e)
    <3>1. PICK f \in heap[e] : /\ heap' = [heap EXCEPT ![e] = @ \ {f}]
                               /\ cur' = [cur EXCEPT ![e] = f]
      BY <2>4 DEF DrainNext
    <3>2. f \in Futures BY UsedNow
    <3>3. cur'[e] = f BY <3>1 DEF TypeInv, TypeOK
    <3>4. pc[e] \notin HandPcs /\ pc'[e] \in HandPcs
      BY <1>0, <2>4, DestroyerPaths DEF Moves, HandPcs, CurrentPcs
    <3>5. UNCHANGED <<ready, parked>> BY <2>4 DEF DrainNext
    <3> QED BY <2>1, <2>2, <2>3, <3>1, <3>2, <3>3, <3>4, <3>5, PlaceTaken
  <2>5. CASE WalkNext(e)
    <3>1. /\ parked[e] # << >> /\ parked' = [parked EXCEPT ![e] = Tail(@)]
          /\ cur' = [cur EXCEPT ![e] = Head(parked[e])] /\ UNCHANGED <<ready, heap>>
      BY <2>5 DEF WalkNext
    <3>2. Head(parked[e]) \in Futures BY <3>1, TailHas DEF TypeInv, TypeOK
    <3>3. cur'[e] = Head(parked[e]) BY <3>1 DEF TypeInv, TypeOK
    <3>4. pc[e] \notin HandPcs /\ pc'[e] \in HandPcs
      BY <1>0, <2>5, DestroyerPaths DEF Moves, HandPcs, CurrentPcs
    <3> QED BY <2>1, <2>2, <2>3, <3>1, <3>2, <3>3, <3>4, PlaceTaken
  <2>6. CASE ~DrainNext(e) /\ ~WalkNext(e)
    <3>1. UNCHANGED <<heap, parked, ready, cur>>
      BY <1>4, <2>6 DEF DestroyBegin, DestroyerOwn, DrainEnd, Join, WalkEnd, Disposed, Collect,
                        CollectTail, DestroyEnd
    <3>2. pc'[e] \in HandPcs <=> pc[e] \in HandPcs
      <4>1. CASE DestroyBegin(e)
        <5>1. pc[e] = "idle" BY <2>3, <4>1 DEF DestroyBegin, TypeInv, ControlInv, DestroyerPlace
        <5> QED BY <1>0, <2>3, <4>1, <5>1, DestroyerPaths DEF Moves, HandPcs, CurrentPcs
      <4>2. CASE Join(e) BY <1>0, <4>2, DestroyerPaths
      <4>3. CASE \/ DrainEnd(e) \/ WalkEnd(e) \/ Disposed(e) \/ Collect(e) \/ CollectTail(e)
                 \/ DestroyEnd(e)
        BY <1>0, <4>3, DestroyerPaths DEF Moves, HandPcs, CurrentPcs
      <4> QED BY <1>4, <2>6, <4>1, <4>2, <4>3 DEF DestroyerOwn
    <3> QED BY <2>1, <2>2, <3>1, <3>2, PlaceSame
  <2> QED BY <2>4, <2>5, <2>6
<1>5. CASE UNCHANGED vars
  BY <1>5, PlaceSame DEF vars, Used
<1> QED BY <1>1, <1>2, <1>3, <1>4, <1>5, Steps

LEMMA PlaceInit == Init => PlaceInv
BY DEF Init, PlaceInv, HeapPlace, ParkedPlace, HandPlace, Placed, Unfinished, HandPcs,
       CurrentPcs

-----------------------------------------------------------------------------
(* Every future runs and is disposed of once *)

(* A step that calls neither the task nor the destructor. *)
LEMMA OnceSame ==
    ASSUME TypeInv, OnceInv, Grows, UNCHANGED <<runs, disposals>>,
           \A e \in Executors : \A f \in heap'[e] : Fresh(f),
           \A e \in Executors : \A i \in DOMAIN parked'[e] : Fresh(parked'[e][i]),
           \A t \in Threads : OnceThread(t)',
           \A f \in Futures : ready'[f] => disposals[f] = 1
    PROVE  OnceInv'
<1>1. \A f \in Futures : ~Used(f)' => Fresh(f)' BY DEF Grows, OnceInv, Fresh, Used
<1>2. \A e \in Executors : /\ \A f \in heap'[e] : Fresh(f)'
                           /\ \A i \in DOMAIN parked'[e] : Fresh(parked[e][i])'
  BY DEF Fresh
<1>3. OnceOnly' BY DEF OnceInv, OnceOnly
<1> QED BY <1>1, <1>2, <1>3 DEF OnceInv

(* A step that calls the task or the destructor of the future a thread has in hand. *)
LEMMA OnceCounted ==
    ASSUME TypeInv, PlaceInv, OnceInv, UNCHANGED <<alloc, heap, parked, ready, cur>>,
           NEW t \in Threads, pc[t] \in HandPcs,
           \A f \in Futures : f # cur[t] => runs'[f] = runs[f] /\ disposals'[f] = disposals[f],
           runs'[cur[t]] <= 1, disposals'[cur[t]] <= 1, OnceThread(t)',
           \A u \in Threads \ {t} : pc'[u] = pc[u] \/ (pc[u] = "asleep" /\ pc'[u] = "idle")
    PROVE  OnceInv'
<1> DEFINE g == cur[t]
<1>0. g \in Futures /\ Used(g) /\ ~ready[g] /\ InHand(t, g)
  BY UsedNow DEF CarryPcs, PlaceInv, HandPlace, InHand
<1>1. /\ \A e \in Executors : g \notin heap[e] /\ ~Registered(e, g)
      /\ \A u \in Threads : InHand(u, g) => u = t
  <2>1. /\ g \notin heap[home[g]] /\ ~Registered(home[g], g)
        /\ \A u \in Threads : InHand(u, g) => u = t
    BY <1>0 DEF PlaceInv, HandPlace
  <2> QED BY <2>1 DEF PlaceInv, HeapPlace, ParkedPlace, Registered
<1> HIDE DEF g
<1>2. \A f \in Futures : f # g => runs'[f] = runs[f] /\ disposals'[f] = disposals[f] BY DEF g
<1>3. \A f \in Futures : ~Used(f)' => Fresh(f)' BY <1>0, <1>2 DEF OnceInv, Fresh, Used
<1>4. \A e \in Executors : \A f \in heap'[e] : Fresh(f)'
  BY <1>1, <1>2, UsedNow DEF OnceInv, Fresh
<1>5. \A e \in Executors : \A i \in DOMAIN parked'[e] : Fresh(parked[e][i])'
  BY <1>1, <1>2, UsedNow DEF OnceInv, Fresh, Registered
<1>6. ASSUME NEW u \in Threads PROVE OnceThread(u)'
  <2>1. CASE u # t /\ pc[u] \in HandPcs
    <3>1. cur[u] \in Futures /\ cur[u] # g BY <1>1, <2>1, UsedNow DEF CarryPcs, InHand
    <3>2. pc'[u] = pc[u] /\ runs'[cur[u]] = runs[cur[u]] /\ disposals'[cur[u]] = disposals[cur[u]]
      BY <1>2, <2>1, <3>1 DEF HandPcs, CurrentPcs
    <3>3. OnceThread(u) BY DEF OnceInv
    <3> QED BY <2>1, <3>2, <3>3 DEF OnceThread, AfterCallback
  <2>2. CASE u # t /\ pc[u] \notin HandPcs
    BY <2>2 DEF OnceThread, HandPcs, CurrentPcs
  <2> QED BY <2>1, <2>2
<1>7. OnceOnly'
  <2> SUFFICES ASSUME NEW f \in Futures
               PROVE  runs'[f] <= 1 /\ disposals'[f] <= 1 /\ (ready'[f] => disposals'[f] = 1)
    BY DEF OnceOnly
  <2>1. CASE f = g BY <1>0, <2>1 DEF g
  <2>2. CASE f # g BY <1>2, <2>2 DEF OnceInv, OnceOnly
  <2> QED BY <2>1, <2>2
<1> QED BY <1>3, <1>4, <1>5, <1>6, <1>7 DEF OnceInv

(* What the queues of the next state hold was in a queue or unused. *)
LEMMA OnceNow ==
    ASSUME TypeInv, OnceInv
    PROVE  /\ \A e \in Executors : \A f \in heap[e] : Fresh(f)
           /\ \A e \in Executors : \A i \in DOMAIN parked[e] : Fresh(parked[e][i])
           /\ \A e \in Executors : \A f : Registered(e, f) => Fresh(f)
           /\ \A t \in Threads : OnceThread(t)
           /\ \A f \in Futures : ready[f] => disposals[f] = 1
BY DEF OnceInv, OnceOnly, Registered

LEMMA OthersOnce ==
    ASSUME NEW u \in Threads, OnceThread(u), UNCHANGED <<runs, disposals>>, cur'[u] = cur[u],
           pc'[u] = pc[u] \/ (pc[u] = "asleep" /\ pc'[u] = "idle")
    PROVE  OnceThread(u)'
BY DEF OnceThread, AfterCallback, HandPcs, CurrentPcs

LEMMA ProgramOnce ==
    ASSUME TypeInv, OnceInv, ProgramOwn
    PROVE  OnceInv'
<1>1. Grows /\ Rests /\ UNCHANGED <<cur, ready>> BY ProgramRests
<1>2. UNCHANGED <<runs, disposals>>
  BY DEF ProgramOwn, Accept, Reject, Cancel, TakeValue, BeginFree, EndFree
<1>3. \A t \in Threads : OnceThread(t)' BY <1>1, <1>2, OthersOnce, OnceNow DEF Rests
<1>4. /\ \A e \in Executors : \A f \in heap'[e] : Fresh(f)
      /\ \A e \in Executors : \A i \in DOMAIN parked'[e] : Fresh(parked'[e][i])
  <2>1. CASE \/ \E f \in Futures, e \in Executors, d \in FutureOrNone : Reject(f, e, d)
             \/ \E f \in Futures : Cancel(f) \/ TakeValue(f) \/ BeginFree(f) \/ EndFree(f)
    <3>1. UNCHANGED <<heap, parked>>
      BY <2>1 DEF Reject, Cancel, TakeValue, BeginFree, EndFree
    <3> QED BY <3>1, OnceNow
  <2>2. ASSUME NEW f \in Futures, NEW x \in Executors, NEW d \in FutureOrNone, Accept(f, x, d)
        PROVE  /\ \A e \in Executors : \A g \in heap'[e] : Fresh(g)
               /\ \A e \in Executors : \A i \in DOMAIN parked'[e] : Fresh(parked'[e][i])
    <3>1. /\ heap \in [Executors -> SUBSET Futures] /\ parked \in [Executors -> Seq(Futures)]
      BY DEF TypeInv, TypeOK
    <3>2. /\ ~Used(f)
          /\ heap' = heap \/ heap' = [heap EXCEPT ![x] = @ \cup {f}]
          /\ parked' = parked \/ parked' = [parked EXCEPT ![x] = Append(parked[x], f)]
      BY <2>2 DEF Accept, Used
    <3>3. Fresh(f) BY <3>2 DEF OnceInv
    <3>4. \A e \in Executors : heap'[e] \subseteq heap[e] \cup {f} BY <3>1, <3>2
    <3>5. \A i \in DOMAIN Append(parked[x], f) : Fresh(Append(parked[x], f)[i])
      <4>1. parked[x] \in Seq(Futures) BY <3>1
      <4>2. \A i \in DOMAIN Append(parked[x], f) :
               Append(parked[x], f)[i] = f \/ \E j \in DOMAIN parked[x] :
                                                Append(parked[x], f)[i] = parked[x][j]
        BY <4>1
      <4> QED BY <3>3, <4>2, OnceNow
    <3>6. \A e \in Executors : parked'[e] = parked[e] \/ parked'[e] = Append(parked[x], f)
      BY <3>1, <3>2
    <3> QED BY <3>3, <3>4, <3>5, <3>6, OnceNow
  <2> QED BY <2>1, <2>2 DEF ProgramOwn
<1> QED BY <1>1, <1>2, <1>3, <1>4, OnceSame, OnceNow

LEMMA WorkerOnce ==
    ASSUME TypeInv, PlaceInv, OnceInv, NEW w \in Workers, WorkerOwn(w)
    PROVE  OnceInv'
<1>0. TypeOK /\ w \notin Executors /\ OnceThread(w) BY OnceNow, Distinct DEF TypeInv
<1>1. /\ Grows
      /\ \A u \in Threads \ {w} :
            cur'[u] = cur[u] /\ (pc'[u] = pc[u] \/ (pc[u] = "asleep" /\ pc'[u] = "idle"))
  BY OnlyMine
<1>2. CASE Run(w)
  <2> DEFINE f == cur[w]
  <2>1. f \in Futures /\ pc[w] = "run" /\ pc[w] \in HandPcs
    BY <1>2, UsedNow DEF Run, CarryPcs, HandPcs, CurrentPcs
  <2>2. /\ UNCHANGED <<alloc, heap, parked, ready, cur, disposals>>
        /\ runs' = [runs EXCEPT ![f] = @ + 1]
    BY <1>2 DEF Run
  <2>3. runs \in [Futures -> Nat] BY DEF TypeInv, TypeOK
  <2>4. runs[f] = 0 /\ disposals[f] = 0
    BY <1>0, <2>1 DEF OnceThread, AfterCallback
  <2>5. runs'[f] = 1 BY <2>1, <2>2, <2>3, <2>4
  <2>6. pc'[w] \in {"release", "callback"} BY <1>0, <1>2, WorkerPaths DEF Moves
  <2>7. OnceThread(w)' BY <1>0, <2>2, <2>4, <2>6 DEF OnceThread, AfterCallback
  <2>8. \A g \in Futures : g # f => runs'[g] = runs[g] BY <2>2, <2>3
  <2> QED BY <1>1, <2>1, <2>2, <2>4, <2>5, <2>7, <2>8, OnceCounted
<1>3. CASE Publish(w)
  <2> DEFINE f == cur[w]
  <2>1. f \in Futures /\ pc[w] = "callback" /\ pc[w] \in HandPcs
    BY <1>3, UsedNow DEF Publish, CarryPcs, HandPcs, CurrentPcs
  <2>2. /\ UNCHANGED <<alloc, heap, parked, ready, cur, runs>>
        /\ disposals' = [disposals EXCEPT ![f] = @ + 1]
    BY <1>3 DEF Publish, DestructorReturned
  <2>3. disposals \in [Futures -> Nat] BY DEF TypeInv, TypeOK
  <2>4. runs[f] <= 1 /\ disposals[f] = 0
    BY <1>0, <2>1 DEF OnceThread, AfterCallback, OnceInv, OnceOnly
  <2>5. disposals'[f] = 1 BY <2>1, <2>2, <2>3, <2>4
  <2>6. pc'[w] = "complete" BY <1>0, <1>3, WorkerPaths DEF Moves
  <2>7. OnceThread(w)' BY <2>2, <2>5, <2>6 DEF OnceThread, AfterCallback
  <2>8. \A g \in Futures : g # f => disposals'[g] = disposals[g] BY <2>2, <2>3
  <2> QED BY <1>1, <2>1, <2>2, <2>4, <2>5, <2>7, <2>8, OnceCounted
<1>4. CASE ~Run(w) /\ ~Publish(w)
  <2>1. UNCHANGED <<runs, disposals, parked, ready>>
    BY <1>4 DEF WorkerOwn, Pop, Wait, Check, ReadAntecedent, PromoteEnd
  <2>2. \A e \in Executors : heap'[e] \subseteq heap[e]
    <3>1. heap' = heap \/ \E f : heap' = [heap EXCEPT ![Home[w]] = @ \ {f}]
      BY <1>4 DEF WorkerOwn, Pop, Wait, Check, ReadAntecedent, PromoteEnd
    <3>2. heap \in [Executors -> SUBSET Futures] BY DEF TypeInv, TypeOK
    <3> QED BY <3>1, <3>2
  <2>3. OnceThread(w)'
    <3>1. CASE Pop(w)
      <4>1. PICK f \in heap[Home[w]] : cur' = [cur EXCEPT ![w] = f] BY <3>1 DEF Pop
      <4>2. cur'[w] = f BY <4>1 DEF TypeInv, TypeOK
      <4>3. Fresh(f) BY OnceNow, Distinct
      <4>4. pc'[w] = "check" BY <1>0, <3>1, WorkerPaths DEF Moves
      <4> QED BY <1>0, <2>1, <4>2, <4>3, <4>4 DEF OnceThread, AfterCallback, Fresh
    <3>2. CASE Check(w) \/ ReadAntecedent(w)
      <4>1. /\ pc[w] \in {"check", "antecedent"}
            /\ pc'[w] \in {"release", "callback", "antecedent", "run"}
        BY <1>0, <3>2, WorkerPaths DEF Moves
      <4>2. cur' = cur BY <3>2 DEF Check, ReadAntecedent
      <4>3. pc[w] \in HandPcs /\ ~AfterCallback(w) /\ runs[cur[w]] = 0
        BY <1>0, <4>1 DEF HandPcs, CurrentPcs, AfterCallback, OnceThread
      <4> QED BY <1>0, <2>1, <4>1, <4>2, <4>3 DEF OnceThread, AfterCallback
    <3>3. CASE Wait(w) \/ PromoteEnd(w)
      <4>1. pc'[w] \in {"exited", "asleep", "idle"} BY <1>0, <3>3, WorkerPaths DEF Moves
      <4> QED BY <4>1 DEF OnceThread, HandPcs, CurrentPcs
    <3> QED BY <1>4, <3>1, <3>2, <3>3 DEF WorkerOwn
  <2>4. \A u \in Threads : OnceThread(u)' BY <1>1, <2>1, <2>3, OthersOnce, OnceNow
  <2> QED BY <1>1, <2>1, <2>2, <2>4, OnceSame, OnceNow
<1> QED BY <1>2, <1>3, <1>4

LEMMA SharedOnce ==
    ASSUME TypeInv, LinkInv, PlaceInv, OnceInv, NEW t \in Threads, Shared(t)
    PROVE  OnceInv'
<1>0. TypeOK /\ OnceThread(t) /\ (t \in Workers => t \notin Executors)
  BY OnceNow, Distinct DEF TypeInv
<1>1. /\ Grows
      /\ \A u \in Threads \ {t} :
            cur'[u] = cur[u] /\ (pc'[u] = pc[u] \/ (pc[u] = "asleep" /\ pc'[u] = "idle"))
  BY OnlyMine
<1>2. UNCHANGED <<runs, disposals>>
  BY DEF Shared, Release, DestructorCancels, DestructorFrees, Complete, Wake, PromoteNext,
         PromotePush
<1>3. OnceThread(t)'
  <2>1. CASE Release(t) \/ Complete(t)
    <3>1. cur' = cur BY <2>1 DEF Release, Complete
    <3>2. CASE Release(t)
      <4>1. pc[t] = "release" /\ pc'[t] = IF t \in Workers THEN "callback" ELSE "complete"
        BY <1>0, <3>2, SharedPaths DEF Moves
      <4> QED BY <1>0, <1>2, <3>1, <4>1 DEF OnceThread, AfterCallback, HandPcs, CurrentPcs
    <3>3. CASE Complete(t)
      <4>1. pc'[t] = "wake" BY <1>0, <3>3, SharedPaths DEF Moves
      <4> QED BY <4>1 DEF OnceThread, HandPcs, CurrentPcs
    <3> QED BY <2>1, <3>2, <3>3
  <2>2. CASE DestructorCancels(t) \/ DestructorFrees(t)
    <3>1. cur' = cur /\ pc' = pc BY <2>2 DEF DestructorCancels, DestructorFrees
    <3> QED BY <1>0, <1>2, <3>1 DEF OnceThread, AfterCallback
  <2>3. CASE Wake(t) \/ PromoteNext(t) \/ PromotePush(t)
    <3>1. pc'[t] \in {"promote", "collect", "push"} BY <1>0, <2>3, SharedPaths DEF Moves
    <3> QED BY <3>1 DEF OnceThread, HandPcs, CurrentPcs
  <2> QED BY <2>1, <2>2, <2>3 DEF Shared
<1>4. \A u \in Threads : OnceThread(u)' BY <1>1, <1>2, <1>3, OthersOnce, OnceNow
<1>5. /\ \A e \in Executors : \A f \in heap'[e] : Fresh(f)
      /\ \A e \in Executors : \A i \in DOMAIN parked'[e] : Fresh(parked'[e][i])
  <2>1. CASE UNCHANGED <<heap, parked>> BY <2>1, OnceNow
  <2>2. CASE PromotePush(t) /\ ~Stopping(home[cur[t]])
    <3> DEFINE f == cur[t]
               e == home[f]
    <3>1. /\ heap \in [Executors -> SUBSET Futures] /\ parked \in [Executors -> Seq(Futures)]
      BY DEF TypeInv, TypeOK
    <3>2. pc[t] = "push" /\ f \in Futures /\ e \in Executors
      BY <2>2, UsedNow DEF PromotePush, CarryPcs, TypeInv, UsedInv
    <3>3. Registered(e, f)
      <4>1. Target[<<"cur", t>>] = f /\ <<"cur", t>> \in Links BY <3>2, LinkAt
      <4>2. f # None BY <3>2, Distinct
      <4> QED BY <2>2, <4>1, <4>2 DEF LinkInv
    <3>4. Fresh(f) BY <3>2, <3>3, OnceNow
    <3>5. /\ parked' = [parked EXCEPT ![e] = Unregistered(e, f)]
          /\ heap' = [heap EXCEPT ![e] = @ \cup {f}]
      BY <2>2 DEF PromotePush
    <3> HIDE DEF f, e
    <3>6. \A x \in Executors : heap'[x] \subseteq heap[x] \cup {f} BY <3>1, <3>5
    <3>7. \A i \in DOMAIN Unregistered(e, f) : Fresh(Unregistered(e, f)[i])
      BY <3>1, <3>2, UnregisteredFrom, OnceNow
    <3>8. \A x \in Executors : parked'[x] = parked[x] \/ parked'[x] = Unregistered(e, f)
      BY <3>1, <3>5
    <3> QED BY <3>4, <3>6, <3>7, <3>8, OnceNow
  <2> QED BY <2>1, <2>2
          DEF Shared, Release, DestructorCancels, DestructorFrees, Complete, Wake, PromoteNext,
              PromotePush
<1>6. \A f \in Futures : ready'[f] => disposals[f] = 1
  <2>1. CASE Complete(t)
    <3>1. ready' = [ready EXCEPT ![cur[t]] = TRUE] /\ pc[t] = "complete"
      BY <2>1 DEF Complete
    <3>2. disposals[cur[t]] = 1
      BY <1>0, <3>1 DEF OnceThread, AfterCallback, HandPcs
    <3>3. ready \in [Futures -> BOOLEAN] BY DEF TypeInv, TypeOK
    <3> QED BY <3>1, <3>2, <3>3, OnceNow
  <2>2. CASE ready' = ready BY <2>2, OnceNow
  <2> QED BY <2>1, <2>2
          DEF Shared, Release, DestructorCancels, DestructorFrees, Complete, Wake, PromoteNext,
              PromotePush
<1> QED BY <1>1, <1>2, <1>4, <1>5, <1>6, OnceSame

LEMMA DestroyerOnce ==
    ASSUME TypeInv, PlaceInv, OnceInv, NEW e \in Executors, DestroyBegin(e) \/ DestroyerOwn(e)
    PROVE  OnceInv'
<1>0. TypeOK /\ e \notin Workers /\ OnceThread(e) /\ DestroyerPlace(e) /\ pc[e] # "asleep"
  BY OnceNow, Distinct DEF TypeInv, ControlInv, DestroyerPlace, DestroyPcs
<1>1. /\ Grows
      /\ \A u \in Threads \ {e} :
            cur'[u] = cur[u] /\ (pc'[u] = pc[u] \/ (pc[u] = "asleep" /\ pc'[u] = "idle"))
  BY OnlyMine
<1>2. CASE Disposed(e)
  <2> DEFINE f == cur[e]
  <2>1. f \in Futures /\ pc[e] = "callback" /\ pc[e] \in HandPcs
    BY <1>2, UsedNow DEF Disposed, CarryPcs, HandPcs, CurrentPcs
  <2>2. /\ UNCHANGED <<alloc, heap, parked, ready, cur, runs>>
        /\ disposals' = [disposals EXCEPT ![f] = @ + 1]
    BY <1>2 DEF Disposed, DestructorReturned
  <2>3. disposals \in [Futures -> Nat] BY DEF TypeInv, TypeOK
  <2>4. runs[f] <= 1 /\ disposals[f] = 0
    BY <1>0, <2>1 DEF OnceThread, AfterCallback, OnceInv, OnceOnly
  <2>5. disposals'[f] = 1 BY <2>1, <2>2, <2>3, <2>4
  <2>6. pc'[e] \in {"release", "complete"} BY <1>0, <1>2, DestroyerPaths DEF Moves
  <2>7. OnceThread(e)' BY <2>2, <2>5, <2>6 DEF OnceThread, AfterCallback
  <2>8. \A g \in Futures : g # f => disposals'[g] = disposals[g] BY <2>2, <2>3
  <2> QED BY <1>1, <2>1, <2>2, <2>4, <2>5, <2>7, <2>8, OnceCounted
<1>3. CASE ~Disposed(e)
  <2>1. UNCHANGED <<runs, disposals, ready>>
    BY <1>3 DEF DestroyBegin, DestroyerOwn, DrainNext, DrainEnd, Join, WalkNext, WalkEnd, Collect,
                CollectTail, DestroyEnd
  <2>2. OnceThread(e)'
    <3>1. CASE DrainNext(e) \/ WalkNext(e)
      <4>1. \E f : Fresh(f) /\ cur' = [cur EXCEPT ![e] = f]
        <5>1. CASE DrainNext(e) BY <5>1, OnceNow DEF DrainNext
        <5>2. CASE WalkNext(e)
          <6>1. parked[e] # << >> /\ cur' = [cur EXCEPT ![e] = Head(parked[e])]
            BY <5>2 DEF WalkNext
          <6>2. 1 \in DOMAIN parked[e] /\ Head(parked[e]) = parked[e][1]
            BY <6>1, TailHas DEF TypeInv, TypeOK
          <6> QED BY <6>1, <6>2, OnceNow
        <5> QED BY <3>1, <5>1, <5>2
      <4>2. PICK f : Fresh(f) /\ cur' = [cur EXCEPT ![e] = f] BY <4>1
      <4>3. cur'[e] = f BY <4>2 DEF TypeInv, TypeOK
      <4>4. pc'[e] = "callback" BY <1>0, <3>1, DestroyerPaths DEF Moves
      <4> QED BY <2>1, <4>2, <4>3, <4>4 DEF OnceThread, AfterCallback, Fresh
    <3>2. CASE ~DrainNext(e) /\ ~WalkNext(e)
      <4>1. pc'[e] \notin HandPcs
        <5>1. CASE Join(e)
          BY <1>0, <5>1, DestroyerPaths DEF Join, DestroyerPlace, HandPcs, CurrentPcs
        <5>2. CASE \/ DestroyBegin(e) \/ DrainEnd(e) \/ WalkEnd(e) \/ Collect(e) \/ CollectTail(e)
                   \/ DestroyEnd(e)
          BY <1>0, <5>2, DestroyerPaths DEF Moves, HandPcs, CurrentPcs
        <5> QED BY <1>3, <3>2, <5>1, <5>2 DEF DestroyerOwn
      <4> QED BY <4>1 DEF OnceThread, HandPcs, CurrentPcs
    <3> QED BY <3>1, <3>2
  <2>3. \A u \in Threads : OnceThread(u)' BY <1>1, <2>1, <2>2, OthersOnce, OnceNow
  <2>4. \A x \in Executors : heap'[x] \subseteq heap[x]
    <3>1. heap' = heap \/ \E f : heap' = [heap EXCEPT ![e] = @ \ {f}]
      BY <1>3 DEF DestroyBegin, DestroyerOwn, DrainNext, DrainEnd, Join, WalkNext, WalkEnd,
                  Collect,
                  CollectTail, DestroyEnd
    <3>2. heap \in [Executors -> SUBSET Futures] BY DEF TypeInv, TypeOK
    <3> QED BY <3>1, <3>2
  <2>5. \A x \in Executors : \A i \in DOMAIN parked'[x] : Fresh(parked'[x][i])
    <3>1. CASE WalkNext(e)
      <4>1. parked[e] # << >> /\ parked' = [parked EXCEPT ![e] = Tail(@)] BY <3>1 DEF WalkNext
      <4>2. parked \in [Executors -> Seq(Futures)] BY DEF TypeInv, TypeOK
      <4>3. \A i \in DOMAIN Tail(parked[e]) : Fresh(Tail(parked[e])[i])
        BY <4>1, <4>2, TailHas, OnceNow
      <4>4. \A x \in Executors : parked'[x] = parked[x] \/ parked'[x] = Tail(parked[e])
        BY <4>1, <4>2
      <4> QED BY <4>3, <4>4, OnceNow
    <3>2. CASE ~WalkNext(e)
      <4>1. parked' = parked
        BY <1>3, <3>2 DEF DestroyBegin, DestroyerOwn, DrainNext, DrainEnd, Join, WalkEnd, Collect,
                          CollectTail, DestroyEnd
      <4> QED BY <4>1, OnceNow
    <3> QED BY <3>1, <3>2
  <2> QED BY <1>1, <2>1, <2>3, <2>4, <2>5, OnceSame, OnceNow
<1> QED BY <1>2, <1>3

LEMMA OnceStep == TypeInv /\ LinkInv /\ PlaceInv /\ OnceInv /\ [Next]_vars => OnceInv'
<1> SUFFICES ASSUME TypeInv, LinkInv, PlaceInv, OnceInv, [Next]_vars PROVE OnceInv'
  OBVIOUS
<1>1. CASE UNCHANGED vars
  BY <1>1 DEF vars, OnceInv, OnceThread, OnceOnly, AfterCallback, Fresh, Used
<1> QED BY <1>1, ProgramOnce, WorkerOnce, SharedOnce, DestroyerOnce, Steps

LEMMA OnceInit == Init => OnceInv
BY DEF Init, OnceInv, OnceThread, OnceOnly, Fresh, HandPcs, CurrentPcs

(* One place means that the three counts of OnePlace add up to one. *)
LEMMA PlacesCounted ==
    ASSUME TypeInv, PlaceInv
    PROVE  OnePlace
<1> SUFFICES ASSUME NEW f \in Futures
             PROVE  Cardinality({e \in Executors : f \in heap[e]})
                    + Cardinality(UNION {{e} \X IndicesOf(e, f) : e \in Executors})
                    + Cardinality({t \in Threads : InHand(t, f)})
                    = IF Unfinished(f) THEN 1 ELSE 0
  BY DEF OnePlace
<1> DEFINE A == {e \in Executors : f \in heap[e]}
           B == UNION {{e} \X IndicesOf(e, f) : e \in Executors}
           C == {t \in Threads : InHand(t, f)}
<1>1. \A x : x \in B <=> \E e \in Executors : \E i \in DOMAIN parked[e] :
                            parked[e][i] = f /\ x = <<e, i>>
  BY DEF IndicesOf
<1>2. /\ \A e \in Executors : f \in heap[e] => home[f] = e /\ ~ready[f] /\ Used(f)
                                               /\ ~Registered(e, f)
      /\ \A e \in Executors : \A i \in DOMAIN parked[e] : parked[e][i] = f =>
            home[f] = e /\ ~ready[f] /\ Used(f)
      /\ \A t \in Threads : InHand(t, f) =>
            /\ home[f] \in Executors /\ ~ready[f] /\ Used(f)
            /\ f \notin heap[home[f]] /\ ~Registered(home[f], f)
            /\ \A u \in Threads : InHand(u, f) => u = t
  <2>1. \A t \in Threads : InHand(t, f) =>
            /\ home[f] \in Executors /\ ~ready[f] /\ Used(f)
            /\ f \notin heap[home[f]] /\ ~Registered(home[f], f)
            /\ \A u \in Threads : InHand(u, f) => u = t
    BY UsedNow, Distinct DEF InHand, PlaceInv, HandPlace, ExecutorOf, CarryPcs
  <2>2. \A e \in Executors : f \in heap[e] => home[f] = e /\ ~ready[f] /\ Used(f)
                                              /\ ~Registered(e, f)
    BY UsedNow DEF PlaceInv, HeapPlace
  <2>3. \A e \in Executors : \A i \in DOMAIN parked[e] : parked[e][i] = f =>
            home[f] = e /\ ~ready[f] /\ Used(f)
    BY UsedNow DEF PlaceInv, ParkedPlace
  <2> QED BY <2>1, <2>2, <2>3
<1>3. CASE \E e \in Executors : f \in heap[e]
  <2>1. PICK e \in Executors : f \in heap[e] BY <1>3
  <2>2. A = {e} /\ Unfinished(f) BY <1>2, <2>1 DEF Unfinished, Used
  <2>3. B = {}
    <3>1. \A x : x \notin B BY <1>1, <1>2, <2>1 DEF Registered
    <3> HIDE DEF B
    <3> QED BY <3>1
  <2>4. C = {} BY <1>2, <2>1
  <2> HIDE DEF A, B, C
  <2>5. Cardinality(A) = 1 /\ Cardinality(B) = 0 /\ Cardinality(C) = 0
    BY <2>2, <2>3, <2>4, FS_EmptySet, FS_Singleton
  <2> QED BY <2>2, <2>5 DEF A, B, C
<1>4. CASE \E e \in Executors : Registered(e, f)
  <2>0. PICK e \in Executors : Registered(e, f) BY <1>4
  <2>1. PICK i \in DOMAIN parked[e] : parked[e][i] = f BY <2>0 DEF Registered
  <2>2. A = {} /\ Unfinished(f) BY <1>2, <2>1 DEF Unfinished, Used, Registered
  <2>3. B = {<<e, i>>}
    <3>1. \A j \in DOMAIN parked[e] : parked[e][j] = f => j = i
      BY <2>1 DEF PlaceInv, ParkedPlace
    <3>2. \A x : x \in B <=> x = <<e, i>> BY <1>1, <1>2, <2>1, <3>1
    <3> HIDE DEF B
    <3> QED BY <3>2
  <2>4. C = {} BY <1>2, <2>1 DEF Registered
  <2> HIDE DEF A, B, C
  <2>5. Cardinality(A) = 0 /\ Cardinality(B) = 1 /\ Cardinality(C) = 0
    BY <2>2, <2>3, <2>4, FS_EmptySet, FS_Singleton
  <2> QED BY <2>2, <2>5 DEF A, B, C
<1>5. CASE \E t \in Threads : InHand(t, f)
  <2>1. PICK t \in Threads : InHand(t, f) BY <1>5
  <2>2. C = {t} /\ Unfinished(f) BY <1>2, <2>1 DEF Unfinished, Used
  <2>3. A = {} BY <1>2, <2>1
  <2>4. B = {}
    <3>1. \A x : x \notin B BY <1>1, <1>2, <2>1 DEF Registered
    <3> HIDE DEF B
    <3> QED BY <3>1
  <2> HIDE DEF A, B, C
  <2>5. Cardinality(A) = 0 /\ Cardinality(B) = 0 /\ Cardinality(C) = 1
    BY <2>2, <2>3, <2>4, FS_EmptySet, FS_Singleton
  <2> QED BY <2>2, <2>5 DEF A, B, C
<1>6. CASE /\ \A e \in Executors : f \notin heap[e] /\ ~Registered(e, f)
           /\ \A t \in Threads : ~InHand(t, f)
  <2>1. ~Unfinished(f)
    <3>1. Unfinished(f) => home[f] \in Executors
      BY DEF Unfinished, TypeInv, UsedInv, Used
    <3> QED BY <1>6, <3>1 DEF PlaceInv, Placed
  <2>2. A = {} BY <1>6
  <2>3. B = {}
    <3>1. \A x : x \notin B BY <1>1, <1>6 DEF Registered
    <3> HIDE DEF B
    <3> QED BY <3>1
  <2>4. C = {} BY <1>6
  <2> HIDE DEF A, B, C
  <2>5. Cardinality(A) = 0 /\ Cardinality(B) = 0 /\ Cardinality(C) = 0
    BY <2>2, <2>3, <2>4, FS_EmptySet
  <2> QED BY <2>1, <2>5 DEF A, B, C
<1> QED BY <1>3, <1>4, <1>5, <1>6

(* Every future submitted to an executor is in one queue or in the hands of one
   thread until it is complete, its function is called at most once and its user
   data destroyed once: submission, promotion, completion and both phases of
   fviz_executor_destroy never lose or duplicate it. *)
THEOREM ScheduledOnceAlways == Spec => []ScheduledOnce
<1> DEFINE IInv == TypeInv /\ LinkInv /\ PlaceInv /\ OnceInv
<1>1. Init => IInv BY TypeInit, LinkInit, PlaceInit, OnceInit
<1>2. IInv /\ [Next]_vars => IInv' BY TypeStep, LinkStep, PlaceStep, OnceStep
<1>3. IInv => ScheduledOnce
  BY PlacesCounted DEF ScheduledOnce, TypeInv, OnceInv
<1> HIDE DEF IInv
<1> QED BY <1>1, <1>2, <1>3, PTL DEF Spec

-----------------------------------------------------------------------------
(* The dependents of a future are counted *)

(* A step that submits nothing and releases no dependency. *)
LEMMA CountSame ==
    ASSUME TypeInv, CountInv, UNCHANGED <<dep, holds, dependents>>,
           \A f \in Futures : Used(f)' <=> Used(f),
           \A f \in Futures : alloc'[f] = "freed" => alloc[f] = "freed" \/ dependents[f] = 0
    PROVE  CountInv'
<1>1. UsedFinite'
  <2>1. {f \in Futures : Used(f)'} = {f \in Futures : Used(f)} OBVIOUS
  <2>2. IsFiniteSet({f \in Futures : Used(f)'}) BY <2>1 DEF CountInv, UsedFinite
  <2> QED BY <2>2 DEF UsedFinite
<1>2. Held' BY DEF CountInv, Held
<1>3. DependentsCounted' BY DEF CountInv, DependentsCounted
<1>4. AntecedentKept'
  <2> SUFFICES ASSUME NEW f \in Futures, holds[f] PROVE alloc'[dep[f]] # "freed"
    BY DEF AntecedentKept
  <2>1. dep[f] \in Futures BY DEF TypeInv, TypeOK, CountInv, Held
  <2>2. alloc[dep[f]] # "freed" BY DEF CountInv, AntecedentKept
  <2>3. dependents[dep[f]] # 0
    <3>1. f \in Dependents(dep[f]) BY DEF Dependents
    <3>2. IsFiniteSet(Dependents(dep[f]))
      BY FS_Subset DEF CountInv, UsedFinite, Held, Dependents
    <3>3. Cardinality(Dependents(dep[f])) # 0 BY <3>1, <3>2, FS_EmptySet
    <3>4. dependents[dep[f]] = Cardinality(Dependents(dep[f]))
      BY <2>1 DEF CountInv, DependentsCounted, Dependents
    <3> QED BY <3>3, <3>4
  <2> QED BY <2>1, <2>2, <2>3
<1> QED BY <1>1, <1>2, <1>3, <1>4 DEF CountInv

(* fviz_future_release_dependency *)
LEMMA CountReleased ==
    ASSUME TypeInv, CountInv, NEW f \in Futures, ReleaseDependency(f), UNCHANGED <<alloc, dep>>
    PROVE  CountInv'
<1>1. CASE ~holds[f]
  BY <1>1, CountSame DEF ReleaseDependency, Used
<1>2. CASE holds[f]
  <2> DEFINE d == dep[f]
  <2>1. d \in Futures BY <1>2 DEF TypeInv, TypeOK, CountInv, Held
  <2>2. holds' = [holds EXCEPT ![f] = FALSE] /\ dependents' = Lowered(d)
    BY <1>2 DEF ReleaseDependency
  <2>3. holds \in [Futures -> BOOLEAN] /\ dependents \in [Futures -> Nat] BY DEF TypeInv, TypeOK
  <2>4. \A g \in Futures : holds'[g] <=> holds[g] /\ g # f BY <2>2, <2>3
  <2>5. UsedFinite' BY DEF CountInv, UsedFinite, Used
  <2>6. Held' BY <2>4 DEF CountInv, Held, Used
  <2>7. AntecedentKept' BY <2>4 DEF CountInv, AntecedentKept
  <2>8. ASSUME NEW x \in Futures
        PROVE  dependents'[x] = Cardinality({g \in Futures : holds'[g] /\ dep'[g] = x})
    <3> DEFINE new == {g \in Futures : holds'[g] /\ dep'[g] = x}
    <3>1. dependents[x] = Cardinality(Dependents(x))
      BY DEF CountInv, DependentsCounted, Dependents
    <3>2. CASE x # d
      <4>1. new = Dependents(x) BY <2>4, <3>2 DEF Dependents
      <4>2. dependents'[x] = dependents[x] BY <2>2, <2>3, <3>2 DEF Lowered
      <4> QED BY <3>1, <4>1, <4>2
    <3>3. CASE x = d
      <4>1. new = Dependents(d) \ {f} BY <2>4, <3>3 DEF Dependents
      <4>2. f \in Dependents(d) BY <1>2 DEF Dependents
      <4>3. IsFiniteSet(Dependents(d))
        BY FS_Subset DEF CountInv, UsedFinite, Held, Dependents
      <4>4. Cardinality(new) = Cardinality(Dependents(d)) - 1
        BY <4>1, <4>2, <4>3, FS_RemoveElement
      <4>5. Cardinality(Dependents(d)) # 0 BY <4>2, <4>3, FS_EmptySet
      <4>6. dependents'[d] = dependents[d] - 1
        BY <2>1, <2>2, <2>3, <3>1, <3>3, <4>5 DEF Lowered
      <4> QED BY <3>1, <3>3, <4>4, <4>6
    <3> QED BY <3>2, <3>3
  <2>9. DependentsCounted' BY <2>8 DEF DependentsCounted
  <2> QED BY <2>5, <2>6, <2>7, <2>9 DEF CountInv
<1> QED BY <1>1, <1>2

LEMMA CountAccepted ==
    ASSUME TypeInv, CountInv, NEW f \in Futures, NEW e \in Executors, NEW d \in FutureOrNone,
           Accept(f, e, d)
    PROVE  CountInv'
<1>1. /\ alloc' = [alloc EXCEPT ![f] = "live"] /\ dep' = [dep EXCEPT ![f] = d]
      /\ holds' = [holds EXCEPT ![f] = d # None]
      /\ dependents' = IF d = None THEN dependents ELSE [dependents EXCEPT ![d] = @ + 1]
      /\ ~Used(f) /\ (d # None => d \in Futures /\ alloc[d] = "live")
  BY DEF Accept, MayDepend, Usable, Used
<1>2. /\ alloc \in [Futures -> {"unused", "live", "closing", "freed"}]
      /\ dep \in [Futures -> FutureOrNone] /\ holds \in [Futures -> BOOLEAN]
      /\ dependents \in [Futures -> Nat]
  BY DEF TypeInv, TypeOK
<1>3. \A g \in Futures : /\ Used(g)' <=> Used(g) \/ g = f
                         /\ alloc'[g] = IF g = f THEN "live" ELSE alloc[g]
                         /\ dep'[g] = IF g = f THEN d ELSE dep[g]
                         /\ holds'[g] = IF g = f THEN d # None ELSE holds[g]
  BY <1>1, <1>2 DEF Used
<1>4. ~holds[f] BY <1>1 DEF CountInv, Held
<1>5. UsedFinite'
  <2>1. {g \in Futures : Used(g)'} = {g \in Futures : Used(g)} \cup {f} BY <1>3
  <2>2. IsFiniteSet({g \in Futures : Used(g)'}) BY <2>1, FS_AddElement DEF CountInv, UsedFinite
  <2> QED BY <2>2 DEF UsedFinite
<1>6. Held' BY <1>3 DEF CountInv, Held
<1>7. AntecedentKept'
  <2> SUFFICES ASSUME NEW g \in Futures, holds'[g] PROVE alloc'[dep'[g]] # "freed"
    BY DEF AntecedentKept
  <2>1. CASE g = f
    <3>1. dep'[g] = d /\ d # None BY <1>3, <2>1
    <3> QED BY <1>1, <1>3, <3>1
  <2>2. CASE g # f
    <3>1. dep'[g] = dep[g] /\ holds[g] BY <1>3, <2>2
    <3>2. dep[g] \in Futures /\ alloc[dep[g]] # "freed"
      BY <1>2, <3>1 DEF CountInv, Held, AntecedentKept
    <3> QED BY <1>3, <3>1, <3>2
  <2> QED BY <2>1, <2>2
<1>8. ASSUME NEW x \in Futures
      PROVE  dependents'[x] = Cardinality({g \in Futures : holds'[g] /\ dep'[g] = x})
  <2> DEFINE new == {g \in Futures : holds'[g] /\ dep'[g] = x}
  <2>1. dependents[x] = Cardinality(Dependents(x))
    BY DEF CountInv, DependentsCounted, Dependents
  <2>2. CASE x # d
    <3>1. new = Dependents(x) BY <1>3, <1>4, <2>2 DEF Dependents
    <3>2. dependents'[x] = dependents[x] BY <1>1, <1>2, <2>2
    <3> QED BY <2>1, <3>1, <3>2
  <2>3. CASE x = d
    <3>0. d # None BY <2>3, Distinct
    <3>1. new = Dependents(d) \cup {f} BY <1>3, <2>3, <3>0 DEF Dependents
    <3>2. f \notin Dependents(d) BY <1>4 DEF Dependents
    <3>3. IsFiniteSet(Dependents(d))
      BY FS_Subset DEF CountInv, UsedFinite, Held, Dependents
    <3>4. Cardinality(new) = Cardinality(Dependents(d)) + 1
      BY <3>1, <3>2, <3>3, FS_AddElement
    <3>5. dependents'[d] = dependents[d] + 1 BY <1>1, <1>2, <2>3, <3>0
    <3> QED BY <2>1, <2>3, <3>4, <3>5
  <2> QED BY <2>2, <2>3
<1>9. DependentsCounted' BY <1>8 DEF DependentsCounted
<1> QED BY <1>5, <1>6, <1>7, <1>9 DEF CountInv

LEMMA CountStep ==
    ASSUME ~RejectedThen
    PROVE  TypeInv /\ CountInv /\ [Next]_vars => CountInv'
<1> SUFFICES ASSUME TypeInv, CountInv, [Next]_vars PROVE CountInv'
  OBVIOUS
<1>1. CASE ProgramOwn
  <2>1. ASSUME NEW f \in Futures, NEW e \in Executors, NEW d \in FutureOrNone, Reject(f, e, d)
        PROVE  CountInv'
    <3>1. UNCHANGED <<alloc, dep, holds, dependents>> BY <2>1 DEF Reject
    <3> QED BY <3>1, CountSame DEF Used
  <2>2. ASSUME NEW f \in Futures, Cancel(f) \/ TakeValue(f) \/ BeginFree(f) \/ EndFree(f)
        PROVE  CountInv'
    <3>1. UNCHANGED <<dep, holds, dependents>> /\ \A g \in Futures : Used(g)' <=> Used(g)
      BY <2>2, UsedSame DEF Cancel, TakeValue, BeginFree, EndFree
    <3>2. \/ alloc' = alloc \/ alloc' = [alloc EXCEPT ![f] = "closing"]
          \/ dependents[f] = 0 /\ alloc' = [alloc EXCEPT ![f] = "freed"]
      BY <2>2 DEF Cancel, TakeValue, BeginFree, EndFree, Freeable
    <3>3. \A g \in Futures : alloc'[g] = "freed" => alloc[g] = "freed" \/ dependents[g] = 0
      BY <3>2 DEF TypeInv, TypeOK
    <3> QED BY <3>1, <3>3, CountSame
  <2> QED BY <1>1, <2>1, <2>2, CountAccepted DEF ProgramOwn
<1>2. ASSUME NEW w \in Workers, WorkerOwn(w) PROVE CountInv'
  <2>1. CASE ReadAntecedent(w)
    <3>1. cur[w] \in Futures /\ ReleaseDependency(cur[w]) /\ UNCHANGED <<alloc, dep>>
      BY <2>1, UsedNow DEF ReadAntecedent, CarryPcs, HandPcs, CurrentPcs
    <3> QED BY <3>1, CountReleased
  <2>2. CASE ~ReadAntecedent(w)
    <3>1. UNCHANGED <<alloc, dep, holds, dependents>>
      BY <1>2, <2>2 DEF WorkerOwn, Pop, Wait, Check, Run, Publish, PromoteEnd
    <3> QED BY <3>1, CountSame DEF Used
  <2> QED BY <2>1, <2>2
<1>3. ASSUME NEW t \in Threads, Shared(t) PROVE CountInv'
  <2>1. CASE Release(t)
    <3>1. cur[t] \in Futures /\ ReleaseDependency(cur[t]) /\ UNCHANGED <<alloc, dep>>
      BY <2>1, UsedNow DEF Release, CarryPcs, HandPcs, CurrentPcs
    <3> QED BY <3>1, CountReleased
  <2>2. CASE DestructorFrees(t)
    <3>1. UNCHANGED <<dep, holds, dependents>> /\ \A g \in Futures : Used(g)' <=> Used(g)
      BY <1>3, <2>2, UsedSame DEF DestructorFrees
    <3>2. PICK f \in Futures : dependents[f] = 0 /\ alloc' = [alloc EXCEPT ![f] = "freed"]
      BY <2>2 DEF DestructorFrees, Freeable
    <3>3. \A g \in Futures : alloc'[g] = "freed" => alloc[g] = "freed" \/ dependents[g] = 0
      BY <3>2 DEF TypeInv, TypeOK
    <3> QED BY <3>1, <3>3, CountSame
  <2>3. CASE ~Release(t) /\ ~DestructorFrees(t)
    <3>1. UNCHANGED <<alloc, dep, holds, dependents>>
      BY <1>3, <2>3 DEF Shared, DestructorCancels, Complete, Wake, PromoteNext, PromotePush
    <3> QED BY <3>1, CountSame DEF Used
  <2> QED BY <2>1, <2>2, <2>3
<1>4. ASSUME NEW e \in Executors, DestroyBegin(e) \/ DestroyerOwn(e) PROVE CountInv'
  <2>1. UNCHANGED <<alloc, dep, holds, dependents>>
    BY <1>4 DEF DestroyBegin, DestroyerOwn, DrainNext, DrainEnd, Join, WalkNext, WalkEnd,
                Disposed, Collect, CollectTail, DestroyEnd
  <2> QED BY <2>1, CountSame DEF Used
<1>5. CASE UNCHANGED vars BY <1>5, CountSame DEF vars, Used
<1> QED BY <1>1, <1>2, <1>3, <1>4, <1>5, Steps

LEMMA CountInit == Init => CountInv
<1> SUFFICES ASSUME Init PROVE CountInv
  OBVIOUS
<1>1. {f \in Futures : Used(f)} = {} BY DEF Init, Used
<1>2. UsedFinite BY <1>1, FS_EmptySet DEF UsedFinite
<1>3. Held /\ AntecedentKept BY DEF Init, Held, AntecedentKept
<1>4. ASSUME NEW d \in Futures PROVE dependents[d] = Cardinality({f \in Futures : holds[f] /\ dep[f] = d})
  <2>1. {f \in Futures : holds[f] /\ dep[f] = d} = {} BY DEF Init
  <2>2. dependents[d] = 0 BY DEF Init
  <2> QED BY <2>1, <2>2, FS_EmptySet
<1> QED BY <1>2, <1>3, <1>4 DEF CountInv, DependentsCounted

(* dependent_count is exactly the number of futures that still hold the future, unless a
   full executor refuses an fviz_future_then. *)
THEOREM DependentsCountedAlways ==
    ASSUME ~RejectedThen
    PROVE  Spec => []DependentsCounted
<1> DEFINE IInv == TypeInv /\ CountInv
<1>1. Init => IInv BY TypeInit, CountInit
<1>2. IInv /\ [Next]_vars => IInv' BY TypeStep, CountStep
<1>3. IInv => DependentsCounted BY DEF CountInv
<1> HIDE DEF IInv
<1> QED BY <1>1, <1>2, <1>3, PTL DEF Spec

(* So a future is not freed, by the program or by a user-data destructor, before the last
   continuation that was submitted on it has read its result or has been cancelled. *)
THEOREM AntecedentKeptAlways ==
    ASSUME ~RejectedThen
    PROVE  Spec => []AntecedentKept
<1> DEFINE IInv == TypeInv /\ CountInv
<1>1. Init => IInv BY TypeInit, CountInit
<1>2. IInv /\ [Next]_vars => IInv' BY TypeStep, CountStep
<1>3. IInv => AntecedentKept BY DEF CountInv
<1> HIDE DEF IInv
<1> QED BY <1>1, <1>2, <1>3, PTL DEF Spec

-----------------------------------------------------------------------------
(* The last phases of a shutdown *)

(* A worker that has left stays away. *)
LEMMA ExitedStays ==
    ASSUME TypeInv, [Next]_vars, NEW w \in Workers, pc[w] = "exited"
    PROVE  pc'[w] = "exited"
<1>0. TypeOK /\ w \in Threads /\ w \notin Executors BY Distinct DEF TypeInv
<1>1. CASE ProgramOwn BY <1>0, <1>1, ProgramRests DEF Rests
<1>2. ASSUME NEW v \in Workers, WorkerOwn(v) PROVE pc'[w] = "exited"
  BY <1>0, <1>2, WorkerPaths DEF WorkerOwn, Moves
<1>3. ASSUME NEW t \in Threads, Shared(t) PROVE pc'[w] = "exited"
  BY <1>0, <1>3, SharedPaths DEF Shared, Moves
<1>4. ASSUME NEW e \in Executors, DestroyBegin(e) \/ DestroyerOwn(e) PROVE pc'[w] = "exited"
  <2>1. pc[e] # "asleep" /\ w # e BY <1>0 DEF TypeInv, ControlInv, DestroyerPlace, DestroyPcs
  <2> QED BY <1>0, <1>4, <2>1, DestroyerPaths DEF DestroyerOwn, Moves
<1>5. CASE UNCHANGED vars BY <1>5 DEF vars, threadVars
<1> QED BY <1>1, <1>2, <1>3, <1>4, <1>5, Steps

(* Nothing is added to the queues of an executor that is being destroyed. *)
LEMMA PhaseMoves ==
    ASSUME TypeInv, [Next]_vars, NEW e \in Executors
    PROVE  /\ \/ phase'[e] = phase[e]
              \/ phase[e] = "open" /\ phase'[e] = "drain"
              \/ phase[e] = "drain" /\ phase'[e] = "join" /\ heap[e] = {}
              \/ /\ phase[e] = "join" /\ phase'[e] = "walk"
                 /\ \A w \in Workers : Home[w] = e => pc[w] = "exited"
              \/ phase[e] = "walk" /\ phase'[e] = "settle" /\ parked[e] = << >>
              \/ phase[e] = "settle" /\ phase'[e] = "freed"
           /\ phase[e] # "open" =>
                 /\ phase'[e] # "open"
                 /\ heap'[e] \subseteq heap[e]
                 /\ parked[e] = << >> => parked'[e] = << >>
<1> DEFINE Still == /\ phase'[e] = phase[e]
                    /\ phase[e] # "open" => heap'[e] \subseteq heap[e] /\ parked'[e] = parked[e]
<1>0. /\ phase \in [Executors -> Phases] /\ heap \in [Executors -> SUBSET Futures]
      /\ parked \in [Executors -> Seq(Futures)]
      /\ home \in [Futures -> Executors \cup {None}]
  BY DEF TypeInv, TypeOK
<1>1. CASE ProgramOwn
  <2>1. ASSUME NEW f \in Futures, NEW x \in Executors, NEW d \in FutureOrNone,
               Accept(f, x, d) \/ Reject(f, x, d)
        PROVE  Still
    <3>1. CASE Reject(f, x, d) BY <3>1 DEF Reject, executorVars
    <3>2. CASE Accept(f, x, d)
      <4>1. /\ phase' = phase /\ phase[x] = "open"
            /\ parked' = [parked EXCEPT ![x] = Append(@, f)] \/ parked' = parked
            /\ heap' = [heap EXCEPT ![x] = @ \cup {f}] \/ heap' = heap
        BY <3>2 DEF Accept, Refuses, Stopping
      <4> QED BY <1>0, <4>1
    <3> QED BY <2>1, <3>1, <3>2
  <2>2. ASSUME NEW f \in Futures, Cancel(f) \/ TakeValue(f) \/ BeginFree(f) \/ EndFree(f)
        PROVE  Still
    BY <2>2 DEF Cancel, TakeValue, BeginFree, EndFree, executorVars
  <2>3. Still BY <1>1, <2>1, <2>2 DEF ProgramOwn
  <2> QED BY <2>3
<1>2. ASSUME NEW w \in Workers, WorkerOwn(w) PROVE Still
  <2>1. CASE Pop(w)
    <3>1. /\ phase' = phase /\ parked' = parked
          /\ \E f \in heap[Home[w]] : heap' = [heap EXCEPT ![Home[w]] = @ \ {f}]
      BY <2>1 DEF Pop
    <3> QED BY <1>0, <3>1
  <2>2. CASE ~Pop(w)
    BY <1>2, <2>2 DEF WorkerOwn, Wait, Check, ReadAntecedent, Run, Publish, PromoteEnd,
                      executorVars
  <2> QED BY <2>1, <2>2
<1>3. ASSUME NEW t \in Threads, Shared(t) PROVE Still
  <2>1. CASE PromotePush(t)
    <3>1. /\ phase' = phase
          /\ \/ UNCHANGED <<parked, heap>>
             \/ /\ phase[home[cur[t]]] = "open"
                /\ parked' = [parked EXCEPT ![home[cur[t]]] = Unregistered(home[cur[t]], cur[t])]
                /\ heap' = [heap EXCEPT ![home[cur[t]]] = @ \cup {cur[t]}]
      BY <2>1 DEF PromotePush, Stopping
    <3> QED BY <1>0, <3>1
  <2>2. CASE ~PromotePush(t)
    BY <1>3, <2>2 DEF Shared, Release, DestructorCancels, DestructorFrees, Complete, Wake,
                      PromoteNext, executorVars
  <2> QED BY <2>1, <2>2
<1>4. ASSUME NEW x \in Executors, x # e, DestroyBegin(x) \/ DestroyerOwn(x) PROVE Still
  <2>1. /\ phase'[e] = phase[e] /\ heap'[e] = heap[e] /\ parked'[e] = parked[e]
    BY <1>0, <1>4 DEF DestroyBegin, DestroyerOwn, DrainNext, DrainEnd, Join, WalkNext, WalkEnd,
              Disposed, Collect, CollectTail, DestroyEnd, executorVars
  <2> QED BY <2>1
<1>5. CASE DestroyBegin(e) BY <1>0, <1>5 DEF DestroyBegin
<1>6. CASE DestroyerOwn(e)
  <2>1. CASE DrainEnd(e) BY <1>0, <2>1 DEF DrainEnd
  <2>2. CASE Join(e) BY <1>0, <2>2 DEF Join
  <2>3. CASE WalkEnd(e) BY <1>0, <2>3 DEF WalkEnd
  <2>4. CASE DestroyEnd(e)
    <3>1. phase[e] = "settle"
      BY <1>0, <2>4 DEF DestroyEnd, TypeInv, ControlInv, DestroyerPlace, Phases, DestroyPcs
    <3> QED BY <1>0, <2>4, <3>1 DEF DestroyEnd
  <2>5. CASE DrainNext(e)
    <3>1. /\ phase' = phase /\ parked' = parked
          /\ \E f \in heap[e] : heap' = [heap EXCEPT ![e] = @ \ {f}]
      BY <2>5 DEF DrainNext
    <3> QED BY <1>0, <3>1
  <2>6. CASE WalkNext(e)
    <3>1. phase' = phase /\ heap' = heap /\ parked[e] # << >> BY <2>6 DEF WalkNext
    <3> QED BY <3>1
  <2>7. CASE Disposed(e) \/ Collect(e) \/ CollectTail(e)
    BY <2>7 DEF Disposed, Collect, CollectTail, executorVars
  <2> QED BY <1>6, <2>1, <2>2, <2>3, <2>4, <2>5, <2>6, <2>7 DEF DestroyerOwn
<1>7. CASE UNCHANGED vars BY <1>7 DEF vars, executorVars
<1> QED BY <1>1, <1>2, <1>3, <1>4, <1>5, <1>6, <1>7, Steps

LEMMA PhaseStep == TypeInv /\ PhaseInv /\ [Next]_vars => PhaseInv'
<1> SUFFICES ASSUME TypeInv, PhaseInv, [Next]_vars, NEW e \in Executors PROVE PhaseAt(e)'
  BY DEF PhaseInv
<1>1. PhaseAt(e) BY DEF PhaseInv
<1>2. phase[e] # "open" => heap'[e] \subseteq heap[e] /\ (parked[e] = << >> => parked'[e] = << >>)
  BY PhaseMoves
<1>3. (\A w \in Workers : Home[w] = e => pc[w] = "exited") =>
         (\A w \in Workers : Home[w] = e => pc'[w] = "exited")
  BY ExitedStays
<1>4. phase'[e] \in {"join", "walk", "settle", "freed"} =>
         phase[e] # "open" /\ heap[e] = {}
  BY <1>1, PhaseMoves DEF PhaseAt
<1>5. phase'[e] \in {"walk", "settle", "freed"} =>
         \A w \in Workers : Home[w] = e => pc[w] = "exited"
  BY <1>1, PhaseMoves DEF PhaseAt
<1>6. phase'[e] \in {"settle", "freed"} => phase[e] # "open" /\ parked[e] = << >>
  BY <1>1, PhaseMoves DEF PhaseAt
<1> QED BY <1>2, <1>3, <1>4, <1>5, <1>6 DEF PhaseAt

LEMMA PhaseInit == Init => PhaseInv
BY DEF Init, PhaseInv, PhaseAt

-----------------------------------------------------------------------------
(* The counters *)

(* Where a step leaves the workers' tasks and the destroyer's future. *)
LEMMA BusyMoves ==
    ASSUME TypeInv, NEW t \in Threads, NEW l, Moves(t, l), pc[t] # "asleep",
           t \in Workers => (pc[t] \in CurrentPcs <=> l \in CurrentPcs)
    PROVE  \A e \in Executors : Busy(e)' = Busy(e)
<1>1. \A w \in Workers : pc'[w] \in CurrentPcs <=> pc[w] \in CurrentPcs
  BY Distinct DEF Moves, CurrentPcs
<1> QED BY <1>1 DEF Busy

LEMMA DestroyingMoves ==
    ASSUME TypeInv, NEW t \in Threads, NEW l, Moves(t, l), NEW e \in Executors
    PROVE  /\ e # t => pc'[e] = pc[e] /\ Destroying(e)' = Destroying(e)
           /\ e = t => pc'[e] = l
BY Distinct DEF Moves, Destroying

LEMMA RestsCounts ==
    ASSUME TypeInv, Rests, NEW e \in Executors
    PROVE  Busy(e)' = Busy(e) /\ Destroying(e)' = Destroying(e)
<1>1. \A w \in Workers : pc'[w] \in CurrentPcs <=> pc[w] \in CurrentPcs
  BY DEF Rests, CurrentPcs
<1>2. pc'[e] = pc[e] BY Distinct DEF Rests
<1> QED BY <1>1, <1>2 DEF Busy, Destroying

(* The numbers of an executor. *)
LEMMA Numbers ==
    ASSUME TypeInv, NEW e \in Executors, Account(e)
    PROVE  /\ IsFiniteSet(Busy(e)) /\ Cardinality(Busy(e)) \in Nat
           /\ Cardinality(heap[e]) \in Nat /\ Len(parked[e]) \in Nat
           /\ Waiting(e) = Cardinality(heap[e]) + Len(parked[e]) /\ Waiting(e) \in Nat
           /\ Destroying(e) \in {0, 1}
           /\ stats[e] \in Counters /\ stats[e].submitted \in Nat /\ stats[e].completed \in Nat
           /\ stats[e].running \in Int
           /\ pending[e] \in Nat /\ Capacity \in Nat
<1>1. Busy(e) \subseteq Workers BY DEF Busy
<1>2. IsFiniteSet(Busy(e)) BY <1>1, Distinct, FS_Subset
<1>3. Cardinality(Busy(e)) \in Nat BY <1>2, FS_CardinalityType
<1>4. Cardinality(heap[e]) \in Nat BY FS_CardinalityType DEF Account
<1>5. parked[e] \in Seq(Futures) /\ pending[e] \in Nat /\ stats[e] \in Counters
  BY DEF TypeInv, TypeOK, Counters
<1>6. Len(parked[e]) \in Nat BY <1>5
<1>7. Capacity \in Nat BY ConstantsAssumption
<1>8. Waiting(e) = Cardinality(heap[e]) + Len(parked[e]) /\ Waiting(e) \in Nat
  BY <1>4, <1>6 DEF Waiting
<1>9. stats[e].submitted \in Nat /\ stats[e].completed \in Nat /\ stats[e].running \in Int
  BY <1>5 DEF Counters
<1> QED BY <1>2, <1>3, <1>4, <1>5, <1>6, <1>7, <1>8, <1>9 DEF Destroying

(* By how much a step raises the numbers submitted, completed and running, what waits,
   the destroyer's future and pending_count. *)
Shift(e, sub, com, run, wai, des, pen) ==
    /\ stats'[e].submitted = stats[e].submitted + sub
    /\ stats'[e].completed = stats[e].completed + com
    /\ stats'[e].running = stats[e].running + run
    /\ Cardinality(Busy(e)') = Cardinality(Busy(e)) + run
    /\ Waiting(e)' = Waiting(e) + wai
    /\ Destroying(e)' = Destroying(e) + des
    /\ pending'[e] = pending[e] + pen

LEMMA AccountNow ==
    ASSUME TypeInv, NEW e \in Executors, Account(e), IsFiniteSet(heap'[e]),
           phase'[e] = "open" => phase[e] = "open",
           \/ Shift(e, 1, 0, 0, 1, 0, 1) /\ pending[e] < Capacity
           \/ Shift(e, 0, 0, 1, -1, 0, -1)
           \/ Shift(e, 0, 1, -1, 0, 0, 0)
           \/ Shift(e, 0, 0, 0, -1, 1, 0) /\ phase'[e] # "open"
           \/ Shift(e, 0, 1, 0, 0, -1, 0) /\ phase'[e] # "open"
    PROVE  Account(e)'
<1>1. /\ Cardinality(Busy(e)) \in Nat /\ Waiting(e) \in Nat /\ Destroying(e) \in {0, 1}
      /\ stats[e].submitted \in Nat /\ stats[e].completed \in Nat
      /\ stats[e].running \in Int /\ pending[e] \in Nat /\ Capacity \in Nat
  BY Numbers
<1>2. /\ stats[e].running = Cardinality(Busy(e)) /\ Waiting(e) <= pending[e]
      /\ pending[e] <= Capacity
      /\ stats[e].submitted = stats[e].completed + stats[e].running + Waiting(e) + Destroying(e)
      /\ phase[e] = "open" => Waiting(e) = pending[e]
  BY DEF Account
<1>3. CASE Shift(e, 1, 0, 0, 1, 0, 1) /\ pending[e] < Capacity
  BY <1>1, <1>2, <1>3 DEF Shift, Account
<1>4. CASE Shift(e, 0, 0, 1, -1, 0, -1) BY <1>1, <1>2, <1>4 DEF Shift, Account
<1>5. CASE Shift(e, 0, 1, -1, 0, 0, 0) BY <1>1, <1>2, <1>5 DEF Shift, Account
<1>6. CASE Shift(e, 0, 0, 0, -1, 1, 0) /\ phase'[e] # "open"
  BY <1>1, <1>2, <1>6 DEF Shift, Account
<1>7. CASE Shift(e, 0, 1, 0, 0, -1, 0) /\ phase'[e] # "open"
  BY <1>1, <1>2, <1>7 DEF Shift, Account
<1> QED BY <1>3, <1>4, <1>5, <1>6, <1>7

(* A step that does not touch the counters or the queues of e. *)
LEMMA AccountSame ==
    ASSUME NEW e \in Executors, Account(e), Busy(e)' = Busy(e),
           Destroying(e)' = Destroying(e), stats'[e] = stats[e], pending'[e] = pending[e],
           heap'[e] = heap[e], parked'[e] = parked[e],
           phase'[e] = "open" => phase[e] = "open"
    PROVE  Account(e)'
BY DEF Account, Waiting

LEMMA AccountAccepted ==
    ASSUME TypeInv, LedgerInv, HeapPlace, NEW f \in Futures, NEW e \in Executors,
           NEW d \in FutureOrNone, Accept(f, e, d)
    PROVE  LedgerInv'
<1>1. /\ stats' = [stats EXCEPT ![e].submitted = @ + 1]
      /\ pending' = [pending EXCEPT ![e] = @ + 1]
      /\ \/ heap' = heap /\ parked' = [parked EXCEPT ![e] = Append(@, f)]
         \/ parked' = parked /\ heap' = [heap EXCEPT ![e] = @ \cup {f}]
      /\ pending[e] < Capacity \/ ~(pending[e] >= Capacity)
      /\ phase' = phase /\ ~Used(f)
  BY DEF Accept, Refuses, Used
<1>2. Rests BY Rested DEF Accept, TypeInv, TypeOK
<1>3. /\ heap \in [Executors -> SUBSET Futures] /\ parked \in [Executors -> Seq(Futures)]
      /\ stats \in [Executors -> Counters] /\ pending \in [Executors -> Nat]
  BY DEF TypeInv, TypeOK, Counters
<1>4. ASSUME NEW x \in Executors, x # e PROVE Account(x)'
  <2>1. Account(x) BY DEF LedgerInv
  <2>2. /\ stats'[x] = stats[x] /\ pending'[x] = pending[x] /\ heap'[x] = heap[x]
        /\ parked'[x] = parked[x] /\ phase'[x] = phase[x]
    BY <1>1, <1>3, <1>4
  <2> QED BY <1>2, <2>1, <2>2, RestsCounts, AccountSame
<1>5. Account(e)'
  <2>1. Account(e) BY DEF LedgerInv
  <2>2. /\ stats'[e].submitted = stats[e].submitted + 1
        /\ stats'[e].completed = stats[e].completed /\ stats'[e].running = stats[e].running
    BY <1>1, <1>3 DEF Counters
  <2>3. pending'[e] = pending[e] + 1 /\ phase'[e] = phase[e] BY <1>1, <1>3
  <2>4. f \notin heap[e] BY <1>1 DEF TypeInv, UsedInv
  <2>5. IsFiniteSet(heap'[e]) /\ Waiting(e)' = Waiting(e) + 1
    <3>1. CASE heap' = heap /\ parked' = [parked EXCEPT ![e] = Append(@, f)]
      <4>1. parked'[e] = Append(parked[e], f) /\ parked[e] \in Seq(Futures) BY <1>3, <3>1
      <4>2. Len(parked'[e]) = Len(parked[e]) + 1 BY <4>1
      <4>3. Cardinality(heap[e]) \in Nat /\ Len(parked[e]) \in Nat BY <2>1, Numbers
      <4>4. IsFiniteSet(heap'[e]) BY <2>1, <3>1 DEF Account
      <4> QED BY <3>1, <4>2, <4>3, <4>4 DEF Waiting
    <3>2. CASE parked' = parked /\ heap' = [heap EXCEPT ![e] = @ \cup {f}]
      <4>1. heap'[e] = heap[e] \cup {f} BY <1>3, <3>2
      <4>3. IsFiniteSet(heap[e]) BY <2>1 DEF Account
      <4>2. IsFiniteSet(heap'[e]) /\ Cardinality(heap'[e]) = Cardinality(heap[e]) + 1
        BY <2>4, <4>1, <4>3, FS_AddElement
      <4>4. Cardinality(heap[e]) \in Nat /\ Len(parked[e]) \in Nat BY <2>1, Numbers
      <4> QED BY <3>2, <4>2, <4>4 DEF Waiting
    <3> QED BY <1>1, <3>1, <3>2
  <2>6. Busy(e)' = Busy(e) /\ Destroying(e)' = Destroying(e) BY <1>2, RestsCounts
  <2>7. pending[e] < Capacity BY <1>1, <2>1, Numbers
  <2>8. Shift(e, 1, 0, 0, 1, 0, 1)
    <3>1. /\ stats[e].completed \in Nat /\ stats[e].running \in Int
          /\ Cardinality(Busy(e)) \in Nat /\ Destroying(e) \in {0, 1}
      BY <2>1, Numbers
    <3>2. stats'[e].completed = stats[e].completed + 0 /\ stats'[e].running = stats[e].running + 0
      BY <2>2, <3>1
    <3>3. Cardinality(Busy(e)') = Cardinality(Busy(e)) + 0 /\ Destroying(e)' = Destroying(e) + 0
      BY <2>6, <3>1
    <3> QED BY <2>2, <2>3, <2>5, <3>2, <3>3 DEF Shift
  <2> QED BY <2>1, <2>3, <2>5, <2>7, <2>8, AccountNow
<1> QED BY <1>4, <1>5 DEF LedgerInv

(* The workers of Home[w] have one task more or one less. *)
LEMMA BusyChanges ==
    ASSUME TypeInv, NEW w \in Workers, NEW l, Moves(w, l), pc[w] # "asleep",
           NEW e \in Executors
    PROVE  /\ e # Home[w] => Busy(e)' = Busy(e)
           /\ e = Home[w] => Busy(e)' = IF l \in CurrentPcs THEN Busy(e) \cup {w}
                                        ELSE Busy(e) \ {w}
           /\ Destroying(e)' = Destroying(e)
<1>1. \A v \in Workers : v # w => (pc'[v] \in CurrentPcs <=> pc[v] \in CurrentPcs)
  BY Distinct DEF Moves, CurrentPcs
<1>2. pc'[w] = l BY DEF Moves
<1>3. Destroying(e)' = Destroying(e) BY Distinct, DestroyingMoves
<1> QED BY <1>1, <1>2, <1>3 DEF Busy

LEMMA AccountPopped ==
    ASSUME TypeInv, LedgerInv, NEW w \in Workers, Pop(w)
    PROVE  LedgerInv'
<1> DEFINE e == Home[w]
<1>0. e \in Executors BY Distinct
<1>1. PICK f \in heap[e] : heap' = [heap EXCEPT ![e] = @ \ {f}] BY DEF Pop
<1>2. /\ stats' = [stats EXCEPT ![e].running = @ + 1]
      /\ pending' = [pending EXCEPT ![e] = IF @ = 0 THEN 0 ELSE @ - 1]
      /\ parked' = parked /\ phase' = phase
  BY DEF Pop
<1>3. pc[w] = "idle" /\ Moves(w, "check") BY WorkerPaths DEF TypeInv
<1>4. /\ heap \in [Executors -> SUBSET Futures] /\ stats \in [Executors -> Counters]
      /\ pending \in [Executors -> Nat]
  BY DEF TypeInv, TypeOK, Counters
<1> HIDE DEF e
<1>5. ASSUME NEW x \in Executors, x # e PROVE Account(x)'
  <2>1. Account(x) BY DEF LedgerInv
  <2>2. stats'[x] = stats[x] /\ pending'[x] = pending[x] /\ heap'[x] = heap[x]
    BY <1>1, <1>2, <1>4, <1>5
  <2>3. Busy(x)' = Busy(x) /\ Destroying(x)' = Destroying(x)
    BY <1>3, <1>5, BusyChanges DEF e
  <2> QED BY <1>2, <2>1, <2>2, <2>3, AccountSame
<1>6. Account(e)'
  <2>1. Account(e) BY <1>0 DEF LedgerInv
  <2>2. /\ stats'[e].submitted = stats[e].submitted
        /\ stats'[e].completed = stats[e].completed /\ stats'[e].running = stats[e].running + 1
    BY <1>0, <1>2, <1>4 DEF Counters
  <2>3. heap'[e] = heap[e] \ {f} BY <1>0, <1>1, <1>4
  <2>4. /\ IsFiniteSet(heap'[e]) /\ Cardinality(heap'[e]) = Cardinality(heap[e]) - 1
        /\ Cardinality(heap[e]) # 0
    BY <1>1, <2>1, <2>3, FS_RemoveElement, FS_EmptySet DEF Account
  <2>5. Waiting(e)' = Waiting(e) - 1
    <3>1. Cardinality(heap[e]) \in Nat /\ Len(parked[e]) \in Nat BY <1>0, <2>1, Numbers
    <3>2. Waiting(e)' = Cardinality(heap'[e]) + Len(parked[e]) BY <1>2 DEF Waiting
    <3> QED BY <2>4, <3>1, <3>2 DEF Waiting
  <2>6. Waiting(e) >= 1 BY <1>0, <2>1, <2>4, Numbers
  <2>7. pending'[e] = pending[e] - 1
    <3>1. pending[e] >= 1 BY <1>0, <2>1, <2>6, Numbers DEF Account
    <3> QED BY <1>0, <1>2, <1>4, <3>1
  <2>8. "check" \in CurrentPcs /\ w \notin Busy(e) BY <1>3 DEF CurrentPcs, Busy
  <2>9. Busy(e)' = Busy(e) \cup {w} /\ Destroying(e)' = Destroying(e)
    BY <1>0, <1>3, <2>8, BusyChanges DEF e
  <2>10. Cardinality(Busy(e)') = Cardinality(Busy(e)) + 1
    BY <1>0, <2>1, <2>8, <2>9, Numbers, FS_AddElement
  <2>11. Shift(e, 0, 0, 1, -1, 0, -1)
    <3>1. /\ stats[e].submitted \in Nat /\ stats[e].completed \in Nat
          /\ Waiting(e) \in Nat /\ Destroying(e) \in {0, 1} /\ pending[e] \in Nat
      BY <1>0, <2>1, Numbers
    <3>2. /\ stats'[e].submitted = stats[e].submitted + 0
          /\ stats'[e].completed = stats[e].completed + 0
      BY <2>2, <3>1
    <3>3. Waiting(e)' = Waiting(e) + (-1) /\ pending'[e] = pending[e] + (-1)
      BY <2>5, <2>7, <3>1
    <3>4. Destroying(e)' = Destroying(e) + 0 BY <2>9, <3>1
    <3> QED BY <2>2, <2>10, <3>2, <3>3, <3>4 DEF Shift
  <2> QED BY <1>0, <1>2, <2>1, <2>4, <2>11, AccountNow
<1> QED BY <1>5, <1>6 DEF LedgerInv

LEMMA AccountPublished ==
    ASSUME TypeInv, LedgerInv, NEW w \in Workers, Publish(w)
    PROVE  LedgerInv'
<1> DEFINE e == Home[w]
<1>0. e \in Executors BY Distinct
<1>1. /\ stats' = [stats EXCEPT ![e] = [Counted(stats[e], res[w]) EXCEPT !.running = @ - 1]]
      /\ UNCHANGED <<heap, pending, parked, phase>>
  BY DEF Publish
<1>2. pc[w] = "callback" /\ Moves(w, "complete") BY WorkerPaths DEF TypeInv
<1>3. stats \in [Executors -> Counters] BY DEF TypeInv, TypeOK, Counters
<1> HIDE DEF e
<1>4. ASSUME NEW x \in Executors, x # e PROVE Account(x)'
  <2>1. Account(x) BY DEF LedgerInv
  <2>2. stats'[x] = stats[x] BY <1>1, <1>3, <1>4
  <2>3. Busy(x)' = Busy(x) /\ Destroying(x)' = Destroying(x)
    BY <1>2, <1>4, BusyChanges DEF e
  <2> QED BY <1>1, <2>1, <2>2, <2>3, AccountSame
<1>5. Account(e)'
  <2>1. Account(e) BY <1>0 DEF LedgerInv
  <2>2. /\ stats'[e].submitted = stats[e].submitted
        /\ stats'[e].completed = stats[e].completed + 1
        /\ stats'[e].running = stats[e].running - 1
    <3> DEFINE s == Counted(stats[e], res[w])
    <3>1. stats[e] \in Counters BY <1>0, <1>3
    <3>2. s \in Counters /\ s.submitted = stats[e].submitted /\ s.running = stats[e].running
          /\ s.completed = stats[e].completed + 1
      BY <3>1, CountedType
    <3>3. stats'[e] = [s EXCEPT !.running = @ - 1] BY <1>0, <1>1, <1>3
    <3> HIDE DEF s
    <3> QED BY <3>2, <3>3 DEF Counters
  <2>3. "complete" \notin CurrentPcs /\ w \in Busy(e) BY <1>2 DEF CurrentPcs, Busy, e
  <2>4. Busy(e)' = Busy(e) \ {w} /\ Destroying(e)' = Destroying(e)
    BY <1>0, <1>2, <2>3, BusyChanges DEF e
  <2>5. Cardinality(Busy(e)') = Cardinality(Busy(e)) - 1
    BY <1>0, <2>1, <2>3, <2>4, Numbers, FS_RemoveElement
  <2>6. Waiting(e)' = Waiting(e) BY <1>1 DEF Waiting
  <2>7. IsFiniteSet(heap'[e]) BY <1>1, <2>1 DEF Account
  <2>8. /\ stats[e].submitted \in Nat /\ stats[e].completed \in Nat /\ stats[e].running \in Int
        /\ Cardinality(Busy(e)) \in Nat /\ Waiting(e) \in Nat /\ Destroying(e) \in {0, 1}
        /\ pending[e] \in Nat
    BY <1>0, <2>1, Numbers
  <2>9. /\ stats'[e].submitted = stats[e].submitted + 0
        /\ stats'[e].running = stats[e].running + (-1)
        /\ Cardinality(Busy(e)') = Cardinality(Busy(e)) + (-1)
    BY <2>2, <2>5, <2>8
  <2>10. /\ Waiting(e)' = Waiting(e) + 0 /\ Destroying(e)' = Destroying(e) + 0
         /\ pending'[e] = pending[e] + 0
    BY <1>1, <2>4, <2>6, <2>8
  <2>11. Shift(e, 0, 1, -1, 0, 0, 0) BY <2>2, <2>9, <2>10 DEF Shift
  <2> QED BY <1>0, <1>1, <2>1, <2>7, <2>11, AccountNow
<1> QED BY <1>4, <1>5 DEF LedgerInv

LEMMA AccountPromoted ==
    ASSUME TypeInv, LinkInv, PlaceInv, LedgerInv, NEW t \in Threads, PromotePush(t)
    PROVE  LedgerInv'
<1> PICK f, e : f = cur[t] /\ e = home[f]
  OBVIOUS
<1>1. /\ pc[t] = "push" /\ Moves(t, "promote") /\ UNCHANGED <<stats, pending, phase>>
  BY SharedPaths DEF PromotePush, TypeInv
<1>2. \A x \in Executors : Busy(x)' = Busy(x) /\ Destroying(x)' = Destroying(x)
  <2>1. \A x \in Executors : Busy(x)' = Busy(x) BY <1>1, BusyMoves DEF CurrentPcs
  <2>2. \A x \in Executors : Destroying(x)' = Destroying(x)
    BY <1>1, DestroyingMoves DEF Destroying, DestroyingPcs
  <2> QED BY <2>1, <2>2
<1>3. CASE Stopping(e)
  <2>1. UNCHANGED <<heap, parked>> BY <1>3 DEF PromotePush
  <2> QED BY <1>1, <1>2, <2>1, AccountSame DEF LedgerInv
<1>4. CASE ~Stopping(e)
  <2>1. /\ parked' = [parked EXCEPT ![e] = Unregistered(e, f)]
        /\ heap' = [heap EXCEPT ![e] = @ \cup {f}]
    BY <1>4 DEF PromotePush
  <2>2. f \in Futures /\ Used(f) /\ e \in Executors
    BY <1>1, UsedNow DEF CarryPcs, HandPcs, CurrentPcs, TypeInv, UsedInv
  <2>3. Registered(e, f)
    <3>1. <<"cur", t>> \in Links /\ Target[<<"cur", t>>] = f
      BY <1>1 DEF Links, Target
    <3>2. f # None BY <2>2, Distinct
    <3> QED BY <1>4, <3>1, <3>2 DEF LinkInv
  <2>4. f \notin heap[e] BY <2>2, <2>3 DEF PlaceInv, HeapPlace
  <2>5. heap \in [Executors -> SUBSET Futures] /\ parked \in [Executors -> Seq(Futures)]
    BY DEF TypeInv, TypeOK
  <2>6. ASSUME NEW x \in Executors, x # e PROVE Account(x)'
    <3>1. heap'[x] = heap[x] /\ parked'[x] = parked[x] BY <2>1, <2>5, <2>6
    <3> QED BY <1>1, <1>2, <3>1, AccountSame DEF LedgerInv
  <2>7. Account(e)'
    <3>1. Account(e) BY <2>2 DEF LedgerInv
    <3>2. heap'[e] = heap[e] \cup {f} /\ parked'[e] = Unregistered(e, f) BY <2>1, <2>2, <2>5
    <3>0. IsFiniteSet(heap[e]) BY <3>1 DEF Account
    <3>6. /\ IsFiniteSet(heap[e] \cup {f})
          /\ Cardinality(heap[e] \cup {f}) = Cardinality(heap[e]) + 1
      BY <2>4, <3>0, FS_AddElement
    <3>3. IsFiniteSet(heap'[e]) /\ Cardinality(heap'[e]) = Cardinality(heap[e]) + 1
      BY <3>2, <3>6
    <3>4. Len(parked'[e]) = Len(parked[e]) - 1
      BY <2>2, <2>3, <2>5, <3>2, UnregisteredHas
    <3>7. Cardinality(heap[e]) \in Nat /\ Len(parked[e]) \in Nat BY <2>2, <3>1, Numbers
    <3>5. Waiting(e)' = Waiting(e) BY <3>3, <3>4, <3>7 DEF Waiting
    <3> QED BY <1>1, <1>2, <2>2, <3>1, <3>3, <3>5 DEF Account
  <2> QED BY <2>6, <2>7 DEF LedgerInv
<1> QED BY <1>3, <1>4

(* The shutdown takes a future, or has counted it. *)
LEMMA AccountTaken ==
    ASSUME TypeInv, LedgerInv, NEW e \in Executors, DrainNext(e) \/ WalkNext(e)
    PROVE  LedgerInv'
<1>1. /\ pc[e] = "next" /\ Moves(e, "callback") /\ e \in Threads /\ e \notin Workers
      /\ phase[e] # "open" /\ UNCHANGED <<phase, stats, pending>>
  BY DestroyerPaths, Distinct DEF TypeInv, DrainNext, WalkNext
<1>2. \A x \in Executors : Busy(x)' = Busy(x) BY <1>1, BusyMoves
<1>3. heap \in [Executors -> SUBSET Futures] /\ parked \in [Executors -> Seq(Futures)]
  BY DEF TypeInv, TypeOK
<1>4. Account(e) BY DEF LedgerInv
<1>5. /\ stats[e].submitted \in Nat /\ stats[e].completed \in Nat /\ stats[e].running \in Int
      /\ Cardinality(Busy(e)) \in Nat /\ Cardinality(heap[e]) \in Nat /\ Len(parked[e]) \in Nat
      /\ pending[e] \in Nat
  BY <1>4, Numbers
<1>6. /\ IsFiniteSet(heap'[e]) /\ Waiting(e)' = Waiting(e) + (-1)
      /\ \A x \in Executors : x # e => heap'[x] = heap[x] /\ parked'[x] = parked[x]
  <2>1. CASE DrainNext(e)
    <3>1. parked' = parked /\ \E f \in heap[e] : heap' = [heap EXCEPT ![e] = @ \ {f}]
      BY <2>1 DEF DrainNext
    <3>2. PICK f \in heap[e] : heap' = [heap EXCEPT ![e] = @ \ {f}] BY <3>1
    <3>3. IsFiniteSet(heap[e]) BY <1>4 DEF Account
    <3>4. /\ IsFiniteSet(heap[e] \ {f})
          /\ Cardinality(heap[e] \ {f}) = Cardinality(heap[e]) - 1
      BY <3>2, <3>3, FS_RemoveElement
    <3>5. heap'[e] = heap[e] \ {f} BY <1>3, <3>2
    <3>6. Cardinality(heap'[e]) = Cardinality(heap[e]) + (-1) BY <1>5, <3>4, <3>5
    <3>8. Len(parked'[e]) = Len(parked[e]) BY <3>1
    <3>7. Waiting(e)' = Waiting(e) + (-1) BY <1>5, <3>6, <3>8 DEF Waiting
    <3> QED BY <1>3, <3>1, <3>2, <3>4, <3>5, <3>7
  <2>2. CASE WalkNext(e)
    <3>1. heap' = heap /\ parked[e] # << >> /\ parked' = [parked EXCEPT ![e] = Tail(@)]
      BY <2>2 DEF WalkNext
    <3>2. parked'[e] = Tail(parked[e]) BY <1>3, <3>1
    <3>3. Len(parked'[e]) = Len(parked[e]) - 1 BY <1>3, <3>1, <3>2, TailHas
    <3>4. Len(parked'[e]) = Len(parked[e]) + (-1) BY <1>5, <3>3
    <3>5. Waiting(e)' = Waiting(e) + (-1) BY <1>5, <3>1, <3>4 DEF Waiting
    <3> QED BY <1>3, <1>4, <3>1, <3>5 DEF Account
  <2> QED BY <2>1, <2>2
<1>7. ASSUME NEW x \in Executors, x # e PROVE Account(x)'
  <2>1. Destroying(x)' = Destroying(x) BY <1>1, <1>7, DestroyingMoves
  <2> QED BY <1>1, <1>2, <1>6, <1>7, <2>1, AccountSame DEF LedgerInv
<1>8. Account(e)'
  <2>1. Destroying(e) = 0 /\ Destroying(e)' = 1
    BY <1>1, DestroyingMoves DEF Destroying, DestroyingPcs
  <2>2. Shift(e, 0, 0, 0, -1, 1, 0)
    BY <1>1, <1>2, <1>5, <1>6, <2>1 DEF Shift
  <2> QED BY <1>1, <1>4, <1>6, <2>2, AccountNow
<1> QED BY <1>7, <1>8 DEF LedgerInv

LEMMA AccountCollected ==
    ASSUME TypeInv, LedgerInv, NEW e \in Executors, Collect(e)
    PROVE  LedgerInv'
<1>1. /\ pc[e] = "collect" /\ Moves(e, IF detached[e] = None THEN "next" ELSE "advance")
      /\ e \in Threads /\ e \notin Workers
      /\ UNCHANGED <<phase, pending, heap, parked>>
      /\ stats' = [stats EXCEPT ![e] = Counted(@, "CANCELLED")]
  BY DestroyerPaths, Distinct DEF TypeInv, Collect
<1>2. \A x \in Executors : Busy(x)' = Busy(x) BY <1>1, BusyMoves
<1>3. stats \in [Executors -> Counters] BY DEF TypeInv, TypeOK, Counters
<1>4. ASSUME NEW x \in Executors, x # e PROVE Account(x)'
  <2>1. Destroying(x)' = Destroying(x) BY <1>1, <1>4, DestroyingMoves
  <2>2. stats'[x] = stats[x] BY <1>1, <1>3, <1>4
  <2> QED BY <1>1, <1>2, <2>1, <2>2, AccountSame DEF LedgerInv
<1>5. Account(e)'
  <2>1. Account(e) BY DEF LedgerInv
  <2>2. /\ stats[e].submitted \in Nat /\ stats[e].running \in Int /\ stats[e] \in Counters
        /\ Cardinality(Busy(e)) \in Nat /\ Waiting(e) \in Nat /\ pending[e] \in Nat
    BY <2>1, Numbers
  <2>3. pc'[e] \in {"next", "advance"} BY <1>1, DestroyingMoves
  <2>4. Destroying(e) = 1 /\ Destroying(e)' = 0 BY <1>1, <2>3 DEF Destroying, DestroyingPcs
  <2>5. stats'[e] = Counted(stats[e], "CANCELLED") BY <1>1, <1>3
  <2>6. /\ stats'[e].submitted = stats[e].submitted
        /\ stats'[e].running = stats[e].running
        /\ stats'[e].completed = stats[e].completed + 1
    BY <2>2, <2>5, CountedType
  <2>7. Waiting(e)' = Waiting(e) BY <1>1 DEF Waiting
  <2>8. Shift(e, 0, 1, 0, 0, -1, 0) BY <1>1, <1>2, <2>2, <2>4, <2>6, <2>7 DEF Shift
  <2>9. phase[e] # "open" BY <1>1 DEF TypeInv, ControlInv, DestroyerPlace
  <2> QED BY <1>1, <2>1, <2>8, <2>9, AccountNow DEF Account
<1> QED BY <1>4, <1>5 DEF LedgerInv

(* The other steps leave the queues and the counters alone. *)
LEMMA AccountQuiet ==
    ASSUME TypeInv, LedgerInv, UNCHANGED <<heap, parked, pending, stats>>,
           \A e \in Executors : /\ Busy(e)' = Busy(e) /\ Destroying(e)' = Destroying(e)
                                /\ phase'[e] = "open" => phase[e] = "open"
    PROVE  LedgerInv'
BY AccountSame DEF LedgerInv

LEMMA LedgerStep == TypeInv /\ LinkInv /\ PlaceInv /\ LedgerInv /\ [Next]_vars => LedgerInv'
<1> SUFFICES ASSUME TypeInv, LinkInv, PlaceInv, LedgerInv, [Next]_vars PROVE LedgerInv'
  OBVIOUS
<1>0. /\ \A e \in Executors : phase'[e] = "open" => phase[e] = "open"
      /\ \A e \in Executors : e \in Threads /\ e \notin Workers
      /\ \A w \in Workers : w \in Threads /\ w \notin Executors
      /\ TypeOK
  BY PhaseMoves, Distinct DEF TypeInv
<1>1. CASE ProgramOwn
  <2>1. ASSUME NEW f \in Futures, NEW e \in Executors, NEW d \in FutureOrNone, Accept(f, e, d)
        PROVE  LedgerInv'
    BY <2>1, AccountAccepted DEF PlaceInv
  <2>2. CASE \/ \E f \in Futures, e \in Executors, d \in FutureOrNone : Reject(f, e, d)
             \/ \E f \in Futures : Cancel(f) \/ TakeValue(f) \/ BeginFree(f) \/ EndFree(f)
    <3>1. UNCHANGED <<heap, parked, pending, stats>>
      BY <2>2 DEF Reject, Cancel, TakeValue, BeginFree, EndFree, executorVars
    <3>2. Rests BY <1>1, ProgramRests
    <3> QED BY <1>0, <3>1, <3>2, RestsCounts, AccountQuiet
  <2> QED BY <1>1, <2>1, <2>2 DEF ProgramOwn
<1>2. ASSUME NEW w \in Workers, WorkerOwn(w) PROVE LedgerInv'
  <2>1. CASE Wait(w) \/ Check(w) \/ ReadAntecedent(w) \/ Run(w) \/ PromoteEnd(w)
    <3>1. UNCHANGED <<heap, parked, pending, stats>>
      BY <2>1 DEF Wait, Check, ReadAntecedent, Run, PromoteEnd, executorVars
    <3>2. \E l : Moves(w, l) /\ (pc[w] \in CurrentPcs <=> l \in CurrentPcs) /\ pc[w] # "asleep"
      <4>1. CASE Wait(w) BY <1>0, <4>1, WorkerPaths DEF CurrentPcs
      <4>2. CASE Check(w) BY <1>0, <4>2, WorkerPaths DEF CurrentPcs
      <4>3. CASE ReadAntecedent(w) BY <1>0, <4>3, WorkerPaths DEF CurrentPcs
      <4>4. CASE Run(w) BY <1>0, <4>4, WorkerPaths DEF CurrentPcs
      <4>5. CASE PromoteEnd(w) BY <1>0, <4>5, WorkerPaths DEF CurrentPcs
      <4> QED BY <2>1, <4>1, <4>2, <4>3, <4>4, <4>5
    <3>3. \A e \in Executors : Busy(e)' = Busy(e) BY <1>0, <3>2, BusyMoves
    <3>4. \A e \in Executors : Destroying(e)' = Destroying(e)
      BY <1>0, <3>2, DestroyingMoves
    <3> QED BY <1>0, <3>1, <3>3, <3>4, AccountQuiet
  <2> QED BY <1>2, <2>1, AccountPopped, AccountPublished DEF WorkerOwn
<1>3. ASSUME NEW t \in Threads, Shared(t) PROVE LedgerInv'
  <2>1. CASE DestructorCancels(t) \/ DestructorFrees(t)
    <3>1. UNCHANGED <<heap, parked, pending, stats, pc>>
      BY <2>1 DEF DestructorCancels, DestructorFrees, executorVars, threadVars
    <3> QED BY <1>0, <3>1, AccountQuiet DEF Busy, Destroying
  <2>2. CASE Release(t) \/ Complete(t) \/ Wake(t) \/ PromoteNext(t)
    <3>1. UNCHANGED <<heap, parked, pending, stats>>
      BY <2>2 DEF Release, Complete, Wake, PromoteNext, executorVars
    <3>2. \E l : /\ Moves(t, l) /\ pc[t] # "asleep"
                 /\ t \in Workers => (pc[t] \in CurrentPcs <=> l \in CurrentPcs)
                 /\ t \in Executors => (pc[t] \in DestroyingPcs <=> l \in DestroyingPcs)
      <4>1. CASE Release(t) BY <1>0, <4>1, SharedPaths DEF CurrentPcs, DestroyingPcs
      <4>2. CASE Complete(t) BY <1>0, <4>2, SharedPaths DEF CurrentPcs, DestroyingPcs
      <4>3. CASE Wake(t) BY <1>0, <4>3, SharedPaths DEF CurrentPcs, DestroyingPcs
      <4>4. CASE PromoteNext(t) BY <1>0, <4>4, SharedPaths DEF CurrentPcs, DestroyingPcs
      <4> QED BY <2>2, <4>1, <4>2, <4>3, <4>4
    <3>3. \A e \in Executors : Busy(e)' = Busy(e) BY <3>2, BusyMoves
    <3>4. \A e \in Executors : Destroying(e)' = Destroying(e)
      BY <3>2, DestroyingMoves DEF Destroying
    <3> QED BY <1>0, <3>1, <3>3, <3>4, AccountQuiet
  <2> QED BY <1>3, <2>1, <2>2, AccountPromoted DEF Shared
<1>4. ASSUME NEW e \in Executors, DestroyBegin(e) \/ DestroyerOwn(e) PROVE LedgerInv'
  <2>0. /\ pc[e] # "asleep" /\ (phase[e] = "open" <=> pc[e] = "idle")
        /\ (phase[e] = "join" => pc[e] = "next")
    BY DEF TypeInv, ControlInv, DestroyerPlace, DestroyPcs
  <2>1. CASE Join(e)
    <3>1. UNCHANGED <<heap, parked, pending, stats, pc>>
      BY <2>1 DEF Join, threadVars
    <3> QED BY <1>0, <3>1, AccountQuiet DEF Busy, Destroying
  <2>2. CASE \/ DestroyBegin(e) \/ DrainEnd(e) \/ WalkEnd(e) \/ Disposed(e)
             \/ CollectTail(e) \/ DestroyEnd(e)
    <3>1. UNCHANGED <<heap, parked, pending, stats>>
      BY <2>2 DEF DestroyBegin, DrainEnd, WalkEnd, Disposed, CollectTail, DestroyEnd, executorVars
    <3>2. \E l : Moves(e, l) /\ (pc[e] \in DestroyingPcs <=> l \in DestroyingPcs)
      <4>1. CASE DestroyBegin(e)
        <5>1. pc[e] = "idle" /\ Moves(e, "next")
          BY <1>0, <2>0, <4>1, DestroyerPaths DEF DestroyBegin
        <5> QED BY <5>1 DEF DestroyingPcs
      <4>2. CASE DrainEnd(e) BY <1>0, <4>2, DestroyerPaths DEF DestroyingPcs
      <4>3. CASE WalkEnd(e) BY <1>0, <4>3, DestroyerPaths DEF DestroyingPcs
      <4>4. CASE Disposed(e) BY <1>0, <4>4, DestroyerPaths DEF DestroyingPcs
      <4>5. CASE CollectTail(e) BY <1>0, <4>5, DestroyerPaths DEF DestroyingPcs
      <4>6. CASE DestroyEnd(e) BY <1>0, <4>6, DestroyerPaths DEF DestroyingPcs
      <4> QED BY <2>2, <4>1, <4>2, <4>3, <4>4, <4>5, <4>6
    <3>3. \A x \in Executors : Busy(x)' = Busy(x) BY <1>0, <2>0, <3>2, BusyMoves
    <3>4. \A x \in Executors : Destroying(x)' = Destroying(x)
      BY <1>0, <3>2, DestroyingMoves DEF Destroying
    <3> QED BY <1>0, <3>1, <3>3, <3>4, AccountQuiet
  <2> QED BY <1>4, <2>1, <2>2, AccountTaken, AccountCollected DEF DestroyerOwn
<1>5. CASE UNCHANGED vars
  BY <1>0, <1>5, AccountQuiet DEF vars, executorVars, threadVars, Busy, Destroying
<1> QED BY <1>1, <1>2, <1>3, <1>4, <1>5, Steps

LEMMA LedgerInit == Init => LedgerInv
<1> SUFFICES ASSUME Init, NEW e \in Executors PROVE Account(e)
  BY DEF LedgerInv
<1>1. heap[e] = {} /\ parked[e] = << >> /\ pending[e] = 0 /\ phase[e] = "open" /\ pc[e] = "idle"
  BY DEF Init
<1>2. stats[e].submitted = 0 /\ stats[e].completed = 0 /\ stats[e].running = 0 BY DEF Init
<1>3. Busy(e) = {} BY DEF Init, Busy, CurrentPcs
<1>4. Destroying(e) = 0 BY <1>1 DEF Destroying, DestroyingPcs
<1>5. IsFiniteSet(heap[e]) /\ Cardinality(heap[e]) = 0 /\ Cardinality(Busy(e)) = 0
  BY <1>1, <1>3, FS_EmptySet
<1>6. Waiting(e) = 0 BY <1>1, <1>5 DEF Waiting
<1> QED BY <1>1, <1>2, <1>4, <1>5, <1>6, ConstantsAssumption DEF Account

(* The counters under the mutex are exact at every moment, and pending_count bounds the
   heap array into which a promotion pushes without a check; after the shutdown every
   submitted future has been counted as completed. *)
THEOREM CountersExactAlways == Spec => []CountersExact
<1> DEFINE IInv == TypeInv /\ LinkInv /\ PlaceInv /\ PhaseInv /\ LedgerInv
<1>1. Init => IInv BY TypeInit, LinkInit, PlaceInit, PhaseInit, LedgerInit
<1>2. IInv /\ [Next]_vars => IInv' BY TypeStep, LinkStep, PlaceStep, PhaseStep, LedgerStep
<1>3. IInv => CountersExact
  <2> SUFFICES ASSUME TypeInv, PhaseInv, LedgerInv, NEW e \in Executors
               PROVE  /\ pending[e] <= Capacity
                      /\ Cardinality(heap[e]) + Len(parked[e]) <= pending[e]
                      /\ phase[e] = "open" => Cardinality(heap[e]) + Len(parked[e]) = pending[e]
                      /\ phase[e] = "open" => stats[e].submitted
                                               = stats[e].completed + pending[e] + stats[e].running
                      /\ phase[e] = "freed" => /\ stats[e].submitted = stats[e].completed
                                               /\ stats[e].running = 0
    BY DEF CountersExact, HeapFits, StatisticsBalance
  <2>1. Account(e) BY DEF LedgerInv
  <2>2. /\ stats[e].submitted \in Nat /\ stats[e].completed \in Nat /\ stats[e].running \in Int
        /\ Waiting(e) \in Nat /\ Waiting(e) = Cardinality(heap[e]) + Len(parked[e])
        /\ pending[e] \in Nat
    BY <2>1, Numbers
  <2>3. phase[e] = "open" => Destroying(e) = 0
    BY DEF TypeInv, ControlInv, DestroyerPlace, Destroying, DestroyingPcs
  <2>4. ASSUME phase[e] = "freed"
        PROVE  Destroying(e) = 0 /\ Waiting(e) = 0 /\ stats[e].running = 0
    <3>1. pc[e] = "done" BY <2>4 DEF TypeInv, ControlInv, DestroyerPlace
    <3>2. heap[e] = {} /\ parked[e] = << >> BY <2>4 DEF PhaseInv, PhaseAt
    <3>3. Busy(e) = {} BY <2>4 DEF PhaseInv, PhaseAt, Busy, CurrentPcs
    <3>4. stats[e].running = 0 BY <2>1, <3>3, FS_EmptySet DEF Account
    <3>5. Cardinality(heap[e]) = 0 /\ Len(parked[e]) = 0 BY <3>2, FS_EmptySet
    <3> QED BY <3>1, <3>4, <3>5 DEF Destroying, DestroyingPcs, Waiting
  <2> QED BY <2>1, <2>2, <2>3, <2>4 DEF Account
<1> HIDE DEF IInv
<1> QED BY <1>1, <1>2, <1>3, PTL DEF Spec

-----------------------------------------------------------------------------
(* No wake-up is lost *)

Idlers(e) == {w \in Workers : Home[w] = e /\ pc[w] = "idle"}
Conserves(e) == Sleepers(e) # {} => Cardinality(heap[e]) <= Cardinality(Idlers(e))

LEMMA OneMore ==
    ASSUME NEW S, IsFiniteSet(S), NEW x
    PROVE  /\ IsFiniteSet(S \cup {x}) /\ Cardinality(S \cup {x}) <= Cardinality(S) + 1
           /\ Cardinality(S) \in Nat
<1>1. Cardinality(S) \in Nat BY FS_CardinalityType
<1>2. IsFiniteSet(S \cup {x}) BY FS_AddElement
<1>3. CASE x \in S
  <2>1. S \cup {x} = S BY <1>3
  <2>2. Cardinality(S \cup {x}) = Cardinality(S) BY <2>1
  <2>3. Cardinality(S \cup {x}) <= Cardinality(S) + 1 BY <1>1, <2>2
  <2> QED BY <1>1, <1>2, <2>3
<1>4. CASE x \notin S
  <2>1. IsFiniteSet(S \cup {x}) /\ Cardinality(S \cup {x}) = Cardinality(S) + 1
    BY <1>4, FS_AddElement
  <2> QED BY <1>1, <2>1
<1> QED BY <1>3, <1>4

LEMMA IdlersFinite ==
    ASSUME NEW e
    PROVE  /\ IsFiniteSet(Idlers(e)) /\ Cardinality(Idlers(e)) \in Nat
           /\ IsFiniteSet(Idlers(e)') /\ Cardinality(Idlers(e)') \in Nat
<1>1. Idlers(e) \subseteq Workers /\ Idlers(e)' \subseteq Workers BY DEF Idlers
<1>2. IsFiniteSet(Idlers(e)) /\ IsFiniteSet(Idlers(e)') BY <1>1, Distinct, FS_Subset
<1> QED BY <1>2, FS_CardinalityType

(* A step that puts nothing into the heap, nobody to sleep and nobody who is idle to work. *)
LEMMA ConservesKept ==
    ASSUME NEW e \in Executors, Conserves(e), IsFiniteSet(heap[e]), heap'[e] \subseteq heap[e],
           Sleepers(e)' \subseteq Sleepers(e), Idlers(e) \subseteq Idlers(e)'
    PROVE  Conserves(e)'
<1>1. IsFiniteSet(heap'[e]) /\ Cardinality(heap'[e]) <= Cardinality(heap[e]) BY FS_Subset
<1>2. Cardinality(Idlers(e)) <= Cardinality(Idlers(e)') BY IdlersFinite, FS_Subset
<1>3. /\ Cardinality(heap[e]) \in Nat /\ Cardinality(heap'[e]) \in Nat
      /\ Cardinality(Idlers(e)) \in Nat /\ Cardinality(Idlers(e)') \in Nat
  BY <1>1, IdlersFinite, FS_CardinalityType
<1> QED BY <1>1, <1>2, <1>3 DEF Conserves

(* What a thread that moves does to those who sleep and those who are idle. *)
LEMMA IdleMoves ==
    ASSUME NEW t \in Threads, NEW l, Moves(t, l), NEW e \in Executors
    PROVE  /\ (l # "asleep" \/ t \in Executors \/ Home[t] # e) => Sleepers(e)' \subseteq Sleepers(e)
           /\ (pc[t] # "idle" \/ t \in Executors \/ Home[t] # e) => Idlers(e) \subseteq Idlers(e)'
           /\ Idlers(e) \ {t} \subseteq Idlers(e)'
BY Distinct DEF Moves, Sleepers, Idlers

LEMMA IdleRests ==
    ASSUME Rests, NEW e \in Executors
    PROVE  Sleepers(e)' \subseteq Sleepers(e) /\ Idlers(e) \subseteq Idlers(e)'
BY DEF Rests, Sleepers, Idlers

(* fviz_executor_wake_one, with one more future in the heap of e. *)
LEMMA ConservesWoken ==
    ASSUME TypeInv, NEW e \in Executors, Conserves(e), IsFiniteSet(heap[e]), NEW f,
           heap'[e] \subseteq heap[e] \cup {f},
           NEW now, WakeOne(e, now), now \in [Threads -> Pcs],
           \A w \in Workers : (pc[w] = "idle" <=> now[w] = "idle")
                              /\ (pc[w] = "asleep" <=> now[w] = "asleep")
    PROVE  Conserves(e)'
<1>1. CASE Sleepers(e) = {}
  <2>1. pc' = now BY <1>1 DEF WakeOne
  <2>2. Sleepers(e)' = {} BY <1>1, <2>1 DEF Sleepers
  <2> QED BY <2>2 DEF Conserves
<1>2. CASE Sleepers(e) # {}
  <2>1. PICK w \in Sleepers(e) : pc' = [now EXCEPT ![w] = "idle"] BY <1>2 DEF WakeOne
  <2>2. w \in Workers /\ Home[w] = e /\ pc[w] = "asleep" BY DEF Sleepers
  <2>3. Idlers(e)' = Idlers(e) \cup {w} /\ w \notin Idlers(e)
    BY <2>1, <2>2 DEF Idlers
  <2>4. Cardinality(Idlers(e)') = Cardinality(Idlers(e)) + 1
    BY <2>3, IdlersFinite, FS_AddElement
  <2>5. /\ IsFiniteSet(heap[e] \cup {f})
        /\ Cardinality(heap[e] \cup {f}) <= Cardinality(heap[e]) + 1
        /\ Cardinality(heap[e]) \in Nat
    BY OneMore
  <2>6. IsFiniteSet(heap'[e]) /\ Cardinality(heap'[e]) <= Cardinality(heap[e] \cup {f})
    BY <2>5, FS_Subset
  <2>7. /\ Cardinality(heap'[e]) \in Nat /\ Cardinality(heap[e] \cup {f}) \in Nat
        /\ Cardinality(Idlers(e)) \in Nat
    BY <2>5, <2>6, FS_CardinalityType, IdlersFinite
  <2>8. Cardinality(heap[e]) <= Cardinality(Idlers(e)) BY <1>2 DEF Conserves
  <2> QED BY <2>4, <2>5, <2>6, <2>7, <2>8 DEF Conserves
<1> QED BY <1>1, <1>2

LEMMA ConserveStep ==
    TypeInv /\ LinkInv /\ PlaceInv /\ LedgerInv /\ WorkConserving /\ [Next]_vars => WorkConserving'
<1> SUFFICES ASSUME TypeInv, LinkInv, PlaceInv, LedgerInv, WorkConserving, [Next]_vars,
                    NEW e \in Executors
             PROVE  Conserves(e)'
  BY DEF WorkConserving, Conserves, Idlers
<1>0. /\ Conserves(e) /\ IsFiniteSet(heap[e]) /\ TypeOK
      /\ heap \in [Executors -> SUBSET Futures] /\ pc \in [Threads -> Pcs]
      /\ \A w \in Workers : w \in Threads /\ w \notin Executors /\ Home[w] \in Executors
      /\ \A x \in Executors : x \in Threads /\ x \notin Workers /\ pc[x] # "asleep"
  BY Distinct DEF WorkConserving, Conserves, Idlers, LedgerInv, Account, TypeInv, TypeOK,
                  ControlInv, DestroyerPlace, DestroyPcs
<1>1. CASE ProgramOwn
  <2>1. Rests BY <1>1, ProgramRests
  <2>2. ASSUME NEW f \in Futures, NEW x \in Executors, NEW d \in FutureOrNone, Accept(f, x, d)
        PROVE  Conserves(e)'
    <3>1. WakeOne(x, pc) /\ (heap' = heap \/ heap' = [heap EXCEPT ![x] = @ \cup {f}])
      BY <2>2 DEF Accept
    <3>2. CASE x = e
      <4>1. heap'[e] \subseteq heap[e] \cup {f} BY <1>0, <3>1, <3>2
      <4> QED BY <1>0, <3>1, <3>2, <4>1, ConservesWoken
    <3>3. CASE x # e
      <4>1. heap'[e] = heap[e] BY <1>0, <3>1, <3>3
      <4> QED BY <1>0, <2>1, <4>1, IdleRests, ConservesKept
    <3> QED BY <3>2, <3>3
  <2>3. CASE heap' = heap BY <1>0, <2>1, <2>3, IdleRests, ConservesKept
  <2>4. (\E f \in Futures, x \in Executors, d \in FutureOrNone : Accept(f, x, d)) \/ heap' = heap
    BY <1>1 DEF ProgramOwn, Reject, Cancel, TakeValue, BeginFree, EndFree, executorVars
  <2> QED BY <2>2, <2>3, <2>4
<1>2. ASSUME NEW w \in Workers, WorkerOwn(w) PROVE Conserves(e)'
  <2>1. CASE Pop(w)
    <3>1. pc[w] = "idle" /\ Moves(w, "check") BY <1>0, <2>1, WorkerPaths
    <3>2. PICK f \in heap[Home[w]] : heap' = [heap EXCEPT ![Home[w]] = @ \ {f}] BY <2>1 DEF Pop
    <3>3. CASE Home[w] # e
      <4>1. heap'[e] = heap[e] BY <1>0, <3>2, <3>3
      <4> QED BY <1>0, <3>1, <3>3, <4>1, IdleMoves, ConservesKept
    <3>4. CASE Home[w] = e
      <4>1. heap'[e] = heap[e] \ {f} /\ f \in heap[e] BY <1>0, <3>2, <3>4
      <4>2. Sleepers(e)' \subseteq Sleepers(e) /\ Idlers(e) \ {w} \subseteq Idlers(e)'
        BY <1>0, <3>1, IdleMoves
      <4>3. w \in Idlers(e) BY <1>0, <3>1, <3>4 DEF Idlers
      <4>4. /\ Cardinality(heap'[e]) = Cardinality(heap[e]) - 1
            /\ Cardinality(heap[e]) \in Nat
        BY <1>0, <4>1, FS_RemoveElement, FS_CardinalityType
      <4>5. /\ Cardinality(Idlers(e) \ {w}) = Cardinality(Idlers(e)) - 1
            /\ Cardinality(Idlers(e)) \in Nat
        BY <4>3, IdlersFinite, FS_RemoveElement
      <4>6. Cardinality(Idlers(e) \ {w}) <= Cardinality(Idlers(e)')
        BY <4>2, IdlersFinite, FS_Subset
      <4>7. Cardinality(Idlers(e)') \in Nat BY IdlersFinite
      <4>8. Sleepers(e)' # {} => Cardinality(heap[e]) <= Cardinality(Idlers(e))
        BY <1>0, <4>2 DEF Conserves
      <4> QED BY <4>4, <4>5, <4>6, <4>7, <4>8 DEF Conserves
    <3> QED BY <3>3, <3>4
  <2>2. CASE Wait(w)
    <3>1. /\ pc[w] = "idle" /\ heap[Home[w]] = {} /\ heap' = heap
          /\ \E l : Moves(w, l)
      BY <1>0, <2>2, WorkerPaths DEF Wait, executorVars
    <3>2. CASE Home[w] # e BY <1>0, <3>1, <3>2, IdleMoves, ConservesKept
    <3>3. CASE Home[w] = e
      <4>1. Cardinality(heap'[e]) = 0 BY <3>1, <3>3, FS_EmptySet
      <4>2. Cardinality(Idlers(e)') \in Nat BY IdlersFinite
      <4> QED BY <4>1, <4>2 DEF Conserves
    <3> QED BY <3>2, <3>3
  <2>3. CASE ~Pop(w) /\ ~Wait(w)
    <3>1. heap' = heap
      BY <1>2, <2>3 DEF WorkerOwn, Check, ReadAntecedent, Run, Publish, PromoteEnd, executorVars
    <3>2. \E l : Moves(w, l) /\ pc[w] # "idle" /\ l # "asleep"
      <4>1. CASE Check(w) BY <1>0, <4>1, WorkerPaths
      <4>2. CASE ReadAntecedent(w) BY <1>0, <4>2, WorkerPaths
      <4>3. CASE Run(w) BY <1>0, <4>3, WorkerPaths
      <4>4. CASE Publish(w) BY <1>0, <4>4, WorkerPaths
      <4>5. CASE PromoteEnd(w) BY <1>0, <4>5, WorkerPaths
      <4> QED BY <1>2, <2>3, <4>1, <4>2, <4>3, <4>4, <4>5 DEF WorkerOwn
    <3> QED BY <1>0, <3>1, <3>2, IdleMoves, ConservesKept
  <2> QED BY <2>1, <2>2, <2>3
<1>3. ASSUME NEW t \in Threads, Shared(t) PROVE Conserves(e)'
  <2>1. CASE DestructorCancels(t) \/ DestructorFrees(t)
    <3>1. heap' = heap /\ pc' = pc
      BY <2>1 DEF DestructorCancels, DestructorFrees, executorVars, threadVars
    <3> QED BY <3>1, <1>0 DEF Conserves, Sleepers, Idlers
  <2>2. CASE PromotePush(t)
    <3> PICK f, x : f = cur[t] /\ x = home[f]
      OBVIOUS
    <3>1. pc[t] = "push" /\ Moves(t, "promote") BY <1>0, <2>2, SharedPaths
    <3>2. \/ heap' = heap
          \/ /\ heap' = [heap EXCEPT ![x] = @ \cup {f}]
             /\ WakeOne(x, [pc EXCEPT ![t] = "promote"])
      BY <2>2 DEF PromotePush
    <3>3. CASE heap'[e] = heap[e] BY <1>0, <3>1, <3>3, IdleMoves, ConservesKept
    <3>4. CASE /\ heap' = [heap EXCEPT ![x] = @ \cup {f}] /\ x = e
               /\ WakeOne(x, [pc EXCEPT ![t] = "promote"])
      <4> DEFINE now == [pc EXCEPT ![t] = "promote"]
      <4>1. heap'[e] \subseteq heap[e] \cup {f} BY <1>0, <3>4
      <4>2. now \in [Threads -> Pcs] BY <1>0 DEF Pcs
      <4>3. \A w \in Workers : (pc[w] = "idle" <=> now[w] = "idle")
                              /\ (pc[w] = "asleep" <=> now[w] = "asleep")
        BY <1>0, <3>1
      <4> QED BY <1>0, <3>4, <4>1, <4>2, <4>3, ConservesWoken, ZenonT(40)
    <3> QED BY <1>0, <3>2, <3>3, <3>4
  <2>3. CASE Release(t) \/ Complete(t) \/ Wake(t) \/ PromoteNext(t)
    <3>1. heap' = heap BY <2>3 DEF Release, Complete, Wake, PromoteNext, executorVars
    <3>2. \E l : Moves(t, l) /\ pc[t] # "idle" /\ l # "asleep"
      <4>1. CASE Release(t) BY <1>0, <4>1, SharedPaths
      <4>2. CASE Complete(t) BY <1>0, <4>2, SharedPaths
      <4>3. CASE Wake(t) BY <1>0, <4>3, SharedPaths
      <4>4. CASE PromoteNext(t) BY <1>0, <4>4, SharedPaths
      <4> QED BY <2>3, <4>1, <4>2, <4>3, <4>4
    <3> QED BY <1>0, <3>1, <3>2, IdleMoves, ConservesKept
  <2> QED BY <1>3, <2>1, <2>2, <2>3 DEF Shared
<1>4. ASSUME NEW x \in Executors, DestroyBegin(x) \/ DestroyerOwn(x) PROVE Conserves(e)'
  <2>1. CASE Join(x)
    <3>1. heap' = heap /\ pc' = pc BY <2>1 DEF Join, threadVars
    <3> QED BY <3>1, <1>0 DEF Conserves, Sleepers, Idlers
  <2>2. CASE ~Join(x)
    <3>1. heap'[e] \subseteq heap[e]
      <4>1. CASE DrainNext(x)
        <5>1. \E f \in heap[x] : heap' = [heap EXCEPT ![x] = @ \ {f}] BY <4>1 DEF DrainNext
        <5> QED BY <1>0, <5>1
      <4>2. CASE ~DrainNext(x)
        BY <1>4, <2>2, <4>2 DEF DestroyBegin, DestroyerOwn, DrainEnd, WalkNext, WalkEnd, Disposed,
                           Collect, CollectTail, DestroyEnd, executorVars
      <4> QED BY <4>1, <4>2
    <3>2. \E l : Moves(x, l)
      BY <1>0, <1>4, <2>2, DestroyerPaths DEF DestroyerOwn
    <3> QED BY <1>0, <3>1, <3>2, IdleMoves, ConservesKept
  <2> QED BY <2>1, <2>2
<1>5. CASE UNCHANGED vars
  BY <1>0, <1>5 DEF vars, executorVars, threadVars, Conserves, Sleepers, Idlers
<1> QED BY <1>1, <1>2, <1>3, <1>4, <1>5, Steps

LEMMA ConserveInit == Init => WorkConserving
BY Distinct DEF Init, WorkConserving, Sleepers

(* No worker sleeps on work_condition while more futures are in the heap than workers are
   about to look into it. *)
THEOREM WorkConservingAlways == Spec => []WorkConserving
<1> DEFINE IInv == TypeInv /\ LinkInv /\ PlaceInv /\ LedgerInv /\ WorkConserving
<1>1. Init => IInv BY TypeInit, LinkInit, PlaceInit, LedgerInit, ConserveInit
<1>2. IInv /\ [Next]_vars => IInv'
  BY TypeStep, LinkStep, PlaceStep, LedgerStep, ConserveStep
<1>3. IInv => WorkConserving OBVIOUS
<1> HIDE DEF IInv
<1> QED BY <1>1, <1>2, <1>3, PTL DEF Spec

-----------------------------------------------------------------------------
(* Where the links come from *)

Accepts(f, d) == MustPark(d) /\ \E e \in Executors : Accept(f, e, d)
Walks(f) == \E e \in Executors : WalkNext(e) /\ f = Head(parked[e])
HeadFlow(f) ==
    \/ waitingHead'[f] = None
    \/ waitingHead'[f] = waitingHead[f]
    \/ \E g \in Futures : Accepts(g, f) /\ waitingHead'[f] = g
    \/ \E g \in Futures : /\ Walks(g) /\ waitingHead[f] = g /\ dep[g] = f
                          /\ waitingHead'[f] = waiterNext[g]
NextFlow(f) ==
    \/ waiterNext'[f] = None
    \/ waiterNext'[f] = waiterNext[f]
    \/ \E d \in Futures : Accepts(f, d) /\ waiterNext'[f] = waitingHead[d]
    \/ \E g \in Futures : Walks(g) /\ waiterNext[f] = g /\ waiterNext'[f] = waiterNext[g]
    \/ \E e \in Executors : Collect(e) /\ tail[e] = f /\ waiterNext'[f] = detached[e]
DetachedFlow(t) ==
    \/ detached'[t] = None
    \/ /\ detached'[t] = detached[t]
       /\ pc[t] \in {"wake", "collect"} => pc'[t] \in {"wake", "collect"}
    \/ Complete(t) /\ detached'[t] = waitingHead[cur[t]] /\ pc'[t] = "wake"
ChainFlow(t) ==
    \/ chain'[t] = None
    \/ chain'[t] = chain[t] /\ (pc[t] \in {"promote", "push"} /\ t \in Workers =>
                                   pc'[t] \in {"promote", "push"})
    \/ Wake(t) /\ t \in Workers /\ chain'[t] = detached[t] /\ pc'[t] = "promote"
    \/ PromoteNext(t) /\ chain'[t] = waiterNext[chain[t]] /\ pc'[t] = "push"
    \/ t \in Executors /\ Collect(t) /\ chain'[t] = detached[t]
PushFlow(t) ==
    pc'[t] = "push" => \/ pc[t] = "push" /\ cur'[t] = cur[t]
                       \/ PromoteNext(t) /\ cur'[t] = chain[t]
TailFlow(e) ==
    \/ tail'[e] = None
    \/ tail'[e] = tail[e]
    \/ Collect(e) /\ tail'[e] = detached[e]
    \/ CollectTail(e) /\ tail'[e] = waiterNext[tail[e]]
Flow ==
    /\ \A f \in Futures : HeadFlow(f) /\ NextFlow(f)
    /\ \A t \in Threads : DetachedFlow(t) /\ ChainFlow(t) /\ PushFlow(t)
    /\ \A e \in Executors : TailFlow(e)

LEMMA LinkTypes ==
    ASSUME TypeInv
    PROVE  /\ waitingHead \in [Futures -> FutureOrNone] /\ waiterNext \in [Futures -> FutureOrNone]
           /\ detached \in [Threads -> FutureOrNone] /\ chain \in [Threads -> FutureOrNone]
           /\ tail \in [Executors -> FutureOrNone] /\ parked \in [Executors -> Seq(Futures)]
           /\ cur \in [Threads -> FutureOrNone] /\ dep \in [Futures -> FutureOrNone]
           /\ TypeOK
BY DEF TypeInv, TypeOK

LEMMA ProgramFlow ==
    ASSUME TypeInv, ProgramOwn
    PROVE  Flow
<1>0. Rests /\ UNCHANGED <<cur, detached, chain, tail>> BY ProgramRests
<1>1. \A t \in Threads : DetachedFlow(t) /\ ChainFlow(t) /\ PushFlow(t)
  BY <1>0 DEF Rests, DetachedFlow, ChainFlow, PushFlow
<1>2. ASSUME NEW x \in Futures PROVE HeadFlow(x) /\ NextFlow(x)
  <2>1. ASSUME NEW f \in Futures, NEW e \in Executors, NEW d \in FutureOrNone, Accept(f, e, d)
        PROVE  HeadFlow(x) /\ NextFlow(x)
    <3>1. CASE ~MustPark(d)
      <4>1. UNCHANGED <<waitingHead, waiterNext>> BY <2>1, <3>1 DEF Accept
      <4> QED BY <4>1 DEF HeadFlow, NextFlow
    <3>2. CASE MustPark(d)
      <4>1. /\ waiterNext' = [waiterNext EXCEPT ![f] = waitingHead[d]]
            /\ waitingHead' = [waitingHead EXCEPT ![d] = f] /\ d \in Futures
        BY <2>1, <3>2 DEF Accept, LinkWaiter, MustPark
      <4>2. Accepts(f, d) BY <2>1, <3>2 DEF Accepts
      <4>3. HeadFlow(x)
        <5>1. waitingHead'[x] = waitingHead[x] \/ (x = d /\ waitingHead'[x] = f)
          BY <4>1, LinkTypes
        <5> QED BY <4>2, <5>1 DEF HeadFlow
      <4>4. NextFlow(x)
        <5>1. waiterNext'[x] = waiterNext[x] \/ (x = f /\ waiterNext'[x] = waitingHead[d])
          BY <4>1, LinkTypes
        <5> QED BY <4>1, <4>2, <5>1 DEF NextFlow
      <4> QED BY <4>3, <4>4
    <3> QED BY <3>1, <3>2
  <2>2. CASE \/ \E f \in Futures, e \in Executors, d \in FutureOrNone : Reject(f, e, d)
             \/ \E f \in Futures : Cancel(f) \/ TakeValue(f) \/ BeginFree(f) \/ EndFree(f)
    <3>1. UNCHANGED <<waitingHead, waiterNext>>
      BY <2>2 DEF Reject, Cancel, TakeValue, BeginFree, EndFree, linkVars
    <3> QED BY <3>1 DEF HeadFlow, NextFlow
  <2> QED BY <2>1, <2>2 DEF ProgramOwn
<1>3. \A e \in Executors : TailFlow(e) BY <1>0 DEF TailFlow
<1> QED BY <1>1, <1>2, <1>3 DEF Flow

LEMMA OthersFlow ==
    ASSUME TypeInv, NEW t \in Threads, NEW u \in Threads, u # t,
           \/ t \in Workers /\ WorkerOwn(t)
           \/ Shared(t)
           \/ t \in Executors /\ (DestroyBegin(t) \/ DestroyerOwn(t)),
           detached'[u] = detached[u], chain'[u] = chain[u]
    PROVE  DetachedFlow(u) /\ ChainFlow(u) /\ PushFlow(u)
<1>1. cur'[u] = cur[u] /\ (pc'[u] = pc[u] \/ (pc[u] = "asleep" /\ pc'[u] = "idle")) BY OnlyMine
<1> QED BY <1>1 DEF DetachedFlow, ChainFlow, PushFlow

LEMMA WorkerFlow ==
    ASSUME TypeInv, NEW w \in Workers, WorkerOwn(w)
    PROVE  Flow
<1>1. UNCHANGED <<waitingHead, waiterNext, detached, chain, tail>>
  BY DEF WorkerOwn, Pop, Wait, Check, ReadAntecedent, Run, Publish, PromoteEnd, linkVars
<1>2. /\ pc'[w] # "push" /\ pc[w] \notin {"wake", "collect"}
      /\ pc[w] = "promote" => chain[w] = None
  <2>1. pc'[w] # "push" /\ pc[w] \notin {"wake", "collect", "push"}
    BY WorkerPaths DEF TypeInv, WorkerOwn, Moves
  <2>2. pc[w] = "promote" => PromoteEnd(w)
    BY WorkerPaths DEF TypeInv, WorkerOwn
  <2>3. PromoteEnd(w) => chain[w] = None BY DEF PromoteEnd
  <2> QED BY <2>1, <2>2, <2>3
<1>3. pc[w] # "push" BY WorkerPaths DEF TypeInv, WorkerOwn
<1>4. DetachedFlow(w) /\ ChainFlow(w) /\ PushFlow(w)
  BY <1>1, <1>2, <1>3 DEF DetachedFlow, ChainFlow, PushFlow
<1>5. \A u \in Threads : DetachedFlow(u) /\ ChainFlow(u) /\ PushFlow(u)
  BY <1>1, <1>4, OthersFlow
<1>6. \A f \in Futures : HeadFlow(f) /\ NextFlow(f) BY <1>1 DEF HeadFlow, NextFlow
<1>7. \A e \in Executors : TailFlow(e) BY <1>1 DEF TailFlow
<1> QED BY <1>5, <1>6, <1>7 DEF Flow

LEMMA SharedFlow ==
    ASSUME TypeInv, NEW t \in Threads, Shared(t)
    PROVE  Flow
<1>0. tail' = tail
  BY DEF Shared, Release, DestructorCancels, DestructorFrees, Complete, Wake, PromoteNext,
         PromotePush, threadVars
<1>1. \A u \in Threads \ {t} : detached'[u] = detached[u] /\ chain'[u] = chain[u]
  <2>1. /\ detached' = detached \/ \E x : detached' = [detached EXCEPT ![t] = x]
        /\ chain' = chain \/ \E x : chain' = [chain EXCEPT ![t] = x]
    BY DEF Shared, Release, DestructorCancels, DestructorFrees, Complete, Wake, PromoteNext,
           PromotePush, threadVars
  <2> QED BY <2>1, LinkTypes
<1>2. \A u \in Threads \ {t} : DetachedFlow(u) /\ ChainFlow(u) /\ PushFlow(u)
  BY <1>1, OthersFlow
<1>3. \A e \in Executors : TailFlow(e) BY <1>0 DEF TailFlow
<1>4. CASE Release(t) \/ DestructorCancels(t) \/ DestructorFrees(t)
  <2>1. UNCHANGED <<waitingHead, waiterNext, detached, chain>>
    BY <1>4 DEF Release, DestructorCancels, DestructorFrees, linkVars, threadVars
  <2>2. pc[t] \in {"release", "callback"} /\ pc'[t] # "push"
    BY <1>4, LinkTypes, SharedPaths DEF Moves
  <2>3. DetachedFlow(t) /\ ChainFlow(t) /\ PushFlow(t)
    BY <2>1, <2>2 DEF DetachedFlow, ChainFlow, PushFlow
  <2>4. \A f \in Futures : HeadFlow(f) /\ NextFlow(f) BY <2>1 DEF HeadFlow, NextFlow
  <2> QED BY <1>2, <1>3, <2>3, <2>4 DEF Flow
<1>5. CASE Complete(t)
  <2>1. /\ UNCHANGED <<waiterNext, chain>>
        /\ detached' = [detached EXCEPT ![t] = waitingHead[cur[t]]]
        /\ waitingHead' = [waitingHead EXCEPT ![cur[t]] = None]
    BY <1>5 DEF Complete
  <2>2. pc[t] = "complete" /\ pc'[t] = "wake" BY <1>5, LinkTypes, SharedPaths DEF Moves
  <2>3. detached'[t] = waitingHead[cur[t]] BY <2>1, LinkTypes
  <2>4. DetachedFlow(t) /\ ChainFlow(t) /\ PushFlow(t)
    BY <1>5, <2>1, <2>2, <2>3 DEF DetachedFlow, ChainFlow, PushFlow
  <2>5. \A f \in Futures : waitingHead'[f] = waitingHead[f] \/ waitingHead'[f] = None
    BY <2>1, LinkTypes
  <2>6. \A f \in Futures : HeadFlow(f) /\ NextFlow(f) BY <2>1, <2>5 DEF HeadFlow, NextFlow
  <2> QED BY <1>2, <1>3, <2>4, <2>6 DEF Flow
<1>6. CASE Wake(t)
  <2>1. UNCHANGED <<waitingHead, waiterNext>> BY <1>6 DEF Wake, linkVars
  <2>2. pc[t] = "wake" /\ pc'[t] = IF t \in Workers THEN "promote" ELSE "collect"
    BY <1>6, LinkTypes, SharedPaths DEF Moves
  <2>3. DetachedFlow(t) /\ ChainFlow(t) /\ PushFlow(t)
    <3>1. CASE t \in Workers
      <4>1. chain'[t] = detached[t] /\ detached'[t] = None
        BY <1>6, <3>1, LinkTypes DEF Wake
      <4> QED BY <1>6, <2>2, <3>1, <4>1 DEF DetachedFlow, ChainFlow, PushFlow
    <3>2. CASE t \notin Workers
      <4>1. UNCHANGED <<chain, detached>> BY <1>6, <3>2 DEF Wake
      <4> QED BY <2>2, <3>2, <4>1 DEF DetachedFlow, ChainFlow, PushFlow
    <3> QED BY <3>1, <3>2
  <2>4. \A f \in Futures : HeadFlow(f) /\ NextFlow(f) BY <2>1 DEF HeadFlow, NextFlow
  <2> QED BY <1>2, <1>3, <2>3, <2>4 DEF Flow
<1>7. CASE PromoteNext(t)
  <2>1. /\ UNCHANGED <<waitingHead, detached>>
        /\ cur' = [cur EXCEPT ![t] = chain[t]]
        /\ chain' = [chain EXCEPT ![t] = waiterNext[chain[t]]]
        /\ waiterNext' = [waiterNext EXCEPT ![chain[t]] = None]
    BY <1>7 DEF PromoteNext
  <2>2. pc[t] = "promote" /\ pc'[t] = "push" BY <1>7, LinkTypes, SharedPaths DEF Moves
  <2>3. chain'[t] = waiterNext[chain[t]] /\ cur'[t] = chain[t] BY <2>1, LinkTypes
  <2>4. DetachedFlow(t) /\ ChainFlow(t) /\ PushFlow(t)
    BY <1>7, <2>1, <2>2, <2>3 DEF DetachedFlow, ChainFlow, PushFlow
  <2>5. \A f \in Futures : waiterNext'[f] = waiterNext[f] \/ waiterNext'[f] = None
    BY <2>1, LinkTypes
  <2>6. \A f \in Futures : HeadFlow(f) /\ NextFlow(f) BY <2>1, <2>5 DEF HeadFlow, NextFlow
  <2> QED BY <1>2, <1>3, <2>4, <2>6 DEF Flow
<1>8. CASE PromotePush(t)
  <2>1. UNCHANGED <<waitingHead, waiterNext, detached, chain>> BY <1>8 DEF PromotePush, linkVars
  <2>2. pc[t] = "push" /\ pc'[t] = "promote" BY <1>8, LinkTypes, SharedPaths DEF Moves
  <2>3. DetachedFlow(t) /\ ChainFlow(t) /\ PushFlow(t)
    BY <2>1, <2>2 DEF DetachedFlow, ChainFlow, PushFlow
  <2>4. \A f \in Futures : HeadFlow(f) /\ NextFlow(f) BY <2>1 DEF HeadFlow, NextFlow
  <2> QED BY <1>2, <1>3, <2>3, <2>4 DEF Flow
<1> QED BY <1>4, <1>5, <1>6, <1>7, <1>8 DEF Shared

LEMMA DestroyerFlow ==
    ASSUME TypeInv, NEW e \in Executors, DestroyBegin(e) \/ DestroyerOwn(e)
    PROVE  Flow
<1>0. /\ e \in Threads /\ e \notin Workers /\ DestroyerPlace(e) /\ pc[e] # "asleep"
      /\ pc[e] # "wake"
  <2>1. e \in Threads /\ e \notin Workers /\ DestroyerPlace(e) /\ pc[e] # "asleep"
    BY Distinct DEF TypeInv, ControlInv, DestroyerPlace, DestroyPcs
  <2>2. CASE Join(e) BY <2>1, <2>2 DEF Join, DestroyerPlace
  <2>3. CASE DestroyBegin(e) BY <2>1, <2>3 DEF DestroyBegin, DestroyerPlace
  <2>4. CASE ~Join(e) /\ ~DestroyBegin(e)
    BY <2>1, <2>4, LinkTypes, DestroyerPaths DEF DestroyerOwn
  <2> QED BY <2>1, <2>2, <2>3, <2>4
<1>1. pc'[e] # "push"
  <2>2. CASE Join(e) BY <1>0, <2>2, LinkTypes, DestroyerPaths DEF Join, DestroyerPlace
  <2>3. CASE ~Join(e) BY <1>0, <2>3, LinkTypes, DestroyerPaths DEF DestroyerOwn, Moves
  <2> QED BY <2>2, <2>3
<1>2. PushFlow(e) BY <1>1 DEF PushFlow
<1>3. /\ \A u \in Threads \ {e} : detached'[u] = detached[u] /\ chain'[u] = chain[u]
      /\ \A x \in Executors \ {e} : tail'[x] = tail[x]
  <2>1. /\ detached' = detached \/ \E x : detached' = [detached EXCEPT ![e] = x]
        /\ chain' = chain \/ \E x : chain' = [chain EXCEPT ![e] = x]
        /\ tail' = tail \/ \E x : tail' = [tail EXCEPT ![e] = x]
    BY DEF DestroyBegin, DestroyerOwn, DrainNext, DrainEnd, Join, WalkNext, WalkEnd,
           Disposed, Collect, CollectTail, DestroyEnd, threadVars
  <2> QED BY <2>1, LinkTypes
<1>4. \A u \in Threads \ {e} : DetachedFlow(u) /\ ChainFlow(u) /\ PushFlow(u)
  BY <1>3, OthersFlow
<1>5. \A x \in Executors \ {e} : TailFlow(x) BY <1>3 DEF TailFlow
<1>6. CASE ~Collect(e)
  <2>1. UNCHANGED <<detached, chain>>
    BY <1>6 DEF DestroyBegin, DestroyerOwn, DrainNext, DrainEnd, Join, WalkNext, WalkEnd,
           Disposed, CollectTail, DestroyEnd, threadVars
  <2>2. pc[e] # "collect"
    <3>1. CASE Join(e) BY <1>0, <3>1 DEF Join, DestroyerPlace
    <3>2. CASE DestroyBegin(e) BY <1>0, <3>2 DEF DestroyBegin, DestroyerPlace
    <3>3. CASE ~Join(e) /\ ~DestroyBegin(e)
      BY <1>0, <1>6, <3>3, LinkTypes, DestroyerPaths DEF DestroyerOwn
    <3> QED BY <3>1, <3>2, <3>3
  <2>3. DetachedFlow(e) /\ ChainFlow(e) BY <1>0, <2>1, <2>2 DEF DetachedFlow, ChainFlow
  <2>4. TailFlow(e)
    <3>1. CASE CollectTail(e)
      <4>1. \/ tail' = tail \/ tail' = [tail EXCEPT ![e] = waiterNext[tail[e]]]
        BY <3>1 DEF CollectTail
      <4> QED BY <3>1, <4>1, LinkTypes DEF TailFlow
    <3>2. CASE DestroyEnd(e)
      <4>1. tail' = [tail EXCEPT ![e] = None] BY <3>2 DEF DestroyEnd
      <4> QED BY <4>1, LinkTypes DEF TailFlow
    <3>3. CASE ~CollectTail(e) /\ ~DestroyEnd(e)
      <4>1. tail' = tail
        BY <1>6, <3>3 DEF DestroyBegin, DestroyerOwn, DrainNext, DrainEnd, Join, WalkNext,
                          WalkEnd, Disposed, threadVars
      <4> QED BY <4>1 DEF TailFlow
    <3> QED BY <3>1, <3>2, <3>3
  <2>5. CASE ~WalkNext(e)
    <3>1. UNCHANGED <<waitingHead, waiterNext>>
      BY <1>6, <2>5 DEF DestroyBegin, DestroyerOwn, DrainNext, DrainEnd, Join,
                        WalkEnd, Disposed, CollectTail, DestroyEnd, linkVars
    <3>2. \A f \in Futures : HeadFlow(f) /\ NextFlow(f) BY <3>1 DEF HeadFlow, NextFlow
    <3> QED BY <1>2, <1>4, <1>5, <2>3, <2>4, <3>2 DEF Flow
  <2>6. CASE WalkNext(e)
    <3> PICK g : g = Head(parked[e])
      OBVIOUS
    <3>1. /\ waitingHead' = Unlinked(g)[1] /\ waiterNext' = [Unlinked(g)[2] EXCEPT ![g] = None]
          /\ parked[e] # << >>
      BY <2>6 DEF WalkNext
    <3>2. g \in Futures /\ Walks(g) BY <2>6, <3>1, LinkTypes, TailHas DEF Walks
    <3>3. \/ Unlinked(g) = <<waitingHead, waiterNext>>
          \/ /\ waitingHead[dep[g]] = g
             /\ Unlinked(g) = <<[waitingHead EXCEPT ![dep[g]] = waiterNext[g]], waiterNext>>
          \/ Unlinked(g) = <<waitingHead, [x \in Futures |-> IF waiterNext[x] = g THEN waiterNext[g]
                                           ELSE waiterNext[x]]>>
      BY DEF Unlinked
    <3>4. ASSUME NEW f \in Futures PROVE HeadFlow(f) /\ NextFlow(f)
      <4>1. \/ waitingHead'[f] = waitingHead[f]
            \/ dep[g] = f /\ waitingHead[f] = g /\ waitingHead'[f] = waiterNext[g]
        <5>1. \/ waitingHead' = waitingHead
              \/ /\ waitingHead[dep[g]] = g
                 /\ waitingHead' = [waitingHead EXCEPT ![dep[g]] = waiterNext[g]]
          BY <3>1, <3>3
        <5> QED BY <5>1, LinkTypes
      <4>2. \/ waiterNext'[f] = waiterNext[f] \/ waiterNext'[f] = None
            \/ waiterNext[f] = g /\ waiterNext'[f] = waiterNext[g]
        <5> PICK n : n = Unlinked(g)[2]
          OBVIOUS
        <5>1. n = waiterNext \/ n = [x \in Futures |-> IF waiterNext[x] = g THEN waiterNext[g]
                                                      ELSE waiterNext[x]]
          BY <3>3
        <5>2. n[f] = waiterNext[f] \/ (waiterNext[f] = g /\ n[f] = waiterNext[g]) BY <5>1
        <5>3. waiterNext'[f] = n[f] \/ waiterNext'[f] = None
          <6>1. waiterNext' = [n EXCEPT ![g] = None] BY <3>1
          <6>2. DOMAIN n = Futures BY <5>1, LinkTypes
          <6> QED BY <6>1, <6>2
        <5> QED BY <5>2, <5>3
      <4>3. HeadFlow(f) BY <3>2, <4>1 DEF HeadFlow
      <4>4. NextFlow(f) BY <3>2, <4>2 DEF NextFlow
      <4> QED BY <4>3, <4>4
    <3> QED BY <1>2, <1>4, <1>5, <2>3, <2>4, <3>4 DEF Flow
  <2> QED BY <2>5, <2>6
<1>7. CASE Collect(e)
  <2>1. /\ waitingHead' = waitingHead /\ detached' = [detached EXCEPT ![e] = None]
        /\ \/ UNCHANGED <<waiterNext, chain, tail>>
           \/ /\ waiterNext' = [waiterNext EXCEPT ![tail[e]] = detached[e]]
              /\ tail[e] # None /\ chain' = chain
              /\ tail' = [tail EXCEPT ![e] = detached[e]]
           \/ /\ waiterNext' = waiterNext
              /\ chain' = [chain EXCEPT ![e] = detached[e]]
              /\ tail' = [tail EXCEPT ![e] = detached[e]]
    BY <1>7 DEF Collect
  <2>2. DetachedFlow(e) BY <2>1, LinkTypes DEF DetachedFlow
  <2>3. ChainFlow(e)
    <3>1. chain'[e] = chain[e] \/ chain'[e] = detached[e] BY <2>1, LinkTypes
    <3> QED BY <1>0, <1>7, <3>1 DEF ChainFlow
  <2>4. TailFlow(e)
    <3>1. tail'[e] = tail[e] \/ tail'[e] = detached[e] BY <2>1, LinkTypes
    <3> QED BY <1>7, <3>1 DEF TailFlow
  <2>5. ASSUME NEW f \in Futures PROVE HeadFlow(f) /\ NextFlow(f)
    <3>1. waiterNext'[f] = waiterNext[f] \/ (f = tail[e] /\ waiterNext'[f] = detached[e])
      BY <2>1, LinkTypes
    <3> QED BY <1>7, <2>1, <3>1 DEF HeadFlow, NextFlow
  <2> QED BY <1>2, <1>4, <1>5, <2>2, <2>3, <2>4, <2>5 DEF Flow
<1> QED BY <1>6, <1>7

LEMMA NextFlows == TypeInv /\ [Next]_vars => Flow
<1> SUFFICES ASSUME TypeInv, [Next]_vars PROVE Flow
  OBVIOUS
<1>1. CASE UNCHANGED vars
  BY <1>1 DEF vars, linkVars, threadVars, Flow, HeadFlow, NextFlow, DetachedFlow, ChainFlow,
              PushFlow, TailFlow
<1> QED BY <1>1, ProgramFlow, WorkerFlow, SharedFlow, DestroyerFlow, Steps

LEMMA NextGrows == TypeInv /\ [Next]_vars => Grows
<1> SUFFICES ASSUME TypeInv, [Next]_vars PROVE Grows
  OBVIOUS
<1>1. CASE UNCHANGED vars BY <1>1 DEF vars, futureVars, executorVars, Grows, Used, Stopping
<1> QED BY <1>1, ProgramRests, OnlyMine, Steps

-----------------------------------------------------------------------------
(* Links do not leave an executor *)

(* Who becomes used was accepted. *)
LEMMA NewlyUsed ==
    ASSUME TypeInv, [Next]_vars, NEW f \in Futures, ~Used(f), Used(f)'
    PROVE  \E e \in Executors, d \in FutureOrNone : Accept(f, e, d)
<1>1. CASE \/ \E g \in Futures, e \in Executors, d \in FutureOrNone : Reject(g, e, d)
           \/ \E g \in Futures : Cancel(g) \/ TakeValue(g) \/ BeginFree(g) \/ EndFree(g)
           \/ \E w \in Workers : WorkerOwn(w)
           \/ \E t \in Threads : Shared(t)
           \/ \E e \in Executors : DestroyBegin(e) \/ DestroyerOwn(e)
  BY <1>1, UsedSame
<1>2. CASE UNCHANGED vars BY <1>2 DEF vars, futureVars, Used
<1>3. ASSUME NEW g \in Futures, NEW e \in Executors, NEW d \in FutureOrNone, Accept(g, e, d), g # f
      PROVE  FALSE
  <2>1. alloc' = [alloc EXCEPT ![g] = "live"] BY <1>3 DEF Accept
  <2>2. alloc'[f] = alloc[f] BY <1>3, <2>1 DEF TypeInv, TypeOK
  <2> QED BY <2>2 DEF Used
<1> QED BY <1>1, <1>2, <1>3, Steps DEF ProgramOwn

LEMMA AcceptHomes ==
    ASSUME TypeInv, ~CrossExecutor, NEW f \in Futures, NEW e \in Executors, NEW d \in FutureOrNone,
           Accept(f, e, d)
    PROVE  /\ ~Used(f) /\ Used(f)' /\ home'[f] = e /\ dep'[f] = d
           /\ d # None => d \in Futures /\ d # f /\ Used(d) /\ home[d] = e /\ home'[d] = e
<1>1. /\ alloc[f] = "unused" /\ alloc' = [alloc EXCEPT ![f] = "live"]
      /\ home' = [home EXCEPT ![f] = e] /\ dep' = [dep EXCEPT ![f] = d]
      /\ d # None => alloc[d] = "live" /\ home[d] = e
  BY DEF Accept, MayDepend, Usable
<1> QED BY <1>1 DEF TypeInv, TypeOK, Used

LEMMA HomeStep ==
    ASSUME ~CrossExecutor
    PROVE  TypeInv /\ PlaceInv /\ HomeInv /\ [Next]_vars => HomeInv'
<1> SUFFICES ASSUME TypeInv, PlaceInv, HomeInv, [Next]_vars PROVE HomeInv'
  OBVIOUS
<1>1. Flow /\ Grows BY NextFlows, NextGrows
<1>2. \A x \in Futures : Used(x) => Used(x)' /\ home'[x] = home[x] /\ dep'[x] = dep[x]
  BY <1>1 DEF Grows
<1>3. ASSUME NEW f \in Futures, NEW d \in Futures, Accepts(f, d)
      PROVE  ~Used(f) /\ Used(f)' /\ Used(d) /\ home'[f] = home[d] /\ home'[d] = home[d]
  BY <1>3, AcceptHomes, Distinct DEF Accepts
<1>4. /\ \A f \in Futures :
            /\ ~Used(f) => waitingHead[f] = None /\ waiterNext[f] = None
            /\ waitingHead[f] # None => /\ waitingHead[f] \in Futures /\ Used(waitingHead[f])
                                        /\ home[waitingHead[f]] = home[f]
            /\ waiterNext[f] # None => /\ waiterNext[f] \in Futures /\ Used(waiterNext[f])
                                       /\ home[waiterNext[f]] = home[f]
      /\ \A t \in Threads :
            /\ detached[t] # None => /\ detached[t] \in Futures /\ Used(detached[t])
                                     /\ home[detached[t]] = ExecutorOf(t)
            /\ chain[t] # None => /\ chain[t] \in Futures /\ Used(chain[t])
                                  /\ home[chain[t]] = ExecutorOf(t)
            /\ pc[t] = "push" => /\ cur[t] \in Futures /\ Used(cur[t])
                                 /\ home[cur[t]] = ExecutorOf(t)
      /\ \A e \in Executors : tail[e] # None => tail[e] \in Futures /\ Used(tail[e]) /\ home[tail[e]] = e
  BY UsedNow, LinkTypes DEF HomeInv, CarryPcs
<1>5. ASSUME NEW f \in Futures
      PROVE  Used(f)' /\ dep'[f] # None => home'[dep'[f]] = home'[f]
  <2>1. CASE Used(f)
    <3>1. dep[f] # None => Used(dep[f]) /\ dep[f] \in Futures /\ home[dep[f]] = home[f]
      BY <2>1, LinkTypes DEF TypeInv, UsedInv, HomeInv
    <3> QED BY <1>2, <2>1, <3>1
  <2>2. CASE ~Used(f) BY <2>2, NewlyUsed, AcceptHomes
  <2> QED BY <2>1, <2>2
<1>6. ASSUME NEW f \in Futures
      PROVE  /\ waitingHead'[f] # None => Used(f)' /\ home'[waitingHead'[f]] = home'[f]
             /\ waiterNext'[f] # None => Used(f)' /\ home'[waiterNext'[f]] = home'[f]
  <2>1. HeadFlow(f) /\ NextFlow(f) BY <1>1 DEF Flow
  <2>2. waitingHead'[f] # None => Used(f)' /\ home'[waitingHead'[f]] = home'[f]
    <3>1. CASE \E g \in Futures : Accepts(g, f) /\ waitingHead'[f] = g
      BY <1>2, <1>3, <3>1
    <3>2. CASE waitingHead'[f] = None \/ waitingHead'[f] = waitingHead[f] BY <1>2, <1>4, <3>2
    <3>3. CASE \E g \in Futures : waitingHead[f] = g /\ waitingHead'[f] = waiterNext[g]
      <4>1. PICK g \in Futures : waitingHead[f] = g /\ waitingHead'[f] = waiterNext[g] BY <3>3
      <4>2. Used(f) /\ home[g] = home[f] BY <1>4, <4>1, Distinct
      <4> QED BY <1>2, <1>4, <4>1, <4>2
    <3> QED BY <2>1, <3>1, <3>2, <3>3 DEF HeadFlow
  <2>3. waiterNext'[f] # None => Used(f)' /\ home'[waiterNext'[f]] = home'[f]
    <3>1. CASE \E d \in Futures : Accepts(f, d) /\ waiterNext'[f] = waitingHead[d]
      BY <1>2, <1>3, <1>4, <3>1
    <3>2. CASE waiterNext'[f] = None \/ waiterNext'[f] = waiterNext[f] BY <1>2, <1>4, <3>2
    <3>3. CASE \E g \in Futures : waiterNext[f] = g /\ waiterNext'[f] = waiterNext[g]
      <4>1. PICK g \in Futures : waiterNext[f] = g /\ waiterNext'[f] = waiterNext[g] BY <3>3
      <4>2. Used(f) /\ home[g] = home[f] BY <1>4, <4>1, Distinct
      <4> QED BY <1>2, <1>4, <4>1, <4>2
    <3>4. CASE \E e \in Executors : tail[e] = f /\ waiterNext'[f] = detached[e]
      <4>1. PICK e \in Executors : tail[e] = f /\ waiterNext'[f] = detached[e] BY <3>4
      <4>2. ExecutorOf(e) = e /\ e \in Threads BY Distinct DEF ExecutorOf
      <4>3. Used(f) /\ home[f] = e BY <1>4, <4>1, Distinct
      <4> QED BY <1>2, <1>4, <4>1, <4>2, <4>3
    <3> QED BY <2>1, <3>1, <3>2, <3>3, <3>4 DEF NextFlow
  <2> QED BY <2>2, <2>3
<1>7. ASSUME NEW t \in Threads
      PROVE  /\ detached'[t] # None => /\ home'[detached'[t]] = ExecutorOf(t)
                                       /\ pc'[t] \in {"wake", "collect"}
             /\ chain'[t] # None => /\ home'[chain'[t]] = ExecutorOf(t)
                                    /\ t \in Workers => pc'[t] \in {"promote", "push"}
             /\ pc'[t] = "push" => home'[cur'[t]] = ExecutorOf(t)
  <2>1. DetachedFlow(t) /\ ChainFlow(t) /\ PushFlow(t) BY <1>1 DEF Flow
  <2>2. /\ detached[t] # None => pc[t] \in {"wake", "collect"}
        /\ t \in Workers /\ chain[t] # None => pc[t] \in {"promote", "push"}
    BY DEF HomeInv
  <2>3. detached'[t] # None => /\ home'[detached'[t]] = ExecutorOf(t)
                               /\ pc'[t] \in {"wake", "collect"}
    <3>1. CASE Complete(t) /\ detached'[t] = waitingHead[cur[t]] /\ pc'[t] = "wake"
      <4>1. pc[t] \in HandPcs BY <3>1 DEF Complete, HandPcs
      <4>2. cur[t] \in Futures /\ home[cur[t]] = ExecutorOf(t)
        BY <4>1, UsedNow DEF PlaceInv, HandPlace, CarryPcs
      <4> QED BY <1>2, <1>4, <3>1, <4>2
    <3> QED BY <1>2, <1>4, <2>1, <2>2, <3>1 DEF DetachedFlow
  <2>4. chain'[t] # None => /\ home'[chain'[t]] = ExecutorOf(t)
                            /\ t \in Workers => pc'[t] \in {"promote", "push"}
    <3>1. CASE PromoteNext(t) /\ chain'[t] = waiterNext[chain[t]] /\ pc'[t] = "push"
      <4>1. chain[t] # None BY <3>1 DEF PromoteNext
      <4> QED BY <1>2, <1>4, <3>1, <4>1
    <3>2. CASE t \in Executors /\ chain'[t] = detached[t]
      BY <1>2, <1>4, <3>2, Distinct
    <3>3. CASE t \in Workers /\ chain'[t] = detached[t] /\ pc'[t] = "promote"
      BY <1>2, <1>4, <3>3
    <3>4. CASE \/ chain'[t] = None
               \/ chain'[t] = chain[t] /\ (pc[t] \in {"promote", "push"} /\ t \in Workers =>
                                              pc'[t] \in {"promote", "push"})
      BY <1>2, <1>4, <2>2, <3>4
    <3> QED BY <2>1, <3>1, <3>2, <3>3, <3>4 DEF ChainFlow
  <2>5. ASSUME pc'[t] = "push" PROVE home'[cur'[t]] = ExecutorOf(t)
    <3>1. CASE PromoteNext(t) /\ cur'[t] = chain[t]
      <4>1. chain[t] # None BY <3>1 DEF PromoteNext
      <4> QED BY <1>2, <1>4, <3>1, <4>1
    <3>2. CASE pc[t] = "push" /\ cur'[t] = cur[t] BY <1>2, <1>4, <3>2
    <3> QED BY <2>1, <2>5, <3>1, <3>2 DEF PushFlow
  <2> QED BY <2>3, <2>4, <2>5
<1>8. ASSUME NEW e \in Executors, tail'[e] # None
      PROVE  Used(tail[e])' /\ home'[tail'[e]] = e
  <2>1. TailFlow(e) BY <1>1 DEF Flow
  <2>2. e \in Threads /\ ExecutorOf(e) = e BY Distinct DEF ExecutorOf
  <2>3. /\ tail'[e] \in Futures /\ Used(tail'[e]) /\ home[tail'[e]] = e
    <3>1. CASE CollectTail(e) /\ tail'[e] = waiterNext[tail[e]]
      <4>1. tail[e] # None
        BY <3>1 DEF CollectTail, TypeInv, ControlInv, DestroyerPlace
      <4> QED BY <1>4, <1>8, <3>1, <4>1
    <3> QED BY <1>4, <1>8, <2>1, <2>2, <3>1 DEF TailFlow
  <2> QED BY <1>2, <2>3 DEF Used
<1>9. \A t : ExecutorOf(t)' = ExecutorOf(t) BY DEF ExecutorOf
<1> QED BY <1>5, <1>6, <1>7, <1>8, <1>9 DEF HomeInv

LEMMA HomeInit == Init => HomeInv
BY DEF Init, HomeInv, Used

-----------------------------------------------------------------------------
(* Where the futures in the queues and in hand come from *)

HeapFlow(e) ==
    \A f \in heap'[e] :
        \/ f \in heap[e]
        \/ f \in Futures /\ \E d \in FutureOrNone : Accept(f, e, d) /\ ~MustPark(d)
        \/ \E t \in Threads : PromotePush(t) /\ f = cur[t]
ParkedFlow(e) ==
    \A i \in DOMAIN parked'[e] :
        \/ Registered(e, parked'[e][i])
        \/ \E f \in Futures, d \in Futures :
              Accept(f, e, d) /\ MustPark(d) /\ f = parked'[e][i]
HandFlow(t) ==
    pc'[t] \in HandPcs =>
        \/ pc[t] \in HandPcs /\ cur'[t] = cur[t]
        \/ t \in Workers /\ Pop(t) /\ cur'[t] \in heap[Home[t]] /\ pc'[t] = "check"
        \/ t \in Executors /\ DrainNext(t) /\ cur'[t] \in heap[t] /\ pc'[t] = "callback"
        \/ t \in Executors /\ WalkNext(t) /\ Registered(t, cur'[t]) /\ pc'[t] = "callback"
ReadyFlow(f) == ready'[f] => ready[f] \/ \E t \in Threads : Complete(t) /\ cur[t] = f
QueueFlow ==
    /\ \A e \in Executors : HeapFlow(e) /\ ParkedFlow(e)
    /\ \A t \in Threads : HandFlow(t)
    /\ \A f \in Futures : ReadyFlow(f)

LEMMA AcceptOpens ==
    ASSUME TypeInv, NEW f \in Futures, NEW e \in Executors, NEW d \in FutureOrNone,
           Accept(f, e, d)
    PROVE  /\ ~Used(f) /\ Used(f)' /\ home'[f] = e /\ dep'[f] = d /\ (holds'[f] <=> d # None)
           /\ d # None => d \in Futures /\ d # f /\ Used(d)
           /\ \A g \in Futures : g # f => alloc'[g] = alloc[g] /\ dep'[g] = dep[g]
                                          /\ (holds'[g] <=> holds[g])
           /\ UNCHANGED <<ready, result, cur, res, runs, heard, disposals>>
<1>1. /\ alloc[f] = "unused" /\ alloc' = [alloc EXCEPT ![f] = "live"]
      /\ home' = [home EXCEPT ![f] = e] /\ dep' = [dep EXCEPT ![f] = d]
      /\ holds' = [holds EXCEPT ![f] = d # None]
      /\ d # None => alloc[d] = "live"
      /\ UNCHANGED <<ready, result, cur, res, runs, heard, disposals>>
  BY DEF Accept, MayDepend, Usable
<1> QED BY <1>1 DEF TypeInv, TypeOK, Used

LEMMA ProgramQueues ==
    ASSUME TypeInv, ProgramOwn
    PROVE  QueueFlow
<1>0. Rests /\ cur' = cur /\ ready' = ready BY ProgramRests
<1>1. \A t \in Threads : HandFlow(t)
  BY <1>0 DEF Rests, HandFlow, HandPcs, CurrentPcs
<1>2. \A f \in Futures : ReadyFlow(f) BY <1>0 DEF ReadyFlow
<1>3. ASSUME NEW x \in Executors PROVE HeapFlow(x) /\ ParkedFlow(x)
  <2>1. ASSUME NEW f \in Futures, NEW e \in Executors, NEW d \in FutureOrNone, Accept(f, e, d)
        PROVE  HeapFlow(x) /\ ParkedFlow(x)
    <3>0. heap \in [Executors -> SUBSET Futures] /\ parked \in [Executors -> Seq(Futures)]
      BY DEF TypeInv, TypeOK
    <3>1. CASE MustPark(d)
      <4>1. heap' = heap /\ parked' = [parked EXCEPT ![e] = Append(@, f)] /\ d \in Futures
        BY <2>1, <3>1 DEF Accept, MustPark
      <4>2. HeapFlow(x) BY <4>1 DEF HeapFlow
      <4>3. CASE x # e
        <5>1. parked'[x] = parked[x] BY <3>0, <4>1, <4>3
        <5>2. ParkedFlow(x) BY <5>1 DEF ParkedFlow, Registered
        <5> QED BY <4>2, <5>2
      <4>4. CASE x = e
        <5>1. parked'[x] = Append(parked[x], f) /\ parked[x] \in Seq(Futures)
          BY <3>0, <4>1, <4>4
        <5>2. \A i \in DOMAIN parked'[x] :
                 parked'[x][i] = f \/ \E j \in DOMAIN parked[x] : parked[x][j] = parked'[x][i]
          BY <5>1
        <5>3. ParkedFlow(x) BY <2>1, <3>1, <4>1, <4>4, <5>2 DEF ParkedFlow, Registered
        <5> QED BY <4>2, <5>3
      <4> QED BY <4>3, <4>4
    <3>2. CASE ~MustPark(d)
      <4>1. heap' = [heap EXCEPT ![e] = @ \cup {f}] /\ parked' = parked
        BY <2>1, <3>2 DEF Accept
      <4>2. ParkedFlow(x) BY <4>1 DEF ParkedFlow, Registered
      <4>3. \A g \in heap'[x] : g \in heap[x] \/ (g = f /\ x = e) BY <3>0, <4>1
      <4>4. HeapFlow(x) BY <2>1, <3>2, <4>3 DEF HeapFlow
      <4> QED BY <4>2, <4>4
    <3> QED BY <3>1, <3>2
  <2>2. CASE \/ \E f \in Futures, e \in Executors, d \in FutureOrNone : Reject(f, e, d)
             \/ \E f \in Futures : Cancel(f) \/ TakeValue(f) \/ BeginFree(f) \/ EndFree(f)
    <3>1. UNCHANGED <<heap, parked>>
      BY <2>2 DEF Reject, Cancel, TakeValue, BeginFree, EndFree
    <3> QED BY <3>1 DEF HeapFlow, ParkedFlow, Registered
  <2> QED BY <2>1, <2>2 DEF ProgramOwn
<1> QED BY <1>1, <1>2, <1>3 DEF QueueFlow

LEMMA OthersHand ==
    ASSUME TypeInv, NEW t \in Threads, NEW u \in Threads, u # t,
           \/ t \in Workers /\ WorkerOwn(t)
           \/ Shared(t)
           \/ t \in Executors /\ (DestroyBegin(t) \/ DestroyerOwn(t))
    PROVE  HandFlow(u)
<1>1. cur'[u] = cur[u] /\ (pc'[u] = pc[u] \/ (pc[u] = "asleep" /\ pc'[u] = "idle")) BY OnlyMine
<1> QED BY <1>1 DEF HandFlow, HandPcs, CurrentPcs

LEMMA WorkerQueues ==
    ASSUME TypeInv, NEW w \in Workers, WorkerOwn(w)
    PROVE  QueueFlow
<1>0. heap \in [Executors -> SUBSET Futures] /\ TypeOK BY DEF TypeInv, TypeOK
<1>1. UNCHANGED <<ready, parked>>
  BY DEF WorkerOwn, Pop, Wait, Check, ReadAntecedent, Run, Publish, PromoteEnd
<1>2. heap' = heap \/ \E f : heap' = [heap EXCEPT ![Home[w]] = @ \ {f}]
  BY DEF WorkerOwn, Pop, Wait, Check, ReadAntecedent, Run, Publish, PromoteEnd
<1>3. \A e \in Executors : heap'[e] \subseteq heap[e] BY <1>0, <1>2
<1>4. HandFlow(w)
  <2>1. CASE Pop(w)
    <3>1. PICK f \in heap[Home[w]] : cur' = [cur EXCEPT ![w] = f] BY <2>1 DEF Pop
    <3>2. cur'[w] = f BY <3>1, LinkTypes
    <3>3. pc'[w] = "check" BY <1>0, <2>1, WorkerPaths DEF Moves
    <3> QED BY <2>1, <3>2, <3>3 DEF HandFlow
  <2>2. CASE ~Pop(w)
    <3>1. cur' = cur
      BY <2>2 DEF WorkerOwn, Wait, Check, ReadAntecedent, Run, Publish, PromoteEnd
    <3>2. pc[w] \in HandPcs \/ pc'[w] \notin HandPcs
      <4>1. CASE Wait(w) \/ PromoteEnd(w)
        BY <1>0, <4>1, WorkerPaths DEF Moves, HandPcs, CurrentPcs
      <4>2. CASE ~Wait(w) /\ ~PromoteEnd(w)
        BY <1>0, <2>2, <4>2, WorkerPaths DEF WorkerOwn, HandPcs, CurrentPcs
      <4> QED BY <4>1, <4>2
    <3> QED BY <3>1, <3>2 DEF HandFlow
  <2> QED BY <2>1, <2>2
<1>5. \A u \in Threads : HandFlow(u) BY <1>4, OthersHand
<1> QED BY <1>1, <1>3, <1>5 DEF QueueFlow, HeapFlow, ParkedFlow, ReadyFlow, Registered

LEMMA SharedQueues ==
    ASSUME TypeInv, NEW t \in Threads, Shared(t)
    PROVE  QueueFlow
<1>0. /\ heap \in [Executors -> SUBSET Futures] /\ parked \in [Executors -> Seq(Futures)]
      /\ ready \in [Futures -> BOOLEAN] /\ TypeOK
  BY DEF TypeInv, TypeOK
<1>1. ASSUME NEW f \in Futures PROVE ReadyFlow(f)
  <2>1. ready' = ready \/ (Complete(t) /\ ready' = [ready EXCEPT ![cur[t]] = TRUE])
    BY DEF Shared, Release, DestructorCancels, DestructorFrees, Complete, Wake, PromoteNext,
           PromotePush
  <2>2. ready'[f] => ready[f] \/ (Complete(t) /\ cur[t] = f) BY <1>0, <2>1
  <2> QED BY <2>2 DEF ReadyFlow
<1>2. HandFlow(t)
  <2>1. CASE DestructorCancels(t) \/ DestructorFrees(t)
    BY <2>1 DEF DestructorCancels, DestructorFrees, HandFlow
  <2>2. CASE Release(t)
    <3>1. cur' = cur /\ pc[t] = "release" BY <2>2 DEF Release
    <3> QED BY <3>1 DEF HandFlow, HandPcs, CurrentPcs
  <2>3. CASE Complete(t) \/ Wake(t) \/ PromoteNext(t) \/ PromotePush(t)
    <3>1. pc'[t] \in {"wake", "promote", "collect", "push"} BY <1>0, <2>3, SharedPaths DEF Moves
    <3> QED BY <3>1 DEF HandFlow, HandPcs, CurrentPcs
  <2> QED BY <2>1, <2>2, <2>3 DEF Shared
<1>3. \A u \in Threads : HandFlow(u) BY <1>2, OthersHand
<1>4. ASSUME NEW x \in Executors PROVE HeapFlow(x) /\ ParkedFlow(x)
  <2>1. CASE ~PromotePush(t)
    <3>1. UNCHANGED <<heap, parked>>
      BY <2>1 DEF Shared, Release, DestructorCancels, DestructorFrees, Complete, Wake, PromoteNext
    <3> QED BY <3>1 DEF HeapFlow, ParkedFlow, Registered
  <2>2. CASE PromotePush(t)
    <3> PICK f, e : f = cur[t] /\ e = home[f]
      OBVIOUS
    <3>1. \/ UNCHANGED <<parked, heap>>
          \/ /\ parked' = [parked EXCEPT ![e] = Unregistered(e, f)]
             /\ heap' = [heap EXCEPT ![e] = @ \cup {f}]
      BY <2>2 DEF PromotePush
    <3>2. \A g \in heap'[x] : g \in heap[x] \/ g = f
      <4>1. heap'[x] = heap[x] \/ heap'[x] = heap[x] \cup {f} BY <1>0, <3>1
      <4> QED BY <4>1
    <3>3. HeapFlow(x) BY <2>2, <3>2 DEF HeapFlow
    <3>4. \A i \in DOMAIN parked'[x] : \E j \in DOMAIN parked[x] : parked[x][j] = parked'[x][i]
      <4>1. parked'[x] = parked[x] \/ (x = e /\ parked'[x] = Unregistered(e, f)) BY <1>0, <3>1
      <4> QED BY <1>0, <4>1, UnregisteredFrom
    <3>5. ParkedFlow(x) BY <3>4 DEF ParkedFlow, Registered
    <3> QED BY <3>3, <3>5
  <2> QED BY <2>1, <2>2
<1> QED BY <1>1, <1>3, <1>4 DEF QueueFlow

LEMMA DestroyerQueues ==
    ASSUME TypeInv, NEW e \in Executors, DestroyBegin(e) \/ DestroyerOwn(e)
    PROVE  QueueFlow
<1>0. /\ heap \in [Executors -> SUBSET Futures] /\ parked \in [Executors -> Seq(Futures)]
      /\ TypeOK /\ e \in Threads /\ e \notin Workers /\ DestroyerPlace(e) /\ pc[e] # "asleep"
  BY Distinct DEF TypeInv, TypeOK, ControlInv, DestroyerPlace, DestroyPcs
<1>1. ready' = ready
  BY DEF DestroyBegin, DestroyerOwn, DrainNext, DrainEnd, Join, WalkNext, WalkEnd, Disposed,
         Collect, CollectTail, DestroyEnd
<1>2. \A x \in Executors : heap'[x] \subseteq heap[x]
  <2>1. heap' = heap \/ \E f : heap' = [heap EXCEPT ![e] = @ \ {f}]
    BY DEF DestroyBegin, DestroyerOwn, DrainNext, DrainEnd, Join, WalkNext, WalkEnd, Disposed,
           Collect, CollectTail, DestroyEnd
  <2> QED BY <1>0, <2>1
<1>3. ASSUME NEW x \in Executors PROVE ParkedFlow(x)
  <2>1. CASE WalkNext(e)
    <3>1. parked' = [parked EXCEPT ![e] = Tail(@)] /\ parked[e] # << >> BY <2>1 DEF WalkNext
    <3>2. parked'[x] = parked[x] \/ (x = e /\ parked'[x] = Tail(parked[e])) BY <1>0, <3>1
    <3>3. \A i \in DOMAIN parked'[x] : \E j \in DOMAIN parked[x] : parked[x][j] = parked'[x][i]
      BY <1>0, <3>1, <3>2, TailHas
    <3> QED BY <3>3 DEF ParkedFlow, Registered
  <2>2. CASE ~WalkNext(e)
    <3>1. parked' = parked
      BY <2>2 DEF DestroyBegin, DestroyerOwn, DrainNext, DrainEnd, Join, WalkEnd, Disposed,
                  Collect, CollectTail, DestroyEnd
    <3> QED BY <3>1 DEF ParkedFlow, Registered
  <2> QED BY <2>1, <2>2
<1>4. HandFlow(e)
  <2>1. CASE DrainNext(e)
    <3>1. PICK f \in heap[e] : cur' = [cur EXCEPT ![e] = f] BY <2>1 DEF DrainNext
    <3>2. cur'[e] = f BY <1>0, <3>1, LinkTypes
    <3>3. pc'[e] = "callback" BY <1>0, <2>1, DestroyerPaths DEF Moves
    <3> QED BY <2>1, <3>2, <3>3 DEF HandFlow
  <2>2. CASE WalkNext(e)
    <3>1. cur' = [cur EXCEPT ![e] = Head(parked[e])] /\ parked[e] # << >>
      BY <2>2 DEF WalkNext
    <3>2. cur'[e] = Head(parked[e]) BY <1>0, <3>1, LinkTypes
    <3>3. pc'[e] = "callback" BY <1>0, <2>2, DestroyerPaths DEF Moves
    <3>4. Registered(e, cur'[e]) BY <1>0, <3>1, <3>2, TailHas DEF Registered
    <3> QED BY <2>2, <3>3, <3>4 DEF HandFlow
  <2>3. CASE Disposed(e)
    <3>1. cur' = cur /\ pc[e] = "callback" BY <2>3 DEF Disposed
    <3> QED BY <3>1 DEF HandFlow, HandPcs, CurrentPcs
  <2>4. CASE Join(e)
    <3>1. cur' = cur /\ pc' = pc BY <2>4 DEF Join
    <3> QED BY <3>1 DEF HandFlow
  <2>5. CASE ~(DrainNext(e) \/ WalkNext(e) \/ Disposed(e) \/ Join(e))
    <3>1. pc'[e] \in {"next", "promote", "advance", "done"}
      BY <1>0, <2>5, DestroyerPaths DEF DestroyerOwn, Moves
    <3> QED BY <3>1 DEF HandFlow, HandPcs, CurrentPcs
  <2> QED BY <2>1, <2>2, <2>3, <2>4, <2>5
<1>5. \A u \in Threads : HandFlow(u) BY <1>0, <1>4, OthersHand
<1> QED BY <1>1, <1>2, <1>3, <1>5 DEF QueueFlow, HeapFlow, ReadyFlow

LEMMA QueueFlows == TypeInv /\ [Next]_vars => QueueFlow
<1> SUFFICES ASSUME TypeInv, [Next]_vars PROVE QueueFlow
  OBVIOUS
<1>1. CASE UNCHANGED vars
  BY <1>1 DEF vars, QueueFlow, HeapFlow, ParkedFlow, HandFlow, ReadyFlow, Registered
<1> QED BY <1>1, ProgramQueues, WorkerQueues, SharedQueues, DestroyerQueues, Steps

-----------------------------------------------------------------------------
(* Whoever waits in a chain that was detached has a ready antecedent *)

LEMMA ChainStep == TypeInv /\ ChainInv /\ [Next]_vars => ChainInv'
<1> SUFFICES ASSUME TypeInv, ChainInv, [Next]_vars PROVE ChainInv'
  OBVIOUS
<1>1. Flow /\ Grows /\ QueueFlow BY NextFlows, NextGrows, QueueFlows
<1>2. \A x \in Futures : Used(x) => Used(x)' /\ dep'[x] = dep[x] /\ (Ready(x) => Ready(x)')
  <2>1. ASSUME NEW x \in Futures, Used(x), Ready(x) PROVE Ready(x)'
    <3>1. dep[x] \in Futures /\ ready[dep[x]] /\ dep'[x] = dep[x] /\ dep[x] # None
      BY <1>1, <2>1, LinkTypes DEF Ready, Grows
    <3> QED BY <1>1, <3>1 DEF Ready, Grows
  <2> QED BY <1>1, <2>1 DEF Grows
<1>3. /\ \A f \in Futures :
            /\ waitingHead[f] # None => /\ waitingHead[f] \in Futures /\ Used(waitingHead[f])
                                        /\ dep[waitingHead[f]] = f /\ ~ready[f]
            /\ waiterNext[f] # None =>
                  /\ waiterNext[f] \in Futures /\ Used(waiterNext[f]) /\ Used(f) /\ dep[f] # None
                  /\ \/ dep[waiterNext[f]] = dep[f]
                     \/ Ready(waiterNext[f]) /\ Ready(f)
      /\ \A t \in Threads :
            /\ detached[t] # None => detached[t] \in Futures /\ Used(detached[t]) /\ Ready(detached[t])
            /\ chain[t] # None => chain[t] \in Futures /\ Used(chain[t]) /\ Ready(chain[t])
            /\ pc[t] = "push" => cur[t] \in Futures /\ Used(cur[t]) /\ Ready(cur[t])
      /\ \A e \in Executors : tail[e] # None => tail[e] \in Futures /\ Used(tail[e]) /\ Ready(tail[e])
  BY UsedNow, LinkTypes DEF ChainInv, CarryPcs
<1>4. ASSUME NEW f \in Futures, waiterNext[f] # None, Ready(f)
      PROVE  Ready(waiterNext[f])
  BY <1>3, <1>4 DEF Ready
<1>5. ASSUME NEW f \in Futures, NEW d \in Futures, Accepts(f, d)
      PROVE  /\ ~Used(f) /\ Used(f)' /\ dep'[f] = d /\ ~ready[d] /\ ready' = ready /\ d # None
  BY <1>5, AcceptOpens, Distinct DEF Accepts, MustPark
<1>6. ASSUME NEW f \in Futures, waitingHead'[f] # None
      PROVE  dep'[waitingHead'[f]] = f /\ ~ready'[f]
  <2>1. HeadFlow(f) /\ ReadyFlow(f) BY <1>1 DEF Flow, QueueFlow
  <2>2. dep'[waitingHead'[f]] = f /\ ~ready[f]
    <3>1. CASE \E g \in Futures : Accepts(g, f) /\ waitingHead'[f] = g
      BY <1>5, <3>1
    <3>2. CASE waitingHead'[f] = waitingHead[f] BY <1>2, <1>3, <1>6, <3>2
    <3>3. CASE \E g \in Futures : waitingHead[f] = g /\ dep[g] = f /\ waitingHead'[f] = waiterNext[g]
      <4>1. PICK g \in Futures : waitingHead[f] = g /\ dep[g] = f /\ waitingHead'[f] = waiterNext[g]
        BY <3>3
      <4>2. ~ready[f] /\ waiterNext[g] # None BY <1>3, <1>6, <4>1, Distinct
      <4>3. ~Ready(g) BY <4>1, <4>2 DEF Ready
      <4>4. /\ waiterNext[g] \in Futures /\ Used(waiterNext[g]) /\ dep[waiterNext[g]] = f
        BY <1>3, <4>1, <4>2, <4>3
      <4> QED BY <1>2, <4>1, <4>2, <4>4
    <3> QED BY <1>6, <2>1, <3>1, <3>2, <3>3 DEF HeadFlow
  <2>3. ASSUME NEW t \in Threads, Complete(t), cur[t] = f PROVE FALSE
    <3>1. waitingHead' = [waitingHead EXCEPT ![f] = None] BY <2>3 DEF Complete
    <3>2. waitingHead'[f] = None BY <3>1, LinkTypes
    <3> QED BY <1>6, <3>2
  <2> QED BY <2>1, <2>2, <2>3 DEF ReadyFlow
<1>7. ASSUME NEW f \in Futures, waiterNext'[f] # None
      PROVE  /\ Used(f)' /\ dep'[f] # None /\ Used(waiterNext[f])'
             /\ \/ dep'[waiterNext'[f]] = dep'[f]
                \/ Ready(waiterNext[f])' /\ Ready(f)'
  <2>1. NextFlow(f) BY <1>1 DEF Flow
  <2>2. CASE \E d \in Futures : Accepts(f, d) /\ waiterNext'[f] = waitingHead[d]
    <3>1. PICK d \in Futures : Accepts(f, d) /\ waiterNext'[f] = waitingHead[d] BY <2>2
    <3>2. Used(f)' /\ dep'[f] = d /\ d # None BY <1>5, <3>1
    <3>3. /\ waiterNext'[f] \in Futures /\ Used(waiterNext'[f]) /\ dep[waiterNext'[f]] = d
      BY <1>3, <1>7, <3>1
    <3>4. Used(waiterNext[f])' /\ dep'[waiterNext'[f]] = d BY <1>2, <3>3 DEF Used
    <3> QED BY <3>2, <3>4
  <2>3. CASE waiterNext'[f] = waiterNext[f]
    <3>1. PICK x : x = waiterNext[f] OBVIOUS
    <3>2. /\ x \in Futures /\ Used(x) /\ Used(f) /\ dep[f] # None /\ waiterNext'[f] = x
          /\ dep[x] = dep[f] \/ (Ready(x) /\ Ready(f))
      BY <1>3, <1>7, <2>3, <3>1
    <3> QED BY <1>2, <3>2 DEF Used, Ready
  <2>4. CASE \E g \in Futures : waiterNext[f] = g /\ waiterNext'[f] = waiterNext[g]
    <3>1. PICK g \in Futures : waiterNext[f] = g /\ waiterNext'[f] = waiterNext[g] BY <2>4
    <3>2. PICK x : x = waiterNext[g] OBVIOUS
    <3>3. /\ Used(f) /\ dep[f] # None
          /\ dep[g] = dep[f] \/ (Ready(g) /\ Ready(f))
      BY <1>3, <3>1, Distinct
    <3>4. /\ x \in Futures /\ Used(x) /\ waiterNext'[f] = x
          /\ dep[x] = dep[g] \/ (Ready(x) /\ Ready(g))
      BY <1>3, <1>7, <3>1, <3>2
    <3>5. dep[x] = dep[f] \/ (Ready(x) /\ Ready(f)) BY <3>3, <3>4 DEF Ready
    <3>6. Used(f)' /\ dep'[f] = dep[f] /\ (Ready(f) => Ready(f)') BY <1>2, <3>3
    <3>7. Used(x)' /\ dep'[x] = dep[x] /\ (Ready(x) => Ready(x)') BY <1>2, <3>4
    <3>8. \/ dep'[x] = dep'[f]
          \/ Ready(x)' /\ Ready(f)'
      BY <3>5, <3>6, <3>7
    <3>9. dep'[f] # None BY <3>3, <3>6
    <3> QED BY <3>4, <3>6, <3>7, <3>8, <3>9 DEF Used, Ready
  <2>5. CASE \E e \in Executors : tail[e] = f /\ waiterNext'[f] = detached[e]
    <3>1. PICK e \in Executors : tail[e] = f /\ waiterNext'[f] = detached[e] BY <2>5
    <3>2. PICK x : x = detached[e] OBVIOUS
    <3>3. Used(f) /\ Ready(f) /\ dep[f] # None BY <1>3, <3>1, Distinct DEF Ready
    <3>4. x \in Futures /\ Used(x) /\ Ready(x) /\ waiterNext'[f] = x
      BY <1>3, <1>7, <3>1, <3>2
    <3> QED BY <1>2, <3>3, <3>4 DEF Used, Ready
  <2> QED BY <1>7, <2>1, <2>2, <2>3, <2>4, <2>5 DEF NextFlow
<1>8. ASSUME NEW t \in Threads
      PROVE  /\ detached'[t] # None => Ready(detached[t])'
             /\ chain'[t] # None => Ready(chain[t])'
             /\ pc'[t] = "push" => Ready(cur[t])'
  <2>1. DetachedFlow(t) /\ ChainFlow(t) /\ PushFlow(t) BY <1>1 DEF Flow
  <2>2. ASSUME NEW x \in Futures, Used(x), Ready(x) PROVE Ready(x)' BY <1>2, <2>2
  <2>3. ASSUME detached'[t] # None PROVE Ready(detached[t])'
    <3>1. CASE Complete(t) /\ detached'[t] = waitingHead[cur[t]]
      <4>1. PICK f, x : f = cur[t] /\ x = waitingHead[f] OBVIOUS
      <4>2. f \in Futures /\ ready' = [ready EXCEPT ![f] = TRUE]
        BY <3>1, <4>1, UsedNow DEF Complete, CarryPcs, HandPcs
      <4>3. ready'[f] BY <4>2 DEF TypeInv, TypeOK
      <4>4. x \in Futures /\ Used(x) /\ dep[x] = f BY <1>3, <2>3, <3>1, <4>1, <4>2
      <4>5. dep'[x] = f /\ f # None BY <1>2, <4>2, <4>4, Distinct
      <4> QED BY <3>1, <4>1, <4>3, <4>5 DEF Ready
    <3>2. CASE detached'[t] = detached[t]
      <4>1. PICK x : x = detached[t] OBVIOUS
      <4> QED BY <1>3, <2>2, <2>3, <3>2, <4>1 DEF Ready
    <3> QED BY <2>1, <2>3, <3>1, <3>2 DEF DetachedFlow
  <2>4. ASSUME chain'[t] # None PROVE Ready(chain[t])'
    <3>1. PICK x : x = chain'[t] OBVIOUS
    <3>2. x \in Futures /\ Used(x) /\ Ready(x)
      <4>1. CASE PromoteNext(t) /\ chain'[t] = waiterNext[chain[t]]
        <5>1. chain[t] # None BY <4>1 DEF PromoteNext
        <5> QED BY <1>3, <1>4, <2>4, <3>1, <4>1, <5>1
      <4>2. CASE chain'[t] = chain[t] \/ chain'[t] = detached[t] BY <1>3, <2>4, <3>1, <4>2
      <4> QED BY <2>1, <2>4, <4>1, <4>2 DEF ChainFlow
    <3> QED BY <2>2, <3>1, <3>2 DEF Ready
  <2>5. ASSUME pc'[t] = "push" PROVE Ready(cur[t])'
    <3>1. PICK x : x = cur'[t] OBVIOUS
    <3>2. x \in Futures /\ Used(x) /\ Ready(x)
      <4>1. CASE PromoteNext(t) /\ cur'[t] = chain[t]
        <5>1. chain[t] # None BY <4>1 DEF PromoteNext
        <5> QED BY <1>3, <3>1, <4>1, <5>1
      <4>2. CASE pc[t] = "push" /\ cur'[t] = cur[t] BY <1>3, <3>1, <4>2
      <4> QED BY <2>1, <2>5, <4>1, <4>2 DEF PushFlow
    <3> QED BY <2>2, <3>1, <3>2 DEF Ready
  <2> QED BY <2>3, <2>4, <2>5
<1>9. ASSUME NEW e \in Executors, tail'[e] # None PROVE Used(tail[e])' /\ Ready(tail[e])'
  <2>1. TailFlow(e) BY <1>1 DEF Flow
  <2>2. PICK x : x = tail'[e] OBVIOUS
  <2>3. x \in Futures /\ Used(x) /\ Ready(x)
    <3>1. CASE CollectTail(e) /\ tail'[e] = waiterNext[tail[e]]
      <4>1. tail[e] # None BY <3>1 DEF CollectTail, TypeInv, ControlInv, DestroyerPlace
      <4> QED BY <1>3, <1>4, <1>9, <2>2, <3>1, <4>1
    <3>2. CASE tail'[e] = tail[e] \/ tail'[e] = detached[e] BY <1>3, <1>9, <2>2, <3>2
    <3> QED BY <1>9, <2>1, <3>1, <3>2 DEF TailFlow
  <2> QED BY <1>2, <2>2, <2>3 DEF Used, Ready
<1>10. ASSUME NEW e \in Executors, NEW f \in heap'[e], dep'[f] # None PROVE Ready(f)'
  <2>1. HeapFlow(e) BY <1>1 DEF QueueFlow
  <2>2. CASE f \in heap[e]
    <3>1. f \in Futures /\ Used(f) BY <2>2, UsedNow
    <3>2. Ready(f) BY <1>2, <1>10, <2>2, <3>1 DEF ChainInv
    <3> QED BY <1>2, <3>1, <3>2
  <2>3. CASE f \in Futures /\ \E d \in FutureOrNone : Accept(f, e, d) /\ ~MustPark(d)
    <3>1. PICK d \in FutureOrNone : Accept(f, e, d) /\ ~MustPark(d) BY <2>3
    <3>2. dep'[f] = d /\ ready' = ready BY <2>3, <3>1, AcceptOpens
    <3> QED BY <1>10, <3>1, <3>2 DEF MustPark, Ready
  <2>4. CASE \E t \in Threads : PromotePush(t) /\ f = cur[t]
    <3>1. PICK t \in Threads : PromotePush(t) /\ f = cur[t] BY <2>4
    <3>2. pc[t] = "push" BY <3>1 DEF PromotePush
    <3> QED BY <1>2, <1>3, <3>1, <3>2
  <2> QED BY <2>1, <2>2, <2>3, <2>4 DEF HeapFlow
<1>11. ASSUME NEW w \in Workers, pc'[w] \in HandPcs, dep'[cur'[w]] # None PROVE Ready(cur[w])'
  <2>1. HandFlow(w) BY <1>1 DEF QueueFlow
  <2>2. PICK f : f = cur'[w] OBVIOUS
  <2>3. f \in Futures /\ Used(f) /\ (dep[f] # None => Ready(f))
    <3>1. CASE pc[w] \in HandPcs /\ cur'[w] = cur[w]
      BY <2>2, <3>1, UsedNow DEF ChainInv, CarryPcs
    <3>2. CASE cur'[w] \in heap[Home[w]]
      BY <2>2, <3>2, UsedNow, Distinct DEF ChainInv
    <3>3. w \notin Executors BY Distinct
    <3> QED BY <1>11, <2>1, <3>1, <3>2, <3>3 DEF HandFlow
  <2> QED BY <1>2, <1>11, <2>2, <2>3 DEF Ready
<1> QED BY <1>6, <1>7, <1>8, <1>9, <1>10, <1>11 DEF ChainInv

LEMMA ChainInit == Init => ChainInv
BY Distinct DEF Init, ChainInv, HandPcs, CurrentPcs

-----------------------------------------------------------------------------
(* A future keeps its antecedent until a thread has released it *)

HoldsFlow(f) ==
    \/ holds'[f] <=> holds[f]
    \/ ~Used(f) /\ \E e \in Executors, d \in FutureOrNone : Accept(f, e, d)
    \/ \E t \in Threads : /\ ~holds'[f] /\ cur[t] = f
                          /\ (t \in Workers /\ ReadAntecedent(t)) \/ Release(t)
StartFlow(f) ==
    \/ runs'[f] = runs[f] /\ heard'[f] = heard[f]
    \/ \E w \in Workers : (ReadAntecedent(w) \/ Run(w)) /\ cur[w] = f

LEMMA HoldsFlows ==
    ASSUME TypeInv, [Next]_vars, NEW f \in Futures
    PROVE  HoldsFlow(f) /\ StartFlow(f)
<1>0. /\ holds \in [Futures -> BOOLEAN] /\ runs \in [Futures -> Nat]
      /\ heard \in [Futures -> Results \cup {"BUSY"}]
  BY DEF TypeInv, TypeOK
<1>1. CASE UNCHANGED vars BY <1>1 DEF vars, HoldsFlow, StartFlow
<1>2. CASE ProgramOwn
  <2>1. UNCHANGED <<runs, heard>>
    BY <1>2 DEF ProgramOwn, Accept, Reject, Cancel, TakeValue, BeginFree, EndFree
  <2>2. ASSUME NEW g \in Futures, NEW e \in Executors, NEW d \in FutureOrNone, Accept(g, e, d)
        PROVE  HoldsFlow(f)
    <3>1. CASE g = f BY <2>2, <3>1, AcceptOpens DEF HoldsFlow
    <3>2. CASE g # f BY <2>2, <3>2, AcceptOpens DEF HoldsFlow
    <3> QED BY <3>1, <3>2
  <2>3. CASE holds' = holds
    <3>1. holds'[f] <=> holds[f] BY <2>3
    <3> QED BY <2>1, <3>1 DEF HoldsFlow, StartFlow
  <2>4. holds' = holds \/ \E g \in Futures, e \in Executors, d \in FutureOrNone : Accept(g, e, d)
    BY <1>2 DEF ProgramOwn, Reject, Cancel, TakeValue, BeginFree, EndFree
  <2> QED BY <2>1, <2>2, <2>3, <2>4 DEF StartFlow
<1>3. ASSUME NEW t \in Threads, (t \in Workers /\ ReadAntecedent(t)) \/ Release(t)
      PROVE  HoldsFlow(f)
  <2>1. ReleaseDependency(cur[t]) BY <1>3 DEF ReadAntecedent, Release
  <2>2. holds' = holds \/ holds' = [holds EXCEPT ![cur[t]] = FALSE]
    BY <2>1 DEF ReleaseDependency
  <2>3. (holds'[f] <=> holds[f]) \/ (cur[t] = f /\ ~holds'[f]) BY <1>0, <2>2
  <2> QED BY <1>3, <2>3 DEF HoldsFlow
<1>4. ASSUME NEW w \in Workers, WorkerOwn(w) PROVE HoldsFlow(f) /\ StartFlow(f)
  <2>1. HoldsFlow(f)
    <3>1. CASE ReadAntecedent(w) BY <1>3, <3>1
    <3>2. CASE ~ReadAntecedent(w)
      <4>1. holds' = holds
        BY <1>4, <3>2 DEF WorkerOwn, Pop, Wait, Check, Run, Publish, PromoteEnd
      <4> QED BY <4>1 DEF HoldsFlow
    <3> QED BY <3>1, <3>2
  <2>2. StartFlow(f)
    <3>1. CASE ReadAntecedent(w) \/ Run(w)
      <4>1. /\ runs' = runs \/ runs' = [runs EXCEPT ![cur[w]] = @ + 1]
            /\ heard' = heard \/ heard' = [heard EXCEPT ![cur[w]] = result[dep[cur[w]]]]
        BY <3>1 DEF ReadAntecedent, Run
      <4>2. (runs'[f] = runs[f] /\ heard'[f] = heard[f]) \/ cur[w] = f BY <1>0, <4>1
      <4> QED BY <3>1, <4>2 DEF StartFlow
    <3>2. CASE ~ReadAntecedent(w) /\ ~Run(w)
      <4>1. UNCHANGED <<runs, heard>>
        BY <1>4, <3>2 DEF WorkerOwn, Pop, Wait, Check, Publish, PromoteEnd
      <4> QED BY <4>1 DEF StartFlow
    <3> QED BY <3>1, <3>2
  <2> QED BY <2>1, <2>2
<1>5. ASSUME NEW t \in Threads, Shared(t) PROVE HoldsFlow(f) /\ StartFlow(f)
  <2>1. UNCHANGED <<runs, heard>>
    BY <1>5 DEF Shared, Release, DestructorCancels, DestructorFrees, Complete, Wake,
                PromoteNext, PromotePush
  <2>2. CASE Release(t) BY <1>3, <2>1, <2>2 DEF StartFlow
  <2>3. CASE ~Release(t)
    <3>1. holds' = holds
      BY <1>5, <2>3 DEF Shared, DestructorCancels, DestructorFrees, Complete, Wake,
                        PromoteNext, PromotePush
    <3> QED BY <2>1, <3>1 DEF HoldsFlow, StartFlow
  <2> QED BY <2>2, <2>3
<1>6. ASSUME NEW e \in Executors, DestroyBegin(e) \/ DestroyerOwn(e)
      PROVE  HoldsFlow(f) /\ StartFlow(f)
  <2>1. UNCHANGED <<holds, runs, heard>>
    BY <1>6 DEF DestroyBegin, DestroyerOwn, DrainNext, DrainEnd, Join, WalkNext, WalkEnd,
                Disposed, Collect, CollectTail, DestroyEnd
  <2> QED BY <2>1 DEF HoldsFlow, StartFlow
<1> QED BY <1>1, <1>2, <1>4, <1>5, <1>6, Steps

(* What a thread with a future in hand does with it. *)
HandSteps(t) ==
    \/ pc'[t] = pc[t] /\ res'[t] = res[t]
    \/ t \in Workers /\ (Check(t) \/ ReadAntecedent(t) \/ Run(t) \/ Publish(t))
    \/ Release(t) \/ (t \in Executors /\ Disposed(t))

LEMMA HandMoves ==
    ASSUME TypeInv, [Next]_vars, NEW t \in Threads, pc[t] \in HandPcs, pc'[t] \in HandPcs
    PROVE  HandSteps(t)
<1>0. TypeOK /\ res \in [Threads -> Results \cup {"BUSY"}] BY DEF TypeInv, TypeOK
<1>1. CASE UNCHANGED vars BY <1>1 DEF vars, HandSteps
<1>2. CASE ProgramOwn
  <2>1. Rests /\ res' = res BY <1>2, ProgramRests
  <2> QED BY <2>1 DEF Rests, HandSteps, HandPcs, CurrentPcs
<1>3. ASSUME NEW u \in Threads, u # t,
             \/ u \in Workers /\ WorkerOwn(u)
             \/ Shared(u)
             \/ u \in Executors /\ (DestroyBegin(u) \/ DestroyerOwn(u))
      PROVE  HandSteps(t)
  <2>1. pc'[t] = pc[t] BY <1>3, OnlyMine DEF HandPcs, CurrentPcs
  <2>2. res' = res \/ \E x : res' = [res EXCEPT ![u] = x]
    BY <1>3 DEF WorkerOwn, Pop, Wait, Check, ReadAntecedent, Run, Publish, PromoteEnd,
                Shared, Release, DestructorCancels, DestructorFrees, Complete, Wake,
                PromoteNext, PromotePush, DestroyBegin, DestroyerOwn, DrainNext, DrainEnd,
                Join, WalkNext, WalkEnd, Disposed, Collect, CollectTail, DestroyEnd
  <2>3. res'[t] = res[t] BY <1>0, <1>3, <2>2
  <2> QED BY <2>1, <2>3 DEF HandSteps
<1>4. CASE t \in Workers /\ WorkerOwn(t)
  <2>1. ~Pop(t) /\ ~Wait(t) /\ ~PromoteEnd(t)
    BY <1>4 DEF Pop, Wait, PromoteEnd, HandPcs, CurrentPcs
  <2> QED BY <1>4, <2>1 DEF WorkerOwn, HandSteps
<1>5. CASE Shared(t)
  <2>1. CASE DestructorCancels(t) \/ DestructorFrees(t)
    BY <2>1 DEF DestructorCancels, DestructorFrees, HandSteps
  <2>2. CASE Complete(t)
    BY <1>0, <2>2, SharedPaths DEF Moves, HandPcs, CurrentPcs
  <2>3. ~Wake(t) /\ ~PromoteNext(t) /\ ~PromotePush(t)
    BY DEF Wake, PromoteNext, PromotePush, HandPcs, CurrentPcs
  <2> QED BY <1>5, <2>1, <2>2, <2>3 DEF Shared, HandSteps
<1>6. CASE t \in Executors /\ (DestroyBegin(t) \/ DestroyerOwn(t))
  <2>1. DestroyerPlace(t) BY <1>6 DEF TypeInv, ControlInv
  <2>2. CASE DestroyBegin(t)
    <3>1. pc[t] = "idle" BY <2>1, <2>2 DEF DestroyBegin, DestroyerPlace
    <3> QED BY <3>1 DEF HandPcs, CurrentPcs
  <2>3. CASE Join(t) BY <2>3 DEF Join, HandSteps
  <2>4. CASE ~DestroyBegin(t) /\ ~Join(t) /\ ~Disposed(t)
    BY <1>0, <1>6, <2>4, DestroyerPaths DEF DestroyerOwn, HandPcs, CurrentPcs
  <2> QED BY <1>6, <2>2, <2>3, <2>4 DEF HandSteps
<1> QED BY <1>1, <1>2, <1>3, <1>4, <1>5, <1>6, Steps

(* What is in a queue is in nobody's hands. *)
LEMMA QueuedAlone ==
    ASSUME PlaceInv, NEW e \in Executors, NEW f, f \in heap[e] \/ Registered(e, f),
           NEW t, t \in Threads, pc[t] \in HandPcs
    PROVE  cur[t] # f
<1>1. home[f] = e BY DEF PlaceInv, HeapPlace, ParkedPlace, Registered
<1> QED BY <1>1 DEF PlaceInv, HandPlace

LEMMA HoldsStep == TypeInv /\ LinkInv /\ PlaceInv /\ HoldsInv /\ [Next]_vars => HoldsInv'
<1> SUFFICES ASSUME TypeInv, LinkInv, PlaceInv, HoldsInv, [Next]_vars PROVE HoldsInv'
  OBVIOUS
<1>1. Grows /\ QueueFlow BY NextGrows, QueueFlows
<1>2. \A x \in Futures : Used(x) => Used(x)' /\ dep'[x] = dep[x] BY <1>1 DEF Grows
<1>3. ASSUME NEW t \in Threads, (t \in Workers /\ ReadAntecedent(t)) \/ Release(t)
      PROVE  pc[t] \in HandPcs
  BY <1>3 DEF ReadAntecedent, Release, HandPcs, CurrentPcs
<1>4. ASSUME NEW e \in Executors, NEW f \in Futures, f \in heap[e] \/ Registered(e, f)
      PROVE  Used(f) /\ (holds'[f] <=> holds[f])
  <2>1. Used(f) BY <1>4, UsedNow DEF Registered
  <2>2. HoldsFlow(f) BY HoldsFlows
  <2> QED BY <1>3, <1>4, <2>1, <2>2, QueuedAlone DEF HoldsFlow
<1>5. ASSUME NEW f \in Futures, holds'[f]
      PROVE  Used(f)' /\ ~ready'[f] /\ dep'[f] # None
  <2>1. CASE holds[f]
    <3>1. Used(f) /\ ~ready[f] /\ dep[f] # None BY <2>1 DEF HoldsInv
    <3>2. ASSUME NEW t \in Threads, Complete(t), cur[t] = f PROVE FALSE
      <4>1. pc[t] = "complete" BY <3>2 DEF Complete
      <4>2. ~holds[f] BY <3>2, <4>1 DEF HoldsInv, Keeping, HandPcs, CurrentPcs
      <4> QED BY <2>1, <4>2
    <3>3. ReadyFlow(f) BY <1>1 DEF QueueFlow
    <3> QED BY <1>2, <3>1, <3>2, <3>3 DEF ReadyFlow
  <2>2. CASE ~holds[f]
    <3>1. HoldsFlow(f) BY HoldsFlows
    <3>2. PICK e \in Executors, d \in FutureOrNone : Accept(f, e, d)
      BY <1>5, <2>2, <3>1 DEF HoldsFlow
    <3>3. ~Used(f) /\ Used(f)' /\ dep'[f] = d /\ d # None /\ ready' = ready
      BY <1>5, <3>2, AcceptOpens
    <3> QED BY <3>3, UsedNow
  <2> QED BY <2>1, <2>2
<1>6. ASSUME NEW e \in Executors, NEW f \in heap'[e], dep'[f] # None PROVE holds'[f]
  <2>1. CASE f \in heap[e]
    <3>1. f \in Futures /\ Used(f) BY <2>1, UsedNow
    <3>2. holds[f] BY <1>2, <1>6, <2>1, <3>1 DEF HoldsInv
    <3> QED BY <1>4, <2>1, <3>1, <3>2
  <2>2. CASE f \in Futures /\ \E d \in FutureOrNone : Accept(f, e, d) /\ ~MustPark(d)
    BY <1>6, <2>2, AcceptOpens
  <2>3. CASE f \notin heap[e] /\ \E t \in Threads : PromotePush(t) /\ f = cur[t]
    <3>1. PICK t \in Threads : PromotePush(t) /\ f = cur[t] BY <2>3
    <3>2. pc[t] = "push" /\ f \in Futures BY <3>1, UsedNow DEF PromotePush, CarryPcs
    <3>3. PICK x : x = home[f] OBVIOUS
    <3>4. x \in Executors BY <3>1, <3>2, <3>3, UsedNow DEF TypeInv, UsedInv, CarryPcs
    <3>5. ~Stopping(x)
      <4>1. Stopping(x) => heap' = heap BY <3>1, <3>3 DEF PromotePush
      <4> QED BY <2>3, <4>1
    <3>6. Registered(x, f)
      <4>1. Target[<<"cur", t>>] = f /\ <<"cur", t>> \in Links BY <3>1, <3>2, LinkAt
      <4> QED BY <3>2, <3>3, <3>5, <4>1, Distinct DEF LinkInv
    <3>7. holds[f] BY <3>4, <3>6 DEF HoldsInv, Registered
    <3> QED BY <1>4, <3>2, <3>4, <3>6, <3>7
  <2> QED BY <1>1, <2>1, <2>2, <2>3 DEF QueueFlow, HeapFlow
<1>7. ASSUME NEW e \in Executors, NEW i \in DOMAIN parked'[e]
      PROVE  dep'[parked'[e][i]] # None /\ holds'[parked'[e][i]]
  <2>1. PICK f : f = parked'[e][i] OBVIOUS
  <2>2. CASE Registered(e, f)
    <3>1. f \in Futures /\ Used(f) BY <2>2, UsedNow DEF Registered
    <3>2. holds[f] /\ dep[f] # None BY <2>2 DEF HoldsInv, Registered
    <3> QED BY <1>2, <1>4, <2>1, <2>2, <3>1, <3>2
  <2>3. CASE \E d \in Futures : f \in Futures /\ Accept(f, e, d)
    BY <2>1, <2>3, AcceptOpens, Distinct
  <2> QED BY <1>1, <2>1, <2>2, <2>3 DEF QueueFlow, ParkedFlow
<1>8. ASSUME NEW t \in Threads, pc'[t] \in HandPcs
      PROVE  /\ holds'[cur'[t]] <=> Keeping(t)' /\ dep'[cur'[t]] # None
             /\ pc'[t] = "release" => holds'[cur'[t]]
  <2>1. PICK f : f = cur'[t] OBVIOUS
  <2>2. HandFlow(t) BY <1>1 DEF QueueFlow
  <2>3. CASE pc[t] \in HandPcs /\ f = cur[t]
    <3>1. f \in Futures /\ Used(f) BY <2>3, UsedNow DEF CarryPcs
    <3>2. /\ holds[f] <=> Keeping(t) /\ dep[f] # None
          /\ pc[t] = "release" => holds[f]
      BY <2>3 DEF HoldsInv
    <3>3. dep'[f] = dep[f] BY <1>2, <3>1
    <3>4. CASE (t \in Workers /\ ReadAntecedent(t)) \/ Release(t)
      <4>1. ReleaseDependency(f) BY <2>3, <3>4 DEF ReadAntecedent, Release
      <4>2. ~holds'[f]
        <5>1. holds' = [holds EXCEPT ![f] = FALSE] \/ (holds' = holds /\ ~holds[f])
          BY <4>1 DEF ReleaseDependency
        <5> QED BY <3>1, <5>1 DEF TypeInv, TypeOK
      <4>3. ~Keeping(t)' /\ pc'[t] # "release"
        <5>1. CASE t \in Workers /\ ReadAntecedent(t)
          <6>1. pc'[t] = "run" BY <5>1, WorkerPaths DEF TypeInv, Moves
          <6> QED BY <6>1 DEF Keeping
        <5>2. CASE Release(t)
          <6>1. pc'[t] = IF t \in Workers THEN "callback" ELSE "complete"
            BY <5>2, SharedPaths DEF TypeInv, Moves
          <6> QED BY <6>1, Distinct DEF Keeping
        <5> QED BY <3>4, <5>1, <5>2
      <4> QED BY <2>1, <4>2, <4>3
    <3>5. CASE ~(t \in Workers /\ ReadAntecedent(t)) /\ ~Release(t)
      <4>1. holds'[f] <=> holds[f]
        <5>1. HoldsFlow(f) BY <3>1, HoldsFlows
        <5>2. ASSUME NEW u \in Threads, cur[u] = f, (u \in Workers /\ ReadAntecedent(u)) \/ Release(u)
              PROVE  FALSE
          <6>1. InHand(u, f) BY <1>3, <5>2 DEF InHand
          <6>2. u = t BY <2>3, <6>1 DEF PlaceInv, HandPlace
          <6> QED BY <3>5, <5>2, <6>2
        <5> QED BY <3>1, <5>1, <5>2 DEF HoldsFlow
      <4>2. HandSteps(t) BY <1>8, <2>3, HandMoves
      <4>3. CASE pc'[t] = pc[t] BY <2>1, <3>2, <3>3, <4>1, <4>3 DEF Keeping
      <4>4. CASE t \in Workers /\ Check(t)
        <5>1. /\ pc[t] = "check"
              /\ pc'[t] = IF cancelled[f] THEN IF holds[f] THEN "release" ELSE "callback"
                          ELSE IF dep[f] # None THEN "antecedent" ELSE "run"
          BY <2>3, <4>4, WorkerPaths DEF TypeInv, Moves
        <5> QED BY <2>1, <3>2, <3>3, <4>1, <4>4, <5>1, Distinct DEF Keeping
      <4>5. CASE t \in Workers /\ Run(t)
        <5>1. pc[t] = "run" /\ pc'[t] = IF holds[f] THEN "release" ELSE "callback"
          BY <2>3, <4>5, WorkerPaths DEF TypeInv, Moves
        <5> QED BY <2>1, <3>2, <3>3, <4>1, <4>5, <5>1, Distinct DEF Keeping
      <4>6. CASE t \in Workers /\ Publish(t)
        <5>1. pc[t] = "callback" /\ pc'[t] = "complete"
          BY <4>6, WorkerPaths DEF TypeInv, Moves
        <5> QED BY <2>1, <3>2, <3>3, <4>1, <4>6, <5>1, Distinct DEF Keeping
      <4>7. CASE t \in Executors /\ Disposed(t)
        <5>1. pc[t] = "callback" /\ pc'[t] = IF holds[f] THEN "release" ELSE "complete"
          BY <2>3, <4>7, DestroyerPaths DEF TypeInv, Moves
        <5> QED BY <2>1, <3>2, <3>3, <4>1, <4>7, <5>1, Distinct DEF Keeping
      <4> QED BY <3>5, <4>2, <4>3, <4>4, <4>5, <4>6, <4>7 DEF HandSteps
    <3> QED BY <3>4, <3>5
  <2>4. CASE t \in Workers /\ f \in heap[Home[t]] /\ pc'[t] = "check"
    <3>1. f \in Futures /\ Used(f) /\ Home[t] \in Executors BY <2>4, UsedNow, Distinct
    <3>2. holds'[f] <=> holds[f] BY <1>4, <2>4, <3>1
    <3>3. holds[f] <=> dep[f] # None BY <2>4, <3>1 DEF HoldsInv
    <3> QED BY <1>2, <2>1, <2>4, <3>1, <3>2, <3>3 DEF Keeping
  <2>5. CASE t \in Executors /\ (f \in heap[t] \/ Registered(t, f)) /\ pc'[t] = "callback"
    <3>1. f \in Futures /\ Used(f) BY <2>5, UsedNow DEF Registered
    <3>2. holds'[f] <=> holds[f] BY <1>4, <2>5, <3>1
    <3>3. holds[f] <=> dep[f] # None BY <2>5, <3>1 DEF HoldsInv, Registered
    <3> QED BY <1>2, <2>1, <2>5, <3>1, <3>2, <3>3 DEF Keeping
  <2> QED BY <1>8, <2>1, <2>2, <2>3, <2>4, <2>5 DEF HandFlow
<1> QED BY <1>5, <1>6, <1>7, <1>8 DEF HoldsInv

LEMMA HoldsInit == Init => HoldsInv
BY DEF Init, HoldsInv, HandPcs, CurrentPcs

-----------------------------------------------------------------------------
(* What a task was given and returned *)

LEMMA RanUsed ==
    ASSUME NEW w \in Threads, ReadAntecedent(w) \/ Run(w)
    PROVE  pc[w] \in HandPcs /\ pc[w] \in {"antecedent", "run"}
BY DEF ReadAntecedent, Run, HandPcs, CurrentPcs

(* A future that is in no worker's hands does not start. *)
LEMMA NotStarted ==
    ASSUME TypeInv, PlaceInv, [Next]_vars, NEW f \in Futures,
           \A w \in Workers : ~((ReadAntecedent(w) \/ Run(w)) /\ cur[w] = f)
    PROVE  runs'[f] = runs[f] /\ heard'[f] = heard[f]
BY HoldsFlows DEF StartFlow

LEMMA OutcomeStep ==
    TypeInv /\ LinkInv /\ PlaceInv /\ HoldsInv /\ ChainInv /\ OutcomeInv /\ [Next]_vars
       => OutcomeInv'
<1> SUFFICES ASSUME TypeInv, LinkInv, PlaceInv, HoldsInv, ChainInv, OutcomeInv, [Next]_vars
             PROVE  OutcomeInv'
  OBVIOUS
<1>1. Grows /\ QueueFlow /\ TypeInv' BY NextGrows, QueueFlows, TypeStep
<1>2. \A x \in Futures : Used(x) => Used(x)' /\ dep'[x] = dep[x] BY <1>1 DEF Grows
<1>3. /\ result \in [Futures -> Results \cup {"BUSY"}] /\ ready \in [Futures -> BOOLEAN]
      /\ res \in [Threads -> Results \cup {"BUSY"}] /\ runs \in [Futures -> Nat]
      /\ heard \in [Futures -> Results \cup {"BUSY"}] /\ TypeOK
      /\ alloc \in [Futures -> {"unused", "live", "closing", "freed"}]
  BY DEF TypeInv, TypeOK
<1>4. ASSUME NEW f \in Futures, alloc'[f] = "freed" PROVE ready'[f]
  <2>1. CASE alloc[f] = "freed" BY <1>1, <2>1 DEF OutcomeInv, Grows
  <2>2. CASE alloc[f] # "freed"
    <3>1. ready[f]
      <4>1. CASE \E g \in Futures : EndFree(g)
        <5>1. PICK g \in Futures : EndFree(g) BY <4>1
        <5>2. alloc' = [alloc EXCEPT ![g] = "freed"] /\ ready[g] BY <5>1 DEF EndFree, Freeable
        <5> QED BY <1>3, <1>4, <2>2, <5>2
      <4>2. CASE \E t \in Threads : DestructorFrees(t)
        <5>1. PICK g \in Futures : alloc' = [alloc EXCEPT ![g] = "freed"] /\ ready[g]
          BY <4>2 DEF DestructorFrees, Freeable
        <5> QED BY <1>3, <1>4, <2>2, <5>1
      <4>3. CASE \E g \in Futures : BeginFree(g)
        <5>1. PICK g \in Futures : alloc' = [alloc EXCEPT ![g] = "closing"]
          BY <4>3 DEF BeginFree
        <5> QED BY <1>3, <1>4, <2>2, <5>1
      <4>4. CASE \E g \in Futures, e \in Executors, d \in FutureOrNone : Accept(g, e, d)
        <5>1. PICK g \in Futures : alloc' = [alloc EXCEPT ![g] = "live"]
          BY <4>4, ZenonT(60) DEF Accept
        <5> QED BY <1>3, <1>4, <2>2, <5>1
      <4>5. CASE alloc' = alloc BY <1>4, <2>2, <4>5
      <4>6. ASSUME NEW t \in Threads, Shared(t) PROVE DestructorFrees(t) \/ alloc' = alloc
        BY <4>6 DEF Shared, Release, DestructorCancels, Complete, Wake, PromoteNext, PromotePush
      <4>7. ASSUME NEW w \in Workers, WorkerOwn(w) PROVE alloc' = alloc
        BY <4>7 DEF WorkerOwn, Pop, Wait, Check, ReadAntecedent, Run, Publish, PromoteEnd
      <4>8. ASSUME NEW e \in Executors, DestroyBegin(e) \/ DestroyerOwn(e) PROVE alloc' = alloc
        BY <4>8 DEF DestroyBegin, DestroyerOwn, DrainNext, DrainEnd, Join, WalkNext, WalkEnd,
                    Disposed, Collect, CollectTail, DestroyEnd
      <4>9. CASE ProgramOwn
        <5>1. \/ alloc' = alloc
              \/ \E g \in Futures : BeginFree(g) \/ EndFree(g)
              \/ \E g \in Futures, e \in Executors, d \in FutureOrNone : Accept(g, e, d)
          BY <4>9 DEF ProgramOwn, Reject, Cancel, TakeValue
        <5> QED BY <4>1, <4>3, <4>4, <4>5, <5>1
      <4>10. CASE UNCHANGED vars BY <4>5, <4>10 DEF vars
      <4> QED BY <4>2, <4>5, <4>6, <4>7, <4>8, <4>9, <4>10, Steps
    <3> QED BY <1>1, <3>1 DEF Grows
  <2> QED BY <2>1, <2>2
<1>5. ASSUME NEW f \in Futures, ready'[f] PROVE result'[f] \in Results
  <2>1. ASSUME NEW t \in Threads, Complete(t), cur[t] = f PROVE result'[f] \in Results
    <3>1. pc[t] = "complete" /\ result' = [result EXCEPT ![f] = res[t]] BY <2>1 DEF Complete
    <3>2. res[t] \in Results BY <3>1 DEF OutcomeInv
    <3> QED BY <1>3, <3>1, <3>2
  <2>2. CASE ready[f]
    <3>1. result[f] \in Results BY <2>2 DEF OutcomeInv
    <3>2. result' = result \/ \E t \in Threads : Complete(t)
      <4>1. ProgramOwn => result' = result BY ProgramRests
      <4>2. \A w \in Workers : WorkerOwn(w) => result' = result
        BY DEF WorkerOwn, Pop, Wait, Check, ReadAntecedent, Run, Publish, PromoteEnd
      <4>3. \A t \in Threads : Shared(t) => Complete(t) \/ result' = result
        BY DEF Shared, Release, DestructorCancels, DestructorFrees, Wake, PromoteNext, PromotePush
      <4>4. \A e \in Executors : DestroyBegin(e) \/ DestroyerOwn(e) => result' = result
        BY DEF DestroyBegin, DestroyerOwn, DrainNext, DrainEnd, Join, WalkNext, WalkEnd,
               Disposed, Collect, CollectTail, DestroyEnd
      <4>5. UNCHANGED vars => result' = result BY DEF vars
      <4> QED BY <4>1, <4>2, <4>3, <4>4, <4>5, Steps
    <3>3. ASSUME NEW t \in Threads, Complete(t), cur[t] # f PROVE result'[f] = result[f]
      <4>1. result' = [result EXCEPT ![cur[t]] = res[t]] BY <3>3 DEF Complete
      <4> QED BY <1>3, <3>3, <4>1
    <3> QED BY <2>1, <3>1, <3>2, <3>3
  <2>3. ReadyFlow(f) BY <1>1 DEF QueueFlow
  <2> QED BY <1>5, <2>1, <2>2, <2>3 DEF ReadyFlow
<1>6. ASSUME NEW f \in Futures, Unstarted(f),
             \A w \in Workers : ~((ReadAntecedent(w) \/ Run(w)) /\ cur[w] = f)
      PROVE  runs'[f] = 0 /\ heard'[f] = "BUSY"
  BY <1>6, NotStarted DEF Unstarted
<1>7. ASSUME NEW f \in Futures, ~Used(f) PROVE runs'[f] = 0 /\ heard'[f] = "BUSY"
  <2>1. \A w \in Workers : (ReadAntecedent(w) \/ Run(w)) => Used(cur[w])
    BY RanUsed, UsedNow DEF CarryPcs
  <2>2. Unstarted(f) BY <1>7 DEF OutcomeInv
  <2> QED BY <1>6, <1>7, <2>1, <2>2
<1>8. ASSUME NEW e \in Executors, NEW f \in Futures, f \in heap[e] \/ Registered(e, f)
      PROVE  runs'[f] = 0 /\ heard'[f] = "BUSY"
  <2>1. Unstarted(f) BY <1>8 DEF OutcomeInv, Registered
  <2>2. \A w \in Workers : (ReadAntecedent(w) \/ Run(w)) => cur[w] # f
    BY <1>8, RanUsed, QueuedAlone
  <2> QED BY <1>6, <2>1, <2>2
<1>9. ASSUME NEW f \in Futures, ~Used(f)' PROVE Unstarted(f)'
  <2>1. ~Used(f) BY <1>2, <1>9
  <2> QED BY <1>7, <2>1 DEF Unstarted
<1>10. ASSUME NEW e \in Executors, NEW f \in heap'[e] PROVE Unstarted(f)'
  <2>0. f \in Futures BY <1>1 DEF TypeInv, TypeOK
  <2>1. CASE f \in heap[e] BY <1>8, <2>0, <2>1 DEF Unstarted
  <2>2. CASE \E d \in FutureOrNone : Accept(f, e, d)
    <3>1. ~Used(f) BY <2>0, <2>2, AcceptOpens
    <3> QED BY <1>7, <2>0, <3>1 DEF Unstarted
  <2>3. CASE f \notin heap[e] /\ \E t \in Threads : PromotePush(t) /\ f = cur[t]
    <3>1. PICK t \in Threads : PromotePush(t) /\ f = cur[t] BY <2>3
    <3>2. pc[t] = "push" /\ f \in Futures BY <3>1, UsedNow DEF PromotePush, CarryPcs
    <3>3. PICK x : x = home[f] OBVIOUS
    <3>4. x \in Executors BY <3>1, <3>2, <3>3, UsedNow DEF TypeInv, UsedInv, CarryPcs
    <3>5. ~Stopping(x)
      <4>1. Stopping(x) => heap' = heap BY <3>1, <3>3 DEF PromotePush
      <4> QED BY <2>3, <4>1
    <3>6. Registered(x, f)
      <4>1. Target[<<"cur", t>>] = f /\ <<"cur", t>> \in Links BY <3>1, <3>2, LinkAt
      <4> QED BY <3>2, <3>3, <3>5, <4>1, Distinct DEF LinkInv
    <3> QED BY <1>8, <3>2, <3>4, <3>6 DEF Unstarted
  <2> QED BY <1>1, <2>1, <2>2, <2>3 DEF QueueFlow, HeapFlow
<1>11. ASSUME NEW e \in Executors, NEW i \in DOMAIN parked'[e] PROVE Unstarted(parked[e][i])'
  <2>1. PICK f : f = parked'[e][i] OBVIOUS
  <2>2. CASE Registered(e, f)
    <3>1. f \in Futures BY <2>2, UsedNow DEF Registered
    <3> QED BY <1>8, <2>1, <2>2, <3>1 DEF Unstarted
  <2>3. CASE \E d \in Futures : f \in Futures /\ Accept(f, e, d)
    <3>1. ~Used(f) /\ f \in Futures BY <2>3, AcceptOpens
    <3> QED BY <1>7, <2>1, <3>1 DEF Unstarted
  <2> QED BY <1>1, <2>1, <2>2, <2>3 DEF QueueFlow, ParkedFlow
<1>12. ASSUME NEW t \in Threads, pc'[t] \in HandPcs
       PROVE  /\ pc'[t] \in {"check", "antecedent", "release"} => Unstarted(cur[t])'
              /\ t \in Executors => Unstarted(cur[t])'
              /\ pc'[t] = "run" => (dep'[cur'[t]] = None <=> Unstarted(cur[t])')
              /\ pc'[t] \in {"release", "callback", "complete"} =>
                    /\ res'[t] \in Results
                    /\ Unstarted(cur[t])' => res'[t] = "CANCELLED"
  <2>1. PICK f : f = cur'[t] OBVIOUS
  <2> DEFINE New == runs'[f] = 0 /\ heard'[f] = "BUSY"
  <2>2. HandFlow(t) BY <1>1 DEF QueueFlow
  <2>3. CASE pc[t] \in HandPcs /\ f = cur[t]
    <3>1. f \in Futures /\ Used(f) BY <2>3, UsedNow DEF CarryPcs
    <3>2. dep'[f] = dep[f] BY <1>2, <3>1
    <3>3. /\ pc[t] \in {"check", "antecedent", "release"} => Unstarted(f)
          /\ t \in Executors => Unstarted(f)
          /\ pc[t] = "run" => (dep[f] = None <=> Unstarted(f))
          /\ pc[t] \in {"release", "callback", "complete"} =>
                /\ res[t] \in Results
                /\ Unstarted(f) => res[t] = "CANCELLED"
      BY <2>3 DEF OutcomeInv
    <3>4. /\ holds[f] <=> Keeping(t) /\ dep[f] # None
          /\ pc[t] = "release" => holds[f]
          /\ pc[t] = "antecedent" => dep[f] # None
      BY <2>3 DEF HoldsInv, TypeInv, ControlInv, Carries
    <3>5. HandSteps(t) BY <1>12, <2>3, HandMoves
    <3>6. ASSUME ~(t \in Workers /\ (ReadAntecedent(t) \/ Run(t))) PROVE New <=> Unstarted(f)
      <4>1. ASSUME NEW w \in Workers, ReadAntecedent(w) \/ Run(w), cur[w] = f PROVE FALSE
        <5>1. InHand(w, f) BY <4>1, RanUsed DEF InHand
        <5>2. w = t BY <2>3, <5>1 DEF PlaceInv, HandPlace
        <5> QED BY <3>6, <4>1, <5>2
      <4>2. runs'[f] = runs[f] /\ heard'[f] = heard[f] BY <3>1, <4>1, NotStarted
      <4> QED BY <4>2 DEF Unstarted
    <3>7. CASE pc'[t] = pc[t] /\ res'[t] = res[t] /\ ~(t \in Workers /\ (ReadAntecedent(t) \/ Run(t)))
      <4>1. New <=> Unstarted(f) BY <3>6, <3>7
      <4> QED BY <2>1, <3>2, <3>3, <3>7, <4>1 DEF Unstarted
    <3>8. CASE t \in Workers /\ Check(t)
      <4>1. /\ pc[t] = "check"
            /\ pc'[t] = IF cancelled[f] THEN IF holds[f] THEN "release" ELSE "callback"
                        ELSE IF dep[f] # None THEN "antecedent" ELSE "run"
        BY <2>3, <3>8, WorkerPaths DEF TypeInv, Moves
      <4>2. cancelled[f] => res' = [res EXCEPT ![t] = "CANCELLED"] BY <2>3, <3>8 DEF Check
      <4>3. cancelled[f] => res'[t] = "CANCELLED" /\ "CANCELLED" \in Results
        BY <1>3, <4>2 DEF Results
      <4>4. ~ReadAntecedent(t) /\ ~Run(t) BY <4>1 DEF ReadAntecedent, Run
      <4>5. Unstarted(cur[t])' BY <2>1, <3>3, <3>6, <4>1, <4>4 DEF Unstarted
      <4> QED BY <2>1, <3>2, <3>8, <4>1, <4>3, <4>5, Distinct
    <3>9. CASE t \in Workers /\ ReadAntecedent(t)
      <4>1. pc[t] = "antecedent" /\ pc'[t] = "run" BY <3>9, WorkerPaths DEF TypeInv, Moves
      <4>2. heard' = [heard EXCEPT ![f] = result[dep[f]]] BY <2>3, <3>9 DEF ReadAntecedent
      <4>3. Ready(f) BY <2>3, <3>4, <3>9, <4>1 DEF ChainInv
      <4>4. dep[f] # None /\ dep[f] \in Futures /\ ready[dep[f]]
        BY <3>1, <4>3, UsedNow DEF Ready
      <4>5. result[dep[f]] \in Results BY <4>4 DEF OutcomeInv
      <4>6. heard'[f] \in Results BY <1>3, <3>1, <4>2, <4>5
      <4>7. ~Unstarted(cur[t])' BY <2>1, <4>6 DEF Unstarted, Results
      <4> QED BY <2>1, <3>2, <3>9, <4>1, <4>4, <4>7, Distinct
    <3>10. CASE t \in Workers /\ Run(t)
      <4>1. pc[t] = "run" /\ pc'[t] = IF holds[f] THEN "release" ELSE "callback"
        BY <2>3, <3>10, WorkerPaths DEF TypeInv, Moves
      <4>2. ~holds[f] BY <3>4, <3>10, <4>1, Distinct DEF Keeping
      <4>3. \E r \in Outcomes : res' = [res EXCEPT ![t] = r] BY <3>10 DEF Run
      <4>4. res'[t] \in Results BY <1>3, <4>3, ConstantsAssumption
      <4>5. runs' = [runs EXCEPT ![f] = @ + 1] BY <2>3, <3>10 DEF Run
      <4>6. runs'[f] # 0 BY <1>3, <3>1, <4>5
      <4>7. ~Unstarted(cur[t])' BY <2>1, <4>6 DEF Unstarted
      <4> QED BY <3>10, <4>1, <4>2, <4>4, <4>7, Distinct
    <3>11. CASE t \in Workers /\ Publish(t)
      <4>1. pc[t] = "callback" /\ pc'[t] = "complete" /\ res' = res
        BY <3>11, WorkerPaths DEF TypeInv, Moves, Publish
      <4>2. New <=> Unstarted(f)
        <5>1. ~ReadAntecedent(t) /\ ~Run(t) BY <4>1 DEF ReadAntecedent, Run
        <5> QED BY <3>6, <5>1
      <4> QED BY <2>1, <3>3, <3>11, <4>1, <4>2, Distinct DEF Unstarted
    <3>12. CASE Release(t)
      <4>1. /\ pc[t] = "release" /\ pc'[t] \in {"callback", "complete"} /\ res' = res
        BY <3>12, SharedPaths DEF TypeInv, Moves, Release
      <4>2. New <=> Unstarted(f)
        <5>1. ~ReadAntecedent(t) /\ ~Run(t) BY <4>1 DEF ReadAntecedent, Run
        <5> QED BY <3>6, <5>1
      <4> QED BY <2>1, <3>3, <4>1, <4>2 DEF Unstarted
    <3>13. CASE t \in Executors /\ Disposed(t)
      <4>1. /\ pc[t] = "callback" /\ pc'[t] \in {"release", "complete"} /\ res' = res
        BY <3>13, DestroyerPaths DEF TypeInv, Moves, Disposed
      <4>2. New <=> Unstarted(f)
        <5>1. ~ReadAntecedent(t) /\ ~Run(t) BY <4>1 DEF ReadAntecedent, Run
        <5> QED BY <3>6, <5>1
      <4> QED BY <2>1, <3>3, <3>13, <4>1, <4>2 DEF Unstarted
    <3> QED BY <3>5, <3>7, <3>8, <3>9, <3>10, <3>11, <3>12, <3>13 DEF HandSteps
  <2>4. CASE t \in Workers /\ f \in heap[Home[t]] /\ pc'[t] = "check"
    <3>1. f \in Futures /\ Home[t] \in Executors BY <2>4, UsedNow, Distinct
    <3>2. Unstarted(cur[t])' BY <1>8, <2>1, <2>4, <3>1 DEF Unstarted
    <3> QED BY <2>4, <3>2, Distinct
  <2>5. CASE /\ t \in Executors /\ (f \in heap[t] \/ Registered(t, f)) /\ pc'[t] = "callback"
             /\ DrainNext(t) \/ WalkNext(t)
    <3>1. f \in Futures BY <2>5, UsedNow DEF Registered
    <3>2. Unstarted(cur[t])' BY <1>8, <2>1, <2>5, <3>1 DEF Unstarted
    <3>3. res' = [res EXCEPT ![t] = "CANCELLED"] BY <2>5 DEF DrainNext, WalkNext
    <3>4. res'[t] = "CANCELLED" BY <1>3, <3>3
    <3> QED BY <2>5, <3>2, <3>4 DEF Results
  <2> QED BY <1>12, <2>1, <2>2, <2>3, <2>4, <2>5 DEF HandFlow
<1>13. ASSUME NEW t \in Threads
       PROVE  /\ pc'[t] \in {"check", "antecedent", "release"} => Unstarted(cur[t])'
              /\ t \in Executors /\ pc'[t] \in HandPcs => Unstarted(cur[t])'
              /\ pc'[t] = "run" => (dep'[cur'[t]] = None <=> Unstarted(cur[t])')
              /\ pc'[t] \in {"release", "callback", "complete"} =>
                    /\ res'[t] \in Results
                    /\ Unstarted(cur[t])' => res'[t] = "CANCELLED"
  <2>1. {"check", "antecedent", "release", "run", "callback", "complete"} \subseteq HandPcs
    BY DEF HandPcs, CurrentPcs
  <2>2. CASE pc'[t] \in HandPcs BY <1>12, <2>2
  <2>3. CASE pc'[t] \notin HandPcs BY <2>1, <2>3
  <2> QED BY <2>2, <2>3
<1> QED BY <1>4, <1>5, <1>9, <1>10, <1>11, <1>13 DEF OutcomeInv

LEMMA OutcomeInit == Init => OutcomeInv
BY DEF Init, OutcomeInv, Unstarted, Used, HandPcs, CurrentPcs

-----------------------------------------------------------------------------
(* The executors implement the graph of futures *)

RefInv == TypeInv /\ LinkInv /\ PlaceInv /\ CountInv /\ HoldsInv /\ ChainInv /\ OutcomeInv
Status == [f \in Futures |-> StatusOf(f)]

LEMMA StatusMoves ==
    ASSUME NEW f \in Futures, NEW v, StatusOf(f)' = v,
           \A g \in Futures : g # f => StatusOf(g)' = StatusOf(g)
    PROVE  Status[f] = StatusOf(f) /\ Status' = [Status EXCEPT ![f] = v]
BY DEF Status

(* What the program can tell about f depends on this. *)
LEMMA StatusSame ==
    ASSUME NEW f \in Futures, alloc'[f] = alloc[f], ready'[f] <=> ready[f], dep'[f] = dep[f],
           runs'[f] = runs[f], heard'[f] = heard[f], holds'[f] <=> holds[f]
    PROVE  StatusOf(f)' = StatusOf(f)
BY DEF StatusOf, Unfinished

LEMMA StatusIs ==
    ASSUME NEW f \in Futures
    PROVE  /\ alloc[f] = "unused" /\ ~ready[f] => StatusOf(f) = "none"
           /\ alloc[f] = "freed" => StatusOf(f) = "gone"
           /\ alloc[f] \notin {"unused", "freed"} =>
                 /\ ready[f] => StatusOf(f) = "done"
                 /\ ~ready[f] /\ ~Unstarted(f) => StatusOf(f) = "running"
                 /\ ~ready[f] /\ Unstarted(f) =>
                      StatusOf(f) = IF dep[f] # None /\ ~holds[f] THEN "skipped" ELSE "waiting"
<1>0. alloc[f] = "unused" /\ ~ready[f] => StatusOf(f) = "none" BY DEF StatusOf, Unfinished
<1>1. alloc[f] = "freed" => StatusOf(f) = "gone" BY DEF StatusOf
<1>2. ASSUME alloc[f] \notin {"unused", "freed"}, ready[f] PROVE StatusOf(f) = "done"
  BY <1>2 DEF StatusOf, Unfinished
<1>3. ASSUME alloc[f] \notin {"unused", "freed"}, ~ready[f], ~Unstarted(f)
      PROVE  StatusOf(f) = "running"
  BY <1>3 DEF StatusOf, Unfinished, Unstarted
<1>4. ASSUME alloc[f] \notin {"unused", "freed"}, ~ready[f], Unstarted(f)
      PROVE  StatusOf(f) = IF dep[f] # None /\ ~holds[f] THEN "skipped" ELSE "waiting"
  BY <1>4 DEF StatusOf, Unfinished, Unstarted
<1> QED BY <1>0, <1>1, <1>2, <1>3, <1>4

LEMMA StatusBecomes ==
    ASSUME NEW f \in Futures
    PROVE  /\ alloc'[f] = "freed" => StatusOf(f)' = "gone"
           /\ alloc'[f] \notin {"unused", "freed"} =>
                 /\ ready'[f] => StatusOf(f)' = "done"
                 /\ ~ready'[f] /\ ~Unstarted(f)' => StatusOf(f)' = "running"
                 /\ ~ready'[f] /\ Unstarted(f)' =>
                      StatusOf(f)' = IF dep'[f] # None /\ ~holds'[f] THEN "skipped" ELSE "waiting"
<1>1. alloc'[f] = "freed" => StatusOf(f)' = "gone" BY DEF StatusOf
<1>2. ASSUME alloc'[f] \notin {"unused", "freed"}, ready'[f] PROVE StatusOf(f)' = "done"
  BY <1>2 DEF StatusOf, Unfinished
<1>3. ASSUME alloc'[f] \notin {"unused", "freed"}, ~ready'[f], ~Unstarted(f)'
      PROVE  StatusOf(f)' = "running"
  BY <1>3 DEF StatusOf, Unfinished, Unstarted
<1>4. ASSUME alloc'[f] \notin {"unused", "freed"}, ~ready'[f], Unstarted(f)'
      PROVE  StatusOf(f)' = IF dep'[f] # None /\ ~holds'[f] THEN "skipped" ELSE "waiting"
  BY <1>4 DEF StatusOf, Unfinished, Unstarted
<1> QED BY <1>1, <1>2, <1>3, <1>4

LEMMA GraphInit == Init => Graph!Init
<1> SUFFICES ASSUME Init PROVE Graph!Init
  OBVIOUS
<1>1. \A f \in Futures : StatusOf(f) = "none" BY StatusIs DEF Init
<1>2. Status = [f \in Futures |-> "none"] BY <1>1 DEF Status
<1> QED BY <1>2 DEF Init, Graph!Init, Status

(* Steps the program cannot tell. *)
LEMMA Stutters ==
    ASSUME UNCHANGED <<dep, result, heard>>, \A f \in Futures : StatusOf(f)' = StatusOf(f)
    PROVE  UNCHANGED Graph!vars
<1>1. Status' = Status BY DEF Status
<1> QED BY <1>1 DEF Graph!vars, Status

(* The future in a thread's hands. *)
LEMMA InHandIs ==
    ASSUME RefInv, NEW t \in Threads, pc[t] \in HandPcs
    PROVE  /\ cur[t] \in Futures /\ Used(cur[t]) /\ ~ready[cur[t]] /\ alloc[cur[t]] # "freed"
           /\ dep[cur[t]] # None => dep[cur[t]] \in Futures
<1>1. cur[t] \in Futures /\ Used(cur[t]) BY UsedNow DEF RefInv, CarryPcs
<1>2. ~ready[cur[t]] BY DEF RefInv, PlaceInv, HandPlace
<1> QED BY <1>1, <1>2, UsedNow DEF RefInv, OutcomeInv

LEMMA SubmitRefines ==
    ASSUME RefInv, NEW f \in Futures, NEW e \in Executors, NEW d \in FutureOrNone, Accept(f, e, d)
    PROVE  Graph!Submit(f, d)
<1>1. /\ alloc[f] = "unused" /\ alloc' = [alloc EXCEPT ![f] = "live"]
      /\ dep' = [dep EXCEPT ![f] = d] /\ holds' = [holds EXCEPT ![f] = d # None]
      /\ UNCHANGED <<ready, result, runs, heard>>
      /\ d # None => d \in Futures /\ alloc[d] = "live"
  BY DEF Accept, MayDepend, Usable
<1>2. /\ alloc \in [Futures -> {"unused", "live", "closing", "freed"}]
      /\ dep \in [Futures -> FutureOrNone] /\ holds \in [Futures -> BOOLEAN]
  BY DEF RefInv, TypeInv, TypeOK
<1>3. ~ready[f] /\ Unstarted(f) BY <1>1, UsedNow DEF RefInv, OutcomeInv, Used
<1>4. StatusOf(f) = "none" BY <1>1, <1>3, StatusIs
<1>5. StatusOf(f)' = "waiting"
  <2>1. alloc'[f] = "live" /\ ~ready'[f] /\ Unstarted(f)' /\ dep'[f] = d /\ (holds'[f] <=> d # None)
    BY <1>1, <1>2, <1>3 DEF Unstarted
  <2> QED BY <2>1, StatusBecomes
<1>6. \A g \in Futures : g # f => StatusOf(g)' = StatusOf(g) BY <1>1, <1>2, StatusSame
<1>7. d # None => StatusOf(d) \notin {"none", "gone"}
  <2>1. ASSUME d # None PROVE StatusOf(d) \in {"done", "running", "skipped", "waiting"}
    BY <1>1, <2>1, StatusIs
  <2> QED BY <2>1
<1>8. Status[f] = "none" /\ Status' = [Status EXCEPT ![f] = "waiting"]
  BY <1>4, <1>5, <1>6, StatusMoves
<1>9. d # None => Status[d] \notin {"none", "gone"} BY <1>1, <1>7 DEF Status
<1> QED BY <1>1, <1>8, <1>9 DEF Graph!Submit, Status

LEMMA ForgetRefines ==
    ASSUME RefInv, NEW f \in Futures, Freeable(f), alloc[f] # "freed",
           alloc' = [alloc EXCEPT ![f] = "freed"],
           UNCHANGED <<dep, holds, ready, result, runs, heard>>
    PROVE  Graph!Forget(f)
<1>1. ready[f] /\ dependents[f] = 0 BY DEF Freeable
<1>2. alloc \in [Futures -> {"unused", "live", "closing", "freed"}] BY DEF RefInv, TypeInv, TypeOK
<1>3. alloc[f] # "unused" BY <1>1, UsedNow DEF RefInv, Used
<1>4. StatusOf(f) = "done" BY <1>1, <1>2, <1>3, StatusIs
<1>5. StatusOf(f)' = "gone" BY <1>2, StatusBecomes
<1>6. \A g \in Futures : g # f => StatusOf(g)' = StatusOf(g) BY <1>2, StatusSame
<1>7. ASSUME NEW g \in Futures, dep[g] = f PROVE StatusOf(g) # "waiting"
  <2>1. ~holds[g]
    <3>1. Cardinality(Dependents(f)) = 0
      BY <1>1 DEF RefInv, CountInv, DependentsCounted, Dependents
    <3>2. IsFiniteSet(Dependents(f))
      BY FS_Subset DEF RefInv, CountInv, UsedFinite, Held, Dependents
    <3>3. Dependents(f) = {} BY <3>1, <3>2, FS_EmptySet
    <3> QED BY <1>7, <3>3 DEF Dependents
  <2>2. dep[g] # None BY <1>7, Distinct
  <2> QED BY <2>1, <2>2 DEF StatusOf, Unfinished
<1>8. Status[f] = "done" /\ Status' = [Status EXCEPT ![f] = "gone"]
  BY <1>4, <1>5, <1>6, StatusMoves
<1>9. \A g \in Futures : dep[g] = f => Status[g] # "waiting" BY <1>7 DEF Status
<1> QED BY <1>8, <1>9 DEF Graph!Forget, Status

LEMMA ReadRefines ==
    ASSUME RefInv, NEW w \in Workers, ReadAntecedent(w)
    PROVE  Graph!Begin(cur[w])
<1> PICK f : f = cur[w]
  OBVIOUS
<1>1. pc[w] = "antecedent" /\ pc[w] \in HandPcs BY DEF ReadAntecedent, HandPcs, CurrentPcs
<1>2. f \in Futures /\ Used(f) /\ ~ready[f] /\ alloc[f] # "freed" BY <1>1, InHandIs
<1>3. /\ heard' = [heard EXCEPT ![f] = result[dep[f]]] /\ ReleaseDependency(f)
      /\ UNCHANGED <<alloc, dep, ready, result, runs>>
  BY DEF ReadAntecedent
<1>4. holds[f] /\ Ready(f) /\ Unstarted(f)
  <2>1. dep[f] # None BY <1>1 DEF RefInv, TypeInv, ControlInv, Carries
  <2>2. holds[f] BY <1>1, <2>1 DEF RefInv, HoldsInv, Keeping
  <2> QED BY <1>1, <2>1, <2>2 DEF RefInv, ChainInv, OutcomeInv
<1>5. holds' = [holds EXCEPT ![f] = FALSE] BY <1>3, <1>4 DEF ReleaseDependency
<1>6. /\ holds \in [Futures -> BOOLEAN] /\ heard \in [Futures -> Results \cup {"BUSY"}]
      /\ dep[f] \in Futures
  BY <1>2, <1>4, UsedNow DEF RefInv, TypeInv, TypeOK, Ready
<1>7. dep[f] # None /\ ready[dep[f]] /\ alloc[dep[f]] \notin {"unused", "freed"}
  <2>1. dep[f] # None /\ ready[dep[f]] BY <1>4 DEF Ready
  <2>2. Used(dep[f]) BY <1>6, <2>1, UsedNow DEF RefInv
  <2>3. alloc[dep[f]] # "freed" BY <1>2, <1>4 DEF RefInv, CountInv, AntecedentKept
  <2> QED BY <2>1, <2>2, <2>3 DEF Used
<1>8. result[dep[f]] \in Results BY <1>6, <1>7 DEF RefInv, OutcomeInv
<1>9. StatusOf(f) = "waiting" BY <1>2, <1>4, StatusIs DEF Used
<1>10. StatusOf(f)' = "running"
  <2>1. heard'[f] \in Results BY <1>2, <1>3, <1>6, <1>8
  <2>2. ~Unstarted(f)' BY <2>1 DEF Unstarted, Results
  <2> QED BY <1>2, <1>3, <2>2, StatusBecomes DEF Used
<1>11. \A g \in Futures : g # f => StatusOf(g)' = StatusOf(g)
  BY <1>3, <1>5, <1>6, StatusSame
<1>12. Status[f] = "waiting" /\ Status' = [Status EXCEPT ![f] = "running"]
  BY <1>2, <1>9, <1>10, <1>11, StatusMoves
<1>13. Status[dep[f]] = "done"
  <2>1. StatusOf(dep[f]) = "done" BY <1>6, <1>7, StatusIs
  <2> QED BY <1>6, <2>1 DEF Status
<1>14. Graph!Begin(f) BY <1>3, <1>7, <1>12, <1>13 DEF Graph!Begin, Status
<1> QED BY <1>14

LEMMA RunRefines ==
    ASSUME RefInv, NEW w \in Workers, Run(w)
    PROVE  Graph!Begin(cur[w]) \/ UNCHANGED Graph!vars
<1> PICK f : f = cur[w]
  OBVIOUS
<1>1. pc[w] = "run" /\ pc[w] \in HandPcs BY DEF Run, HandPcs, CurrentPcs
<1>2. f \in Futures /\ Used(f) /\ ~ready[f] /\ alloc[f] # "freed" BY <1>1, InHandIs
<1>3. /\ runs' = [runs EXCEPT ![f] = @ + 1]
      /\ UNCHANGED <<alloc, dep, holds, ready, result, heard>>
  BY DEF Run
<1>4. runs \in [Futures -> Nat] BY DEF RefInv, TypeInv, TypeOK
<1>5. runs'[f] # 0 BY <1>2, <1>3, <1>4
<1>6. StatusOf(f)' = "running"
  <2>1. ~Unstarted(f)' BY <1>5 DEF Unstarted
  <2> QED BY <1>2, <1>3, <2>1, StatusBecomes DEF Used
<1>7. \A g \in Futures : g # f => StatusOf(g)' = StatusOf(g) BY <1>3, <1>4, StatusSame
<1>8. dep[f] = None <=> Unstarted(f) BY <1>1 DEF RefInv, OutcomeInv
<1>9. CASE dep[f] = None
  <2>1. StatusOf(f) = "waiting" BY <1>2, <1>8, <1>9, StatusIs DEF Used
  <2>2. Status[f] = "waiting" /\ Status' = [Status EXCEPT ![f] = "running"]
    BY <1>2, <1>6, <1>7, <2>1, StatusMoves
  <2>3. Graph!Begin(f) BY <1>3, <1>9, <2>2 DEF Graph!Begin, Status
  <2> QED BY <2>3
<1>10. CASE dep[f] # None
  <2>1. StatusOf(f) = "running" BY <1>2, <1>8, <1>10, StatusIs DEF Used
  <2>2. \A g \in Futures : StatusOf(g)' = StatusOf(g) BY <1>6, <1>7, <2>1
  <2> QED BY <1>3, <2>2, Stutters
<1> QED BY <1>9, <1>10

LEMMA ReleaseRefines ==
    ASSUME RefInv, NEW t \in Threads, Release(t)
    PROVE  Graph!Skip(cur[t])
<1> PICK f : f = cur[t]
  OBVIOUS
<1>1. pc[t] = "release" /\ pc[t] \in HandPcs BY DEF Release, HandPcs, CurrentPcs
<1>2. f \in Futures /\ Used(f) /\ ~ready[f] /\ alloc[f] # "freed" BY <1>1, InHandIs
<1>3. holds[f] /\ Unstarted(f) /\ dep[f] # None BY <1>1, <1>2 DEF RefInv, HoldsInv, OutcomeInv
<1>4. holds' = [holds EXCEPT ![f] = FALSE] /\ UNCHANGED <<alloc, dep, ready, result, runs, heard>>
  BY <1>3 DEF Release, ReleaseDependency
<1>5. holds \in [Futures -> BOOLEAN] BY DEF RefInv, TypeInv, TypeOK
<1>6. StatusOf(f) = "waiting" BY <1>2, <1>3, StatusIs DEF Used
<1>7. StatusOf(f)' = "skipped"
  <2>1. ~holds'[f] /\ Unstarted(f)' BY <1>2, <1>3, <1>4, <1>5 DEF Unstarted
  <2> QED BY <1>2, <1>3, <1>4, <2>1, StatusBecomes DEF Used
<1>8. \A g \in Futures : g # f => StatusOf(g)' = StatusOf(g) BY <1>4, <1>5, StatusSame
<1>9. Status[f] = "waiting" /\ Status' = [Status EXCEPT ![f] = "skipped"]
  BY <1>2, <1>6, <1>7, <1>8, StatusMoves
<1>10. Graph!Skip(f) BY <1>3, <1>4, <1>9 DEF Graph!Skip, Status
<1> QED BY <1>10

LEMMA CompleteRefines ==
    ASSUME RefInv, NEW t \in Threads, Complete(t)
    PROVE  res[t] \in Results /\ Graph!Finish(cur[t], res[t])
<1> PICK f, r : f = cur[t] /\ r = res[t]
  OBVIOUS
<1>1. pc[t] = "complete" /\ pc[t] \in HandPcs BY DEF Complete, HandPcs, CurrentPcs
<1>2. f \in Futures /\ Used(f) /\ ~ready[f] /\ alloc[f] # "freed" BY <1>1, InHandIs
<1>3. /\ result' = [result EXCEPT ![f] = r] /\ ready' = [ready EXCEPT ![f] = TRUE]
      /\ UNCHANGED <<alloc, dep, holds, runs, heard>>
  BY DEF Complete
<1>4. r \in Results /\ (Unstarted(f) => r = "CANCELLED") BY <1>1 DEF RefInv, OutcomeInv
<1>5. ~holds[f] BY <1>1 DEF RefInv, HoldsInv, Keeping
<1>6. ready \in [Futures -> BOOLEAN] BY DEF RefInv, TypeInv, TypeOK
<1>7. StatusOf(f)' = "done" BY <1>2, <1>3, <1>6, StatusBecomes DEF Used
<1>8. \A g \in Futures : g # f => StatusOf(g)' = StatusOf(g) BY <1>3, <1>6, StatusSame
<1>9. \/ StatusOf(f) = "running"
      \/ StatusOf(f) = "skipped" /\ r = "CANCELLED"
      \/ StatusOf(f) = "waiting" /\ dep[f] = None /\ r = "CANCELLED"
  BY <1>2, <1>4, <1>5, StatusIs DEF Used
<1>10. Status[f] = StatusOf(f) /\ Status' = [Status EXCEPT ![f] = "done"]
  BY <1>2, <1>7, <1>8, StatusMoves
<1>11. Graph!Finish(f, r) BY <1>3, <1>9, <1>10 DEF Graph!Finish, Status
<1> QED BY <1>4, <1>11

LEMMA GraphStep == RefInv /\ [Next]_vars => [Graph!Next]_Graph!vars
<1> SUFFICES ASSUME RefInv, [Next]_vars PROVE Graph!Next \/ UNCHANGED Graph!vars
  OBVIOUS
<1>0. TypeInv BY DEF RefInv
<1>1. ASSUME UNCHANGED <<alloc, dep, holds, ready, result, runs, heard>>
      PROVE  UNCHANGED Graph!vars
  <2>1. \A f \in Futures : StatusOf(f)' = StatusOf(f) BY <1>1, StatusSame
  <2> QED BY <1>1, <2>1, Stutters
<1>2. CASE ProgramOwn
  <2>1. ASSUME NEW f \in Futures, NEW e \in Executors, NEW d \in FutureOrNone,
               Accept(f, e, d) \/ Reject(f, e, d)
        PROVE  Graph!Next \/ UNCHANGED Graph!vars
    <3>1. CASE Accept(f, e, d) BY <3>1, SubmitRefines DEF Graph!Next
    <3>2. CASE Reject(f, e, d) BY <1>1, <3>2 DEF Reject
    <3> QED BY <2>1, <3>1, <3>2
  <2>2. ASSUME NEW f \in Futures, Cancel(f) \/ TakeValue(f) \/ BeginFree(f) \/ EndFree(f)
        PROVE  Graph!Next \/ UNCHANGED Graph!vars
    <3>1. CASE Cancel(f) \/ TakeValue(f) BY <1>1, <3>1 DEF Cancel, TakeValue
    <3>2. CASE BeginFree(f)
      <4>1. /\ alloc[f] = "live" /\ alloc' = [alloc EXCEPT ![f] = "closing"]
            /\ UNCHANGED <<dep, holds, ready, result, runs, heard>>
        BY <3>2 DEF BeginFree, Usable
      <4>2. alloc \in [Futures -> {"unused", "live", "closing", "freed"}]
        BY <1>0 DEF TypeInv, TypeOK
      <4>3. StatusOf(f)' = StatusOf(f)
        <5>1. alloc'[f] = "closing" BY <4>1, <4>2
        <5> QED BY <4>1, <5>1, StatusIs, StatusBecomes DEF Unstarted
      <4>4. \A g \in Futures : g # f => StatusOf(g)' = StatusOf(g) BY <4>1, <4>2, StatusSame
      <4> QED BY <4>1, <4>3, <4>4, Stutters
    <3>3. CASE EndFree(f)
      <4>1. /\ Freeable(f) /\ alloc[f] # "freed" /\ alloc' = [alloc EXCEPT ![f] = "freed"]
            /\ UNCHANGED <<dep, holds, ready, result, runs, heard>>
        BY <3>3 DEF EndFree
      <4> QED BY <4>1, ForgetRefines DEF Graph!Next
    <3> QED BY <2>2, <3>1, <3>2, <3>3
  <2> QED BY <1>2, <2>1, <2>2 DEF ProgramOwn
<1>3. ASSUME NEW w \in Workers, WorkerOwn(w) PROVE Graph!Next \/ UNCHANGED Graph!vars
  <2>1. CASE ReadAntecedent(w)
    <3>1. cur[w] \in Futures BY <2>1, RanUsed, InHandIs
    <3> QED BY <2>1, <3>1, ReadRefines DEF Graph!Next
  <2>2. CASE Run(w)
    <3>1. cur[w] \in Futures BY <2>2, RanUsed, InHandIs
    <3> QED BY <2>2, <3>1, RunRefines DEF Graph!Next
  <2>3. CASE ~ReadAntecedent(w) /\ ~Run(w)
    BY <1>1, <1>3, <2>3 DEF WorkerOwn, Pop, Wait, Check, Publish, PromoteEnd
  <2> QED BY <2>1, <2>2, <2>3
<1>4. ASSUME NEW t \in Threads, Shared(t) PROVE Graph!Next \/ UNCHANGED Graph!vars
  <2>1. CASE Release(t)
    <3>1. pc[t] \in HandPcs BY <2>1 DEF Release, HandPcs, CurrentPcs
    <3>2. cur[t] \in Futures BY <3>1, InHandIs
    <3> QED BY <2>1, <3>2, ReleaseRefines DEF Graph!Next
  <2>2. CASE Complete(t)
    <3>1. pc[t] \in HandPcs BY <2>2 DEF Complete, HandPcs, CurrentPcs
    <3>2. cur[t] \in Futures BY <3>1, InHandIs
    <3> QED BY <2>2, <3>2, CompleteRefines DEF Graph!Next
  <2>3. CASE DestructorFrees(t)
    <3>1. PICK g \in Futures : /\ FreesNext(cur[t], g) /\ Freeable(g)
                               /\ alloc' = [alloc EXCEPT ![g] = "freed"]
      BY <2>3 DEF DestructorFrees
    <3>2. alloc[g] # "freed" BY <3>1 DEF FreesNext, LeftToFree
    <3>3. UNCHANGED <<dep, holds, ready, result, runs, heard>> BY <2>3 DEF DestructorFrees
    <3> QED BY <3>1, <3>2, <3>3, ForgetRefines DEF Graph!Next
  <2>4. CASE ~Release(t) /\ ~Complete(t) /\ ~DestructorFrees(t)
    BY <1>1, <1>4, <2>4 DEF Shared, DestructorCancels, Wake, PromoteNext, PromotePush
  <2> QED BY <2>1, <2>2, <2>3, <2>4
<1>5. ASSUME NEW e \in Executors, DestroyBegin(e) \/ DestroyerOwn(e)
      PROVE  UNCHANGED Graph!vars
  BY <1>1, <1>5 DEF DestroyBegin, DestroyerOwn, DrainNext, DrainEnd, Join, WalkNext, WalkEnd,
                    Disposed, Collect, CollectTail, DestroyEnd
<1>6. CASE UNCHANGED vars BY <1>1, <1>6 DEF vars
<1> QED BY <1>2, <1>3, <1>4, <1>5, <1>6, Steps

(* Every behaviour of the executors is a behaviour of the graph of futures: submission,
   reading the antecedent, the call of the task, the release of the dependency, the
   completion and the freeing are its six steps, everything else stutters.  A full executor
   that refuses an fviz_future_then is excluded: it drops a dependency it never counted. *)
THEOREM GraphImplemented ==
    ASSUME ~RejectedThen
    PROVE  Spec => ImplementsGraph
<1>1. Init => RefInv
  BY TypeInit, LinkInit, PlaceInit, CountInit, HoldsInit, ChainInit, OutcomeInit DEF RefInv
<1>2. RefInv /\ [Next]_vars => RefInv'
  BY TypeStep, LinkStep, PlaceStep, CountStep, HoldsStep, ChainStep, OutcomeStep DEF RefInv
<1>3. Spec => []RefInv BY <1>1, <1>2, PTL DEF Spec
<1>4. Init => Graph!Init BY GraphInit
<1>5. RefInv /\ [Next]_vars => [Graph!Next]_Graph!vars BY GraphStep
<1>6. Spec => Graph!Spec BY <1>3, <1>4, <1>5, PTL DEF Spec, Graph!Spec
<1> QED BY <1>6 DEF ImplementsGraph

-----------------------------------------------------------------------------
(* Links lead to futures that are allocated *)

(* Destructors free no futures, or no executor is destroyed. *)
FreesOutsideShutdown == Destroyable = {} \/ \A f \in Futures : Frees[f] = <<>>

(* An executor that is not to be destroyed stays open. *)
OpenInv == Destroyable = {} => \A e \in Executors : phase[e] = "open"

LEMMA OpenInit == Init => OpenInv
BY DEF Init, OpenInv

LEMMA OpenStep == TypeInv /\ OpenInv /\ [Next]_vars => OpenInv'
<1> SUFFICES ASSUME TypeInv, OpenInv, [Next]_vars, Destroyable = {}, NEW e \in Executors
             PROVE  phase'[e] = "open"
  BY DEF OpenInv
<1>1. phase[e] = "open" BY DEF OpenInv
<1>2. ASSUME NEW x \in Executors, DestroyBegin(x) \/ DestroyerOwn(x) PROVE FALSE
  <2>1. phase[x] = "open" BY DEF OpenInv
  <2>2. pc[x] = "idle" BY <2>1 DEF TypeInv, ControlInv, DestroyerPlace
  <2> QED
    BY <1>2, <2>1, <2>2 DEF DestroyerOwn, DestroyBegin, DrainNext, DrainEnd, Join, WalkNext,
       WalkEnd, Disposed, Collect, CollectTail, DestroyEnd
<1>3. phase' = phase
  <2>1. CASE ProgramOwn
    BY <2>1 DEF ProgramOwn, Accept, Reject, Cancel, TakeValue, BeginFree, EndFree, executorVars
  <2>2. ASSUME NEW w \in Workers, WorkerOwn(w) PROVE phase' = phase
    BY <2>2 DEF WorkerOwn, Pop, Wait, Check, ReadAntecedent, Run, Publish, PromoteEnd,
                executorVars
  <2>3. ASSUME NEW t \in Threads, Shared(t) PROVE phase' = phase
    BY <2>3 DEF Shared, Release, DestructorCancels, DestructorFrees, Complete, Wake,
                PromoteNext, PromotePush, executorVars
  <2>4. CASE UNCHANGED vars BY <2>4 DEF vars, executorVars
  <2> QED BY <1>2, <2>1, <2>2, <2>3, <2>4, Steps
<1> QED BY <1>1, <1>3

(* What is freed is ready, and its executor is not being destroyed. *)
LEMMA Freed ==
    ASSUME TypeInv, [Next]_vars, FreesOutsideShutdown, OpenInv, ~FreeInShutdown,
           NEW f \in Futures, Used(f),
           alloc[f] # "freed", alloc'[f] = "freed"
    PROVE  ready[f] /\ phase[home[f]] \in {"open", "freed"}
<1>0. alloc \in [Futures -> {"unused", "live", "closing", "freed"}] BY DEF TypeInv, TypeOK
<1>1. ASSUME NEW g \in Futures, NEW e \in Executors, NEW d \in FutureOrNone,
             Accept(g, e, d) \/ Reject(g, e, d)
      PROVE  FALSE
  <2>1. \/ alloc[g] = "unused" /\ alloc' = [alloc EXCEPT ![g] = "live"]
        \/ alloc' = alloc
    BY <1>1 DEF Accept, Reject
  <2> QED BY <1>0, <2>1
<1>2. ASSUME NEW g \in Futures, Cancel(g) \/ TakeValue(g) \/ BeginFree(g) PROVE FALSE
  <2>1. alloc' = [alloc EXCEPT ![g] = "closing"] \/ alloc' = alloc
    BY <1>2 DEF Cancel, TakeValue, BeginFree
  <2> QED BY <1>0, <2>1
<1>3. ASSUME NEW g \in Futures, EndFree(g)
      PROVE  ready[f] /\ phase[home[f]] \in {"open", "freed"}
  <2>1. /\ alloc' = [alloc EXCEPT ![g] = "freed"] /\ ready[g]
        /\ phase[home[g]] \in {"open", "freed"}
    BY <1>3 DEF EndFree, Freeable
  <2>2. g = f BY <1>0, <2>1
  <2> QED BY <2>1, <2>2
<1>4. ASSUME NEW t \in Threads, Shared(t)
      PROVE  ready[f] /\ phase[home[f]] \in {"open", "freed"}
  <2>1. CASE DestructorFrees(t)
    <3>1. PICK g \in Futures : /\ FreesNext(cur[t], g) /\ ready[g]
                               /\ alloc' = [alloc EXCEPT ![g] = "freed"]
      BY <2>1 DEF DestructorFrees, Freeable
    <3>2. g = f BY <1>0, <3>1
    <3>3. pc[t] = "callback" BY <2>1 DEF DestructorFrees
    <3>4. cur[t] \in Futures BY <3>3, UsedNow DEF CarryPcs, HandPcs, CurrentPcs
    <3>5. Frees[cur[t]] # <<>> BY <3>1 DEF FreesNext, LeftToFree
    <3>6. Destroyable = {} BY <3>4, <3>5 DEF FreesOutsideShutdown
    <3>7. home[f] \in Executors BY DEF TypeInv, UsedInv
    <3> QED BY <3>1, <3>2, <3>6, <3>7 DEF OpenInv
  <2>2. CASE ~DestructorFrees(t)
    BY <1>4, <2>2 DEF Shared, Release, DestructorCancels, Complete, Wake, PromoteNext, PromotePush
  <2> QED BY <2>1, <2>2
<1>5. CASE \/ \E w \in Workers : WorkerOwn(w)
           \/ \E e \in Executors : DestroyBegin(e) \/ DestroyerOwn(e)
  BY <1>5 DEF WorkerOwn, Pop, Wait, Check, ReadAntecedent, Run, Publish, PromoteEnd, futureVars,
              DestroyBegin, DestroyerOwn, DrainNext, DrainEnd, Join, WalkNext, WalkEnd,
              Disposed, Collect, CollectTail, DestroyEnd
<1>6. CASE UNCHANGED vars BY <1>6 DEF vars, futureVars
<1> QED BY <1>1, <1>2, <1>3, <1>4, <1>5, <1>6, Steps DEF ProgramOwn

(* Kept, in the next state. *)
KeptNext(f) == alloc'[f] # "freed" \/ phase'[home'[f]] = "freed"

LEMMA AliveStays ==
    ASSUME TypeInv, LinkInv, PlaceInv, HomeInv, AliveInv, OpenInv, [Next]_vars,
           ~FreeInShutdown, FreesOutsideShutdown
    PROVE  /\ \A f \in Futures : /\ waitingHead[f] # None => KeptNext(waitingHead[f])
                                 /\ waiterNext[f] # None => KeptNext(waiterNext[f])
           /\ \A t \in Threads : /\ detached[t] # None => KeptNext(detached[t])
                                 /\ chain[t] # None => KeptNext(chain[t])
                                 /\ pc[t] = "push" => KeptNext(cur[t])
           /\ \A e \in Executors : tail[e] # None => KeptNext(tail[e])
<1>1. Grows BY NextGrows
<1>2. ASSUME NEW f \in Futures, Used(f), Kept(f), Stopping(home[f]) \/ ~ready[f]
      PROVE  KeptNext(f)
  <2>1. home'[f] = home[f] /\ home[f] \in Executors
    BY <1>1, <1>2 DEF Grows, TypeInv, UsedInv
  <2>2. phase[home[f]] = "freed" => phase'[home[f]] = "freed" BY <2>1, PhaseMoves
  <2>3. alloc[f] # "freed" => alloc'[f] # "freed" \/ phase[home[f]] = "freed"
    BY <1>2, Freed DEF Stopping
  <2> QED BY <1>2, <2>1, <2>2, <2>3 DEF Kept, KeptNext
<1>3. ASSUME NEW l \in Links, Target[l] # None, Kept(Target[l]) PROVE KeptNext(Target[l])
  <2> PICK f : f = Target[l]
    OBVIOUS
  <2>1. f \in Futures /\ Used(f) BY <1>3, LinkUsed
  <2>2. Stopping(home[f]) \/ Registered(home[f], f) BY <1>3 DEF LinkInv
  <2>3. home[f] \in Executors BY <2>1 DEF TypeInv, UsedInv
  <2>4. Stopping(home[f]) \/ ~ready[f] BY <2>2, <2>3 DEF Registered, PlaceInv, ParkedPlace
  <2> QED BY <1>2, <1>3, <2>1, <2>4
<1>4. ASSUME NEW f \in Futures
      PROVE  /\ waitingHead[f] # None => KeptNext(waitingHead[f])
             /\ waiterNext[f] # None => KeptNext(waiterNext[f])
  <2>1. /\ <<"head", f>> \in Links /\ Target[<<"head", f>>] = waitingHead[f]
        /\ <<"next", f>> \in Links /\ Target[<<"next", f>>] = waiterNext[f]
    BY LinkAt
  <2> QED BY <1>3, <2>1 DEF AliveInv
<1>5. ASSUME NEW t \in Threads
      PROVE  /\ detached[t] # None => KeptNext(detached[t])
             /\ chain[t] # None => KeptNext(chain[t])
             /\ pc[t] = "push" => KeptNext(cur[t])
  <2>1. /\ <<"detached", t>> \in Links /\ Target[<<"detached", t>>] = detached[t]
        /\ <<"chain", t>> \in Links /\ Target[<<"chain", t>>] = chain[t]
        /\ <<"cur", t>> \in Links /\ (pc[t] = "push" => Target[<<"cur", t>>] = cur[t])
    BY LinkAt
  <2>2. pc[t] = "push" => cur[t] # None BY UsedNow, Distinct DEF CarryPcs
  <2> QED BY <1>3, <2>1, <2>2 DEF AliveInv
<1>6. ASSUME NEW e \in Executors, tail[e] # None PROVE KeptNext(tail[e])
  <2>1. tail[e] \in Futures /\ Used(tail[e]) /\ home[tail[e]] = e
    BY <1>6, LinkTypes DEF HomeInv
  <2> QED BY <1>2, <1>6, <2>1 DEF AliveInv
<1> QED BY <1>4, <1>5, <1>6

LEMMA AliveStep ==
    ASSUME ~FreeInShutdown, FreesOutsideShutdown
    PROVE  TypeInv /\ LinkInv /\ PlaceInv /\ HomeInv /\ AliveInv /\ OpenInv /\ [Next]_vars
              => AliveInv'
<1> SUFFICES ASSUME TypeInv, LinkInv, PlaceInv, HomeInv, AliveInv, OpenInv, [Next]_vars
             PROVE  AliveInv'
  OBVIOUS
<1>1. Flow /\ Grows BY NextFlows, NextGrows
<1>2. /\ \A f \in Futures : /\ waitingHead[f] # None => KeptNext(waitingHead[f])
                            /\ waiterNext[f] # None => KeptNext(waiterNext[f])
      /\ \A t \in Threads : /\ detached[t] # None => KeptNext(detached[t])
                            /\ chain[t] # None => KeptNext(chain[t])
                            /\ pc[t] = "push" => KeptNext(cur[t])
      /\ \A e \in Executors : tail[e] # None => KeptNext(tail[e])
  BY AliveStays
<1>3. ASSUME NEW f \in Futures, NEW d \in Futures, Accepts(f, d) PROVE KeptNext(f)
  <2>1. alloc' = [alloc EXCEPT ![f] = "live"] BY <1>3 DEF Accepts, Accept
  <2> QED BY <2>1 DEF KeptNext, TypeInv, TypeOK
<1>4. ASSUME NEW f \in Futures
      PROVE  /\ waitingHead'[f] # None => KeptNext(waitingHead'[f])
             /\ waiterNext'[f] # None => KeptNext(waiterNext'[f])
  <2>1. HeadFlow(f) /\ NextFlow(f) BY <1>1 DEF Flow
  <2>2. waitingHead'[f] # None => KeptNext(waitingHead'[f])
    BY <1>2, <1>3, <2>1 DEF HeadFlow
  <2>3. waiterNext'[f] # None => KeptNext(waiterNext'[f])
    <3>1. CASE \E e \in Executors : tail[e] = f /\ waiterNext'[f] = detached[e]
      <4>1. \A e \in Executors : e \in Threads BY DEF Threads
      <4> QED BY <1>2, <3>1, <4>1
    <3> QED BY <1>2, <1>3, <2>1, <3>1 DEF NextFlow
  <2> QED BY <2>2, <2>3
<1>5. ASSUME NEW t \in Threads
      PROVE  /\ detached'[t] # None => KeptNext(detached'[t])
             /\ chain'[t] # None => KeptNext(chain'[t])
             /\ pc'[t] = "push" => KeptNext(cur'[t])
  <2>1. DetachedFlow(t) /\ ChainFlow(t) /\ PushFlow(t) BY <1>1 DEF Flow
  <2>2. detached'[t] # None => KeptNext(detached'[t])
    <3>1. CASE Complete(t) /\ detached'[t] = waitingHead[cur[t]]
      <4>1. pc[t] \in CarryPcs BY <3>1 DEF Complete, CarryPcs, HandPcs
      <4>2. cur[t] \in Futures BY <4>1, UsedNow
      <4> QED BY <1>2, <3>1, <4>2
    <3> QED BY <1>2, <2>1, <3>1 DEF DetachedFlow
  <2>3. chain'[t] # None => KeptNext(chain'[t])
    <3>1. CASE PromoteNext(t) /\ chain'[t] = waiterNext[chain[t]]
      <4>1. chain[t] \in Futures BY <3>1, UsedNow DEF PromoteNext
      <4> QED BY <1>2, <3>1, <4>1
    <3> QED BY <1>2, <2>1, <3>1 DEF ChainFlow
  <2>4. pc'[t] = "push" => KeptNext(cur'[t])
    <3>1. CASE PromoteNext(t) /\ cur'[t] = chain[t]
      <4>1. chain[t] # None BY <3>1 DEF PromoteNext
      <4> QED BY <1>2, <3>1, <4>1
    <3> QED BY <1>2, <2>1, <3>1 DEF PushFlow
  <2> QED BY <2>2, <2>3, <2>4
<1>6. ASSUME NEW e \in Executors, tail'[e] # None PROVE KeptNext(tail'[e]) /\ phase'[e] # "open"
  <2>0. e \in Threads BY DEF Threads
  <2>1. TailFlow(e) BY <1>1 DEF Flow
  <2>2. Stopping(e) => phase'[e] # "open" BY <1>1 DEF Grows, Stopping
  <2>3. CASE tail'[e] = tail[e] BY <1>2, <1>6, <2>2, <2>3 DEF AliveInv
  <2>4. CASE Collect(e) /\ tail'[e] = detached[e]
    <3>1. Stopping(e)
      BY <2>4 DEF Collect, Stopping, TypeInv, ControlInv, DestroyerPlace, DestroyPcs
    <3> QED BY <1>2, <1>6, <2>0, <2>2, <2>4, <3>1
  <2>5. CASE CollectTail(e) /\ tail'[e] = waiterNext[tail[e]]
    <3>1. Stopping(e) /\ tail[e] # None
      BY <2>5 DEF CollectTail, Stopping, TypeInv, ControlInv, DestroyerPlace, DestroyPcs
    <3>2. tail[e] \in Futures BY <3>1, LinkTypes
    <3> QED BY <1>2, <1>6, <2>2, <2>5, <3>1, <3>2
  <2> QED BY <1>6, <2>1, <2>3, <2>4, <2>5 DEF TailFlow
<1> QED BY <1>4, <1>5, <1>6 DEF AliveInv, Kept, KeptNext, Stopping

LEMMA AliveInit == Init => AliveInv
BY DEF Init, AliveInv

(* What a promotion or a shutdown follows is allocated, and its executor exists. *)
LEMMA AliveNow ==
    TypeInv /\ PhaseInv /\ CountInv /\ HomeInv /\ AliveInv => LinksAlive
<1> SUFFICES ASSUME TypeInv, PhaseInv, CountInv, HomeInv, AliveInv PROVE LinksAlive
  OBVIOUS
<1>1. ASSUME NEW t \in Threads, pc[t] \in {"promote", "push"} PROVE phase[ExecutorOf(t)] # "freed"
  <2>1. CASE t \in Workers
    <3>1. Home[t] \in Executors /\ ExecutorOf(t) = Home[t]
      BY <2>1, ConstantsAssumption DEF ExecutorOf
    <3> QED BY <1>1, <2>1, <3>1 DEF PhaseInv, PhaseAt
  <2>2. CASE t \in Executors
    <3>1. ExecutorOf(t) = t BY <2>2, Distinct DEF ExecutorOf
    <3> QED BY <1>1, <2>2, <3>1 DEF TypeInv, ControlInv, DestroyerPlace
  <2> QED BY <2>1, <2>2 DEF Threads
<1>2. ASSUME NEW t \in Threads, pc[t] = "promote", chain[t] # None PROVE alloc[chain[t]] # "freed"
  BY <1>1, <1>2 DEF HomeInv, AliveInv, Kept
<1>3. ASSUME NEW t \in Threads, pc[t] = "push"
      PROVE  alloc[cur[t]] # "freed" /\ phase[home[cur[t]]] # "freed"
  BY <1>1, <1>3 DEF HomeInv, AliveInv, Kept
<1>4. ASSUME NEW e \in Executors, pc[e] = "collect", tail[e] # None PROVE alloc[tail[e]] # "freed"
  <2>1. phase[e] # "freed" BY <1>4 DEF TypeInv, ControlInv, DestroyerPlace, DestroyPcs
  <2> QED BY <1>4, <2>1 DEF HomeInv, AliveInv, Kept
<1> QED BY <1>2, <1>3, <1>4 DEF LinksAlive, CountInv, AntecedentKept

(* A continuation never reads a freed antecedent, and promotion and collection only follow
   links of futures that are allocated, whatever the program and the destructors of user data
   (fviz_composite_update_chain_destroy is one) free as soon as it is ready.  Of the four
   assumptions only the first is asked of the program by the code (FVizExecutor.h:60-61, "on
   the same executor"); the others say when the property holds: without a refused
   continuation, whose antecedent loses a dependent it never counted; with nothing freed by
   the program while its executor is being destroyed, where the chain of collected waiters
   leads through ready futures; and with no destructor that frees futures on an executor that
   is destroyed, for the same reason. *)
THEOREM LinksAliveAlways ==
    ASSUME ~CrossExecutor, ~RejectedThen, ~FreeInShutdown,
           Destroyable = {} \/ \A f \in Futures : Frees[f] = <<>>
    PROVE  Spec => []LinksAlive
<1> DEFINE Inv == /\ TypeInv /\ LinkInv /\ PlaceInv /\ CountInv /\ PhaseInv /\ HomeInv
                  /\ OpenInv /\ AliveInv
<1>0. FreesOutsideShutdown BY DEF FreesOutsideShutdown
<1>1. Init => Inv
  BY TypeInit, LinkInit, PlaceInit, CountInit, PhaseInit, HomeInit, OpenInit, AliveInit
<1>2. Inv /\ [Next]_vars => Inv'
  BY <1>0, TypeStep, LinkStep, PlaceStep, CountStep, PhaseStep, HomeStep, OpenStep, AliveStep
<1>3. Inv => LinksAlive BY AliveNow
<1> QED BY <1>1, <1>2, <1>3, PTL DEF Spec

-----------------------------------------------------------------------------
(* Chains of waiters *)

\* ChainFrom along the links nx.
Chain(nx, r) ==
    {g \in Futures : \A S \in SUBSET Futures :
        r \in S \cup {None} /\ (\A h \in S : nx[h] \in S \cup {None}) => g \in S}

LEMMA ChainIs ==
    /\ \A r : ChainFrom(r) = Chain(waiterNext, r)
    /\ \A t \in Threads : Undelivered(t) = Chain(waiterNext, detached[t])
                                           \cup Chain(waiterNext, chain[t])
                                           \cup (IF pc[t] = "push" THEN {cur[t]} ELSE {})
<1>1. \A r : ChainFrom(r) = Chain(waiterNext, r) BY DEF ChainFrom, Chain, Linked
<1> QED BY <1>1 DEF Undelivered

LEMMA ChainRoot ==
    ASSUME NEW nx, NEW r \in Futures
    PROVE  r \in Chain(nx, r)
BY Distinct DEF Chain

LEMMA ChainNone ==
    ASSUME NEW nx
    PROVE  Chain(nx, None) = {}
<1>1. ASSUME NEW g \in Chain(nx, None) PROVE FALSE
  <2>1. {} \in SUBSET Futures /\ None \in {} \cup {None} OBVIOUS
  <2> QED BY <1>1, <2>1 DEF Chain
<1> QED BY <1>1

(* What a set that the links do not leave holds, of a chain that starts in it. *)
LEMMA ChainWithin ==
    ASSUME NEW nx, NEW S \in SUBSET Futures, NEW r \in S \cup {None},
           \A h \in S : nx[h] \in S \cup {None}, NEW g \in Chain(nx, r)
    PROVE  g \in S
BY DEF Chain

(* A future without successor is given one. *)
LEMMA ChainLinked ==
    ASSUME NEW nx \in [Futures -> FutureOrNone], NEW f \in Futures, nx[f] = None, NEW n,
           NEW ny, ny = [nx EXCEPT ![f] = n]
    PROVE  /\ \A r : Chain(nx, r) \subseteq Chain(ny, r)
           /\ Chain(nx, n) \subseteq Chain(ny, f)
<1>1. ASSUME NEW S \in SUBSET Futures, \A h \in S : ny[h] \in S \cup {None}
      PROVE  /\ \A h \in S : nx[h] \in S \cup {None}
             /\ f \in S => n \in S \cup {None}
  <2>1. \A h \in S : h # f => nx[h] = ny[h] OBVIOUS
  <2>2. ny[f] = n OBVIOUS
  <2> QED BY <1>1, <2>1, <2>2
<1>2. ASSUME NEW r, NEW g \in Chain(nx, r), NEW S \in SUBSET Futures,
             r \in S \cup {None}, \A h \in S : ny[h] \in S \cup {None}
      PROVE  g \in S
  BY <1>1, <1>2, ChainWithin
<1>3. ASSUME NEW g \in Chain(nx, n), NEW S \in SUBSET Futures,
             f \in S \cup {None}, \A h \in S : ny[h] \in S \cup {None}
      PROVE  g \in S
  BY <1>1, <1>3, ChainWithin, Distinct
<1>4. \A r : \A g \in Chain(nx, r) : g \in Futures BY DEF Chain
<1> QED BY <1>2, <1>3, <1>4 DEF Chain

(* The head of a chain, which nothing else leads to, is taken off. *)
LEMMA ChainCut ==
    ASSUME NEW nx \in [Futures -> FutureOrNone], NEW f \in Futures,
           \A h \in Futures : nx[h] # f, NEW ny, ny = [nx EXCEPT ![f] = None]
    PROVE  /\ \A r : r # f => Chain(nx, r) \subseteq Chain(ny, r)
           /\ Chain(nx, f) \subseteq Chain(ny, nx[f]) \cup {f}
<1>1. \A h \in Futures : h # f => ny[h] = nx[h] OBVIOUS
<1>2. ASSUME NEW r, r # f, NEW g \in Chain(nx, r), NEW S \in SUBSET Futures,
             r \in S \cup {None}, \A h \in S : ny[h] \in S \cup {None}
      PROVE  g \in S
  <2>1. \A h \in S \ {f} : nx[h] \in (S \ {f}) \cup {None} BY <1>1, <1>2
  <2>2. S \ {f} \in SUBSET Futures /\ r \in (S \ {f}) \cup {None} BY <1>2
  <2>3. g \in S \ {f} BY <2>1, <2>2, ChainWithin
  <2> QED BY <2>3
<1>3. ASSUME NEW g \in Chain(nx, f), g # f, NEW S \in SUBSET Futures,
             nx[f] \in S \cup {None}, \A h \in S : ny[h] \in S \cup {None}
      PROVE  g \in S
  <2>1. \A h \in S \cup {f} : nx[h] \in (S \cup {f}) \cup {None} BY <1>1, <1>3
  <2>2. S \cup {f} \in SUBSET Futures /\ f \in (S \cup {f}) \cup {None} OBVIOUS
  <2>3. g \in S \cup {f} BY <2>1, <2>2, ChainWithin
  <2> QED BY <1>3, <2>3
<1>4. \A r : \A g \in Chain(nx, r) : g \in Futures BY DEF Chain
<1> QED BY <1>2, <1>3, <1>4 DEF Chain

(* The links change inside P only, which they do not leave. *)
LEMMA ChainApart ==
    ASSUME NEW nx, NEW ny, NEW P \in SUBSET Futures, \A h \in P : nx[h] \in P \cup {None},
           \A h \in Futures \ P : ny[h] = nx[h], NEW r, NEW g \in Chain(nx, r), g \notin P
    PROVE  g \in Chain(ny, r)
<1>1. ASSUME NEW S \in SUBSET Futures, r \in S \cup {None}, \A h \in S : ny[h] \in S \cup {None}
      PROVE  g \in S
  <2>1. \A h \in S \cup P : nx[h] \in (S \cup P) \cup {None} BY <1>1
  <2>2. S \cup P \in SUBSET Futures /\ r \in (S \cup P) \cup {None} BY <1>1
  <2>3. g \in S \cup P BY <2>1, <2>2, ChainWithin
  <2> QED BY <2>3
<1>2. g \in Futures BY DEF Chain
<1> QED BY <1>1, <1>2 DEF Chain

(* Someone will promote g: now, and in the next state. *)
Awaits(g) ==
    \/ g \in Chain(waiterNext, waitingHead[dep[g]])
    \/ \E t \in Threads : \/ g \in Chain(waiterNext, detached[t])
                          \/ g \in Chain(waiterNext, chain[t])
                          \/ pc[t] = "push" /\ cur[t] = g
AwaitsNext(g) ==
    \/ g \in Chain(waiterNext', waitingHead'[dep[g]])
    \/ \E t \in Threads : \/ g \in Chain(waiterNext', detached'[t])
                          \/ g \in Chain(waiterNext', chain'[t])
                          \/ pc'[t] = "push" /\ cur'[t] = g
ReachInv ==
    \A e \in Executors : ~Stopping(e) =>
        \A i \in DOMAIN parked[e] : Awaits(parked[e][i])

(* The links stay. *)
LEMMA ReachSame ==
    ASSUME NEW g, Awaits(g), UNCHANGED <<linkVars, detached, chain>>,
           \A u \in Threads : pc[u] = "push" => pc'[u] = "push" /\ cur'[u] = cur[u]
    PROVE  AwaitsNext(g)
<1>1. UNCHANGED <<waiterNext, waitingHead, detached, chain>> BY DEF linkVars
<1> QED BY <1>1 DEF Awaits, AwaitsNext

LEMMA ReachAccepted ==
    ASSUME TypeInv, HomeInv, NEW f \in Futures, NEW e \in Executors, NEW d \in FutureOrNone,
           Accept(f, e, d)
    PROVE  /\ \A g \in Futures : dep[g] \in Futures /\ Awaits(g) => AwaitsNext(g)
           /\ MustPark(d) => f \in Chain(waiterNext', waitingHead'[d])
<1>1. ProgramOwn BY DEF ProgramOwn
<1>2. /\ \A u \in Threads : pc[u] = "push" => pc'[u] = "push" /\ cur'[u] = cur[u]
      /\ UNCHANGED <<detached, chain>>
  BY <1>1, ProgramRests DEF Rests
<1>3. CASE ~MustPark(d)
  <2>1. UNCHANGED <<linkVars, detached, chain>> BY <1>2, <1>3 DEF Accept, linkVars
  <2> QED BY <1>2, <1>3, <2>1, ReachSame
<1>4. CASE MustPark(d)
  <2>1. /\ waiterNext' = [waiterNext EXCEPT ![f] = waitingHead[d]]
        /\ waitingHead' = [waitingHead EXCEPT ![d] = f] /\ d \in Futures /\ alloc[f] = "unused"
    BY <1>4 DEF Accept, LinkWaiter, MustPark
  <2>2. waiterNext[f] = None /\ waiterNext \in [Futures -> FutureOrNone]
    BY <2>1, LinkTypes DEF HomeInv, Used
  <2>3. /\ \A r : Chain(waiterNext, r) \subseteq Chain(waiterNext', r)
        /\ Chain(waiterNext, waitingHead[d]) \subseteq Chain(waiterNext', f)
    <3> PICK nx, ny, n : nx = waiterNext /\ ny = waiterNext' /\ n = waitingHead[d]
      OBVIOUS
    <3>1. /\ nx \in [Futures -> FutureOrNone] /\ nx[f] = None
          /\ ny = [nx EXCEPT ![f] = n]
      BY <2>1, <2>2
    <3>2. (\A r : Chain(nx, r) \subseteq Chain(ny, r)) /\ Chain(nx, n) \subseteq Chain(ny, f)
      BY <3>1, ChainLinked, ZenonT(40)
    <3> QED BY <3>2
  <2>4. waitingHead'[d] = f BY <2>1, LinkTypes
  <2>5. ASSUME NEW g \in Futures, dep[g] \in Futures, Awaits(g) PROVE AwaitsNext(g)
    <3>1. waitingHead'[dep[g]] = waitingHead[dep[g]] \/ dep[g] = d
      BY <2>1, <2>5, LinkTypes
    <3>2. CASE g \in Chain(waiterNext, waitingHead[dep[g]])
      BY <2>3, <2>4, <3>1, <3>2 DEF AwaitsNext
    <3>3. CASE \E t \in Threads : \/ g \in Chain(waiterNext, detached[t])
                                  \/ g \in Chain(waiterNext, chain[t])
                                  \/ pc[t] = "push" /\ cur[t] = g
      BY <1>2, <2>3, <3>3 DEF AwaitsNext
    <3> QED BY <2>5, <3>2, <3>3 DEF Awaits
  <2>6. f \in Chain(waiterNext', waitingHead'[d]) BY <2>4, ChainRoot
  <2> QED BY <2>5, <2>6
<1> QED BY <1>3, <1>4

LEMMA ReachProgram ==
    ASSUME TypeInv, HomeInv, ProgramOwn, NEW g \in Futures, dep[g] \in Futures, Awaits(g)
    PROVE  AwaitsNext(g)
<1>1. CASE \E f \in Futures, e \in Executors, d \in FutureOrNone : Accept(f, e, d)
  BY <1>1, ReachAccepted
<1>2. CASE \/ \E f \in Futures, e \in Executors, d \in FutureOrNone : Reject(f, e, d)
           \/ \E f \in Futures : Cancel(f) \/ TakeValue(f) \/ BeginFree(f) \/ EndFree(f)
  <2>1. UNCHANGED <<linkVars, detached, chain>>
    BY <1>2 DEF Reject, Cancel, TakeValue, BeginFree, EndFree, threadVars
  <2>2. \A u \in Threads : pc[u] = "push" => pc'[u] = "push" /\ cur'[u] = cur[u]
    BY ProgramRests DEF Rests
  <2> QED BY <2>1, <2>2, ReachSame
<1> QED BY <1>1, <1>2 DEF ProgramOwn

LEMMA ReachWorker ==
    ASSUME TypeInv, NEW w \in Workers, WorkerOwn(w), NEW g, Awaits(g)
    PROVE  AwaitsNext(g)
<1>1. UNCHANGED <<linkVars, detached, chain>>
  BY DEF WorkerOwn, Pop, Wait, Check, ReadAntecedent, Run, Publish, PromoteEnd, linkVars
<1>2. pc[w] # "push" BY WorkerPaths DEF TypeInv, WorkerOwn
<1>3. w \in Threads BY DEF Threads
<1>4. \A u \in Threads : pc[u] = "push" => pc'[u] = "push" /\ cur'[u] = cur[u]
  BY <1>2, <1>3, OnlyMine
<1> QED BY <1>1, <1>4, ReachSame

(* What a thread completes or promotes leaves nobody behind. *)
LEMMA ReachShared ==
    ASSUME TypeInv, LinkInv, HomeInv, NEW t \in Threads, Shared(t), NEW g \in Futures,
           dep[g] \in Futures, Awaits(g), PromotePush(t) => cur[t] # g
    PROVE  AwaitsNext(g)
<1>0. \A u \in Threads \ {t} :
          /\ cur'[u] = cur[u]
          /\ pc'[u] = pc[u] \/ (u \in Workers /\ pc[u] = "asleep" /\ pc'[u] = "idle")
  BY OnlyMine
<1>1. CASE Release(t) \/ DestructorCancels(t) \/ DestructorFrees(t)
  <2>1. UNCHANGED <<linkVars, detached, chain>>
    BY <1>1 DEF Release, DestructorCancels, DestructorFrees, threadVars
  <2>2. pc[t] \in {"release", "callback"} BY <1>1, LinkTypes, SharedPaths
  <2> QED BY <1>0, <2>1, <2>2, ReachSame
<1>2. CASE Complete(t)
  <2>1. /\ waiterNext' = waiterNext /\ chain' = chain
        /\ detached' = [detached EXCEPT ![t] = waitingHead[cur[t]]]
        /\ waitingHead' = [waitingHead EXCEPT ![cur[t]] = None]
    BY <1>2 DEF Complete
  <2>2. pc[t] = "complete" BY <1>2 DEF Complete
  <2>3. detached[t] = None BY <2>2 DEF HomeInv
  <2>4. Chain(waiterNext, detached[t]) = {} BY <2>3, ChainNone
  <2>5. detached'[t] = waitingHead[cur[t]] BY <2>1, LinkTypes
  <2>6. \A u \in Threads \ {t} : detached'[u] = detached[u] BY <2>1, LinkTypes
  <2>7. CASE g \in Chain(waiterNext, waitingHead[dep[g]])
    <3>1. waitingHead'[dep[g]] = waitingHead[dep[g]] \/ dep[g] = cur[t] BY <2>1, LinkTypes
    <3> QED BY <2>1, <2>5, <2>7, <3>1 DEF AwaitsNext
  <2>8. CASE \E u \in Threads : \/ g \in Chain(waiterNext, detached[u])
                                \/ g \in Chain(waiterNext, chain[u])
                                \/ pc[u] = "push" /\ cur[u] = g
    <3>1. PICK u \in Threads : \/ g \in Chain(waiterNext, detached[u])
                               \/ g \in Chain(waiterNext, chain[u])
                               \/ pc[u] = "push" /\ cur[u] = g
      BY <2>8
    <3>2. CASE g \in Chain(waiterNext, detached[u])
      BY <2>1, <2>4, <2>6, <3>2 DEF AwaitsNext
    <3>3. CASE g \in Chain(waiterNext, chain[u]) BY <2>1, <3>3 DEF AwaitsNext
    <3>4. CASE pc[u] = "push" /\ cur[u] = g BY <1>0, <2>2, <3>4 DEF AwaitsNext
    <3> QED BY <3>1, <3>2, <3>3, <3>4
  <2> QED BY <2>7, <2>8 DEF Awaits
<1>3. CASE Wake(t)
  <2>1. pc[t] = "wake" /\ linkVars' = linkVars BY <1>3 DEF Wake
  <2>2. CASE t \notin Workers
    <3>1. UNCHANGED <<linkVars, detached, chain>> BY <1>3, <2>2 DEF Wake
    <3> QED BY <1>0, <2>1, <3>1, ReachSame
  <2>3. CASE t \in Workers
    <3>1. chain[t] = None BY <2>1, <2>3 DEF HomeInv
    <3>2. Chain(waiterNext, chain[t]) = {} BY <3>1, ChainNone
    <3>3. /\ chain' = [chain EXCEPT ![t] = detached[t]]
          /\ detached' = [detached EXCEPT ![t] = None]
      BY <1>3, <2>3 DEF Wake
    <3>4. chain'[t] = detached[t] BY <3>3, LinkTypes
    <3>5. \A u \in Threads \ {t} : chain'[u] = chain[u] /\ detached'[u] = detached[u]
      BY <3>3, LinkTypes
    <3>6. waiterNext' = waiterNext /\ waitingHead' = waitingHead BY <2>1 DEF linkVars
    <3>7. CASE g \in Chain(waiterNext, waitingHead[dep[g]]) BY <3>6, <3>7 DEF AwaitsNext
    <3>8. CASE \E u \in Threads : \/ g \in Chain(waiterNext, detached[u])
                                  \/ g \in Chain(waiterNext, chain[u])
                                  \/ pc[u] = "push" /\ cur[u] = g
      <4>1. PICK u \in Threads : \/ g \in Chain(waiterNext, detached[u])
                                 \/ g \in Chain(waiterNext, chain[u])
                                 \/ pc[u] = "push" /\ cur[u] = g
        BY <3>8
      <4>2. CASE g \in Chain(waiterNext, detached[u])
        BY <3>4, <3>5, <3>6, <4>2 DEF AwaitsNext
      <4>3. CASE g \in Chain(waiterNext, chain[u])
        BY <3>2, <3>5, <3>6, <4>3 DEF AwaitsNext
      <4>4. CASE pc[u] = "push" /\ cur[u] = g BY <1>0, <2>1, <4>4 DEF AwaitsNext
      <4> QED BY <4>1, <4>2, <4>3, <4>4
    <3> QED BY <3>7, <3>8 DEF Awaits
  <2> QED BY <2>2, <2>3
<1>4. CASE PromoteNext(t)
  <2> PICK f : f = chain[t]
    OBVIOUS
  <2>1. /\ waitingHead' = waitingHead /\ detached' = detached /\ f # None
        /\ cur' = [cur EXCEPT ![t] = f] /\ chain' = [chain EXCEPT ![t] = waiterNext[f]]
        /\ waiterNext' = [waiterNext EXCEPT ![f] = None]
    BY <1>4 DEF PromoteNext
  <2>2. pc[t] = "promote" /\ pc'[t] = "push" BY <1>4, LinkTypes, SharedPaths DEF Moves
  <2>3. f \in Futures BY <2>1, LinkTypes
  <2>4. chain'[t] = waiterNext[f] /\ cur'[t] = f BY <2>1, LinkTypes
  <2>5. \A u \in Threads \ {t} : chain'[u] = chain[u] BY <2>1, LinkTypes
  <2>6. \A l \in Links : Target[l] = f => l = <<"chain", t>>
    <3>1. <<"chain", t>> \in Links /\ Target[<<"chain", t>>] = f BY LinkAt
    <3> QED BY <2>1, <3>1 DEF LinkInv
  <2>7. /\ \A h \in Futures : waiterNext[h] # f /\ waitingHead[h] # f
        /\ \A u \in Threads : detached[u] # f /\ (u # t => chain[u] # f)
    <3>1. ASSUME NEW h \in Futures PROVE waiterNext[h] # f /\ waitingHead[h] # f
      <4>1. <<"next", h>> # <<"chain", t>> /\ <<"head", h>> # <<"chain", t>> OBVIOUS
      <4>2. /\ <<"next", h>> \in Links /\ Target[<<"next", h>>] = waiterNext[h]
            /\ <<"head", h>> \in Links /\ Target[<<"head", h>>] = waitingHead[h]
        BY LinkAt
      <4> QED BY <2>6, <4>1, <4>2
    <3>2. ASSUME NEW u \in Threads PROVE detached[u] # f /\ (u # t => chain[u] # f)
      <4>1. <<"detached", u>> # <<"chain", t>> /\ (u # t => <<"chain", u>> # <<"chain", t>>)
        OBVIOUS
      <4>2. /\ <<"detached", u>> \in Links /\ Target[<<"detached", u>>] = detached[u]
            /\ <<"chain", u>> \in Links /\ Target[<<"chain", u>>] = chain[u]
        BY LinkAt
      <4> QED BY <2>6, <4>1, <4>2
    <3> QED BY <3>1, <3>2
  <2>8. /\ \A r : r # f => Chain(waiterNext, r) \subseteq Chain(waiterNext', r)
        /\ Chain(waiterNext, f) \subseteq Chain(waiterNext', waiterNext[f]) \cup {f}
    BY <2>1, <2>3, <2>7, LinkTypes, ChainCut, ZenonT(60)
  <2>9. CASE g \in Chain(waiterNext, waitingHead[dep[g]])
    BY <2>1, <2>7, <2>8, <2>9 DEF AwaitsNext
  <2>10. CASE \E u \in Threads : \/ g \in Chain(waiterNext, detached[u])
                                 \/ g \in Chain(waiterNext, chain[u])
                                 \/ pc[u] = "push" /\ cur[u] = g
    <3>1. PICK u \in Threads : \/ g \in Chain(waiterNext, detached[u])
                               \/ g \in Chain(waiterNext, chain[u])
                               \/ pc[u] = "push" /\ cur[u] = g
      BY <2>10
    <3>2. CASE g \in Chain(waiterNext, detached[u])
      BY <2>1, <2>7, <2>8, <3>2 DEF AwaitsNext
    <3>3. CASE u # t /\ g \in Chain(waiterNext, chain[u])
      BY <2>5, <2>7, <2>8, <3>3 DEF AwaitsNext
    <3>4. CASE u = t /\ g \in Chain(waiterNext, chain[u])
      <4>1. g = f \/ g \in Chain(waiterNext', chain'[t]) BY <2>4, <2>8, <3>4
      <4> QED BY <2>2, <2>4, <4>1 DEF AwaitsNext
    <3>5. CASE pc[u] = "push" /\ cur[u] = g BY <1>0, <2>2, <3>5 DEF AwaitsNext
    <3> QED BY <3>1, <3>2, <3>3, <3>4, <3>5
  <2> QED BY <2>9, <2>10 DEF Awaits
<1>5. CASE PromotePush(t)
  <2>1. UNCHANGED <<linkVars, detached, chain>> /\ cur[t] # g BY <1>5 DEF PromotePush
  <2>2. UNCHANGED <<waiterNext, waitingHead, detached, chain>> BY <2>1 DEF linkVars
  <2>3. CASE g \in Chain(waiterNext, waitingHead[dep[g]]) BY <2>2, <2>3 DEF AwaitsNext
  <2>4. CASE \E u \in Threads : \/ g \in Chain(waiterNext, detached[u])
                                \/ g \in Chain(waiterNext, chain[u])
                                \/ pc[u] = "push" /\ cur[u] = g
    BY <1>0, <2>1, <2>2, <2>4 DEF AwaitsNext
  <2> QED BY <2>3, <2>4 DEF Awaits
<1> QED BY <1>1, <1>2, <1>3, <1>4, <1>5 DEF Shared

(* A destroying thread changes only links of its own executor. *)
LEMMA DestroyerApart ==
    ASSUME TypeInv, PlaceInv, HomeInv, NEW e \in Executors, DestroyBegin(e) \/ DestroyerOwn(e)
    PROVE  /\ \A h \in Futures : home[h] # e =>
                 waiterNext'[h] = waiterNext[h] /\ waitingHead'[h] = waitingHead[h]
           /\ \A u \in Threads \ {e} : detached'[u] = detached[u] /\ chain'[u] = chain[u]
<1>1. \A u \in Threads \ {e} : detached'[u] = detached[u] /\ chain'[u] = chain[u]
  <2>1. /\ detached' = detached \/ \E x : detached' = [detached EXCEPT ![e] = x]
        /\ chain' = chain \/ \E x : chain' = [chain EXCEPT ![e] = x]
    BY DEF DestroyBegin, DestroyerOwn, DrainNext, DrainEnd, Join, WalkNext, WalkEnd,
           Disposed, Collect, CollectTail, DestroyEnd, threadVars
  <2> QED BY <2>1, LinkTypes
<1>2. ASSUME NEW h \in Futures, home[h] # e
      PROVE  waiterNext'[h] = waiterNext[h] /\ waitingHead'[h] = waitingHead[h]
  <2>1. CASE ~WalkNext(e) /\ ~Collect(e)
    BY <2>1 DEF DestroyBegin, DestroyerOwn, DrainNext, DrainEnd, Join, WalkEnd, Disposed,
                CollectTail, DestroyEnd, linkVars
  <2>2. CASE Collect(e)
    <3>1. /\ waitingHead' = waitingHead
          /\ \/ waiterNext' = waiterNext
             \/ tail[e] # None /\ waiterNext' = [waiterNext EXCEPT ![tail[e]] = detached[e]]
      BY <2>2 DEF Collect
    <3>2. tail[e] # None => home[tail[e]] = e BY DEF HomeInv
    <3> QED BY <1>2, <3>1, <3>2, LinkTypes
  <2>3. CASE WalkNext(e)
    <3> PICK g : g = Head(parked[e])
      OBVIOUS
    <3>1. /\ waitingHead' = Unlinked(g)[1] /\ waiterNext' = [Unlinked(g)[2] EXCEPT ![g] = None]
          /\ parked[e] # << >>
      BY <2>3 DEF WalkNext
    <3>2. /\ g \in Futures /\ \E i \in DOMAIN parked[e] : parked[e][i] = g
      BY <3>1, LinkTypes, TailHas
    <3>3. home[g] = e /\ Used(g) BY <3>2, UsedNow DEF PlaceInv, ParkedPlace
    <3>4. dep[g] # None => home[dep[g]] = e BY <3>2, <3>3 DEF HomeInv
    <3>5. waiterNext[h] # g
      <4>1. waiterNext[h] # None => home[waiterNext[h]] = home[h] BY DEF HomeInv
      <4> QED BY <1>2, <3>2, <3>3, <4>1, Distinct
    <3>6. \/ Unlinked(g) = <<waitingHead, waiterNext>>
          \/ /\ waitingHead[dep[g]] = g
             /\ Unlinked(g) = <<[waitingHead EXCEPT ![dep[g]] = waiterNext[g]], waiterNext>>
          \/ Unlinked(g) = <<waitingHead, [x \in Futures |-> IF waiterNext[x] = g THEN waiterNext[g]
                                           ELSE waiterNext[x]]>>
      BY DEF Unlinked
    <3>7. waitingHead'[h] = waitingHead[h]
      <4>1. \/ waitingHead' = waitingHead
            \/ waitingHead' = [waitingHead EXCEPT ![dep[g]] = waiterNext[g]]
        BY <3>1, <3>6
      <4>2. dep[g] # h BY <1>2, <3>4, Distinct
      <4> QED BY <4>1, <4>2, LinkTypes
    <3>8. waiterNext'[h] = waiterNext[h]
      <4> PICK n : n = Unlinked(g)[2]
        OBVIOUS
      <4>1. n = waiterNext \/ n = [x \in Futures |-> IF waiterNext[x] = g THEN waiterNext[g]
                                                    ELSE waiterNext[x]]
        BY <3>6
      <4>2. n[h] = waiterNext[h] /\ DOMAIN n = Futures BY <3>5, <4>1, LinkTypes
      <4>3. waiterNext' = [n EXCEPT ![g] = None] /\ h # g BY <1>2, <3>1, <3>3
      <4> QED BY <4>2, <4>3
    <3> QED BY <3>7, <3>8
  <2> QED BY <2>1, <2>2, <2>3
<1> QED BY <1>1, <1>2

LEMMA ReachDestroyer ==
    ASSUME TypeInv, PlaceInv, HomeInv, NEW e \in Executors, DestroyBegin(e) \/ DestroyerOwn(e),
           NEW g \in Futures, home[g] # e, dep[g] \in Futures, home[dep[g]] = home[g], Awaits(g)
    PROVE  AwaitsNext(g)
<1>0. e \in Threads /\ ExecutorOf(e) = e BY Distinct DEF Threads, ExecutorOf
<1> DEFINE P == {x \in Futures : home[x] = e}
<1>1. /\ \A h \in Futures : home[h] # e =>
            waiterNext'[h] = waiterNext[h] /\ waitingHead'[h] = waitingHead[h]
      /\ \A u \in Threads \ {e} : detached'[u] = detached[u] /\ chain'[u] = chain[u]
  BY DestroyerApart
<1>2. \A u \in Threads \ {e} : pc[u] = "push" => pc'[u] = "push" /\ cur'[u] = cur[u]
  BY <1>0, OnlyMine
<1>3. P \in SUBSET Futures /\ g \notin P
  OBVIOUS
<1>4. \A h \in P : waiterNext[h] \in P \cup {None}
  <2>1. ASSUME NEW h \in Futures, home[h] = e, waiterNext[h] # None
        PROVE  waiterNext[h] \in Futures /\ home[waiterNext[h]] = e
    BY <2>1, LinkTypes DEF HomeInv
  <2> QED BY <2>1
<1>5. \A h \in Futures \ P : waiterNext'[h] = waiterNext[h] BY <1>1
<1> HIDE DEF P
<1>6. \A r : g \in Chain(waiterNext, r) => g \in Chain(waiterNext', r)
  BY <1>3, <1>4, <1>5, ChainApart
<1>7. \A r \in P \cup {None} : g \notin Chain(waiterNext, r) BY <1>3, <1>4, ChainWithin
<1>8. detached[e] \in P \cup {None} /\ chain[e] \in P \cup {None}
  <2>1. detached[e] \in FutureOrNone /\ chain[e] \in FutureOrNone BY <1>0, LinkTypes
  <2>2. /\ detached[e] # None => home[detached[e]] = e
        /\ chain[e] # None => home[chain[e]] = e
    BY <1>0 DEF HomeInv
  <2> QED BY <2>1, <2>2 DEF P, FutureOrNone
<1>9. CASE g \in Chain(waiterNext, waitingHead[dep[g]])
  <2>1. waitingHead'[dep[g]] = waitingHead[dep[g]] BY <1>1
  <2> QED BY <1>6, <1>9, <2>1 DEF AwaitsNext
<1>10. CASE \E u \in Threads : \/ g \in Chain(waiterNext, detached[u])
                               \/ g \in Chain(waiterNext, chain[u])
                               \/ pc[u] = "push" /\ cur[u] = g
  <2>1. PICK u \in Threads : \/ g \in Chain(waiterNext, detached[u])
                             \/ g \in Chain(waiterNext, chain[u])
                             \/ pc[u] = "push" /\ cur[u] = g
    BY <1>10
  <2>2. u # e
    <3>1. pc[e] = "push" => home[cur[e]] = e BY <1>0 DEF HomeInv
    <3> QED BY <1>7, <1>8, <2>1, <3>1
  <2> QED BY <1>1, <1>2, <1>6, <2>1, <2>2 DEF AwaitsNext
<1> QED BY <1>9, <1>10 DEF Awaits

(* A promoted future leaves the registry of an open executor. *)
LEMMA PushedLeaves ==
    ASSUME TypeInv, LinkInv, PlaceInv, [Next]_vars, NEW t \in Threads, PromotePush(t),
           NEW e \in Executors, ~Stopping(e), NEW i \in DOMAIN parked'[e]
    PROVE  parked'[e][i] # cur[t]
<1> PICK f, x : f = cur[t] /\ x = home[f]
  OBVIOUS
<1>1. pc[t] = "push" /\ home' = home BY DEF PromotePush
<1>2. f \in Futures /\ x \in Executors BY <1>1, UsedNow DEF CarryPcs, TypeInv, UsedInv
<1>3. home'[parked'[e][i]] = e
  <2>1. PlaceInv' BY PlaceStep
  <2> QED BY <2>1 DEF PlaceInv, ParkedPlace
<1>4. CASE Stopping(x) BY <1>1, <1>3, <1>4
<1>5. CASE ~Stopping(x)
  <2>1. f \in heap'[x]
    <3>1. heap' = [heap EXCEPT ![x] = @ \cup {f}] BY <1>5 DEF PromotePush
    <3> QED BY <1>2, <3>1 DEF TypeInv, TypeOK
  <2>2. \A j \in DOMAIN parked'[x] : parked'[x][j] # f
    <3>1. PlaceInv' BY PlaceStep
    <3> QED BY <1>2, <2>1, <3>1 DEF PlaceInv, HeapPlace, Registered
  <2> QED BY <1>1, <1>3, <2>2
<1> QED BY <1>4, <1>5

LEMMA ReachStep ==
    ASSUME ~CrossExecutor
    PROVE  TypeInv /\ LinkInv /\ PlaceInv /\ HoldsInv /\ HomeInv /\ ReachInv /\ [Next]_vars
              => ReachInv'
<1> SUFFICES ASSUME TypeInv, LinkInv, PlaceInv, HoldsInv, HomeInv, ReachInv, [Next]_vars
             PROVE  ReachInv'
  OBVIOUS
<1>1. Grows /\ QueueFlow BY NextGrows, QueueFlows
<1>2. ASSUME NEW e \in Executors, NEW g \in Futures, ~Stopping(e), phase'[e] = "open",
             \E i \in DOMAIN parked[e] : parked[e][i] = g,
             \E i \in DOMAIN parked'[e] : parked'[e][i] = g
      PROVE  dep'[g] = dep[g] /\ AwaitsNext(g)
  <2>1. Used(g) /\ home[g] = e BY <1>2, UsedNow DEF PlaceInv, ParkedPlace
  <2>2. dep[g] # None BY <1>2 DEF HoldsInv
  <2>3. dep[g] \in Futures /\ home[dep[g]] = home[g] BY <2>1, <2>2, UsedNow DEF HomeInv
  <2>4. Awaits(g) BY <1>2 DEF ReachInv
  <2>5. dep'[g] = dep[g] BY <1>1, <2>1 DEF Grows
  <2>6. CASE ProgramOwn BY <2>3, <2>4, <2>5, <2>6, ReachProgram
  <2>7. CASE \E w \in Workers : WorkerOwn(w) BY <2>4, <2>5, <2>7, ReachWorker
  <2>8. ASSUME NEW t \in Threads, Shared(t) PROVE AwaitsNext(g)
    <3>1. PromotePush(t) => cur[t] # g BY <1>2, PushedLeaves
    <3> QED BY <2>3, <2>4, <2>8, <3>1, ReachShared
  <2>9. ASSUME NEW x \in Executors, DestroyBegin(x) \/ DestroyerOwn(x) PROVE AwaitsNext(g)
    <3>1. x # e
      <4>1. CASE DestroyBegin(x)
        <5>1. phase' = [phase EXCEPT ![x] = "drain"] BY <4>1 DEF DestroyBegin
        <5>2. phase'[x] = "drain" BY <5>1 DEF TypeInv, TypeOK
        <5> QED BY <1>2, <5>2
      <4>2. CASE DestroyerOwn(x)
        <5>1. phase[x] # "open"
          BY <4>2 DEF DestroyerOwn, DrainNext, DrainEnd, Join, WalkNext, WalkEnd, Disposed,
                      Collect, CollectTail, DestroyEnd, TypeInv, ControlInv, DestroyerPlace
        <5> QED BY <1>2, <5>1 DEF Stopping
      <4> QED BY <2>9, <4>1, <4>2
    <3> QED BY <2>1, <2>3, <2>4, <2>9, <3>1, ReachDestroyer
  <2>10. CASE UNCHANGED vars
    <3>1. UNCHANGED <<linkVars, detached, chain, pc, cur>> BY <2>10 DEF vars, threadVars
    <3> QED BY <2>4, <2>5, <3>1, ReachSame
  <2> QED BY <2>5, <2>6, <2>7, <2>8, <2>9, <2>10, Steps
<1>3. ASSUME NEW e \in Executors, phase'[e] = "open", NEW i \in DOMAIN parked'[e],
             NEW g, g = parked'[e][i]
      PROVE  \/ g \in Chain(waiterNext', waitingHead'[dep'[g]])
             \/ \E t \in Threads : \/ g \in Chain(waiterNext', detached'[t])
                                   \/ g \in Chain(waiterNext', chain'[t])
                                   \/ pc'[t] = "push" /\ cur'[t] = g
  <2>1. ~Stopping(e) BY <1>1, <1>3 DEF Grows, Stopping
  <2>2. CASE Registered(e, g)
    <3>1. \E j \in DOMAIN parked[e] : parked[e][j] = g BY <2>2 DEF Registered
    <3>2. g \in Futures BY <3>1, UsedNow
    <3>3. dep'[g] = dep[g] /\ AwaitsNext(g) BY <1>2, <1>3, <2>1, <3>1, <3>2
    <3> QED BY <3>3 DEF AwaitsNext
  <2>3. CASE \E f \in Futures, d \in Futures : Accept(f, e, d) /\ MustPark(d) /\ f = g
    <3>1. PICK f \in Futures, d \in Futures : Accept(f, e, d) /\ MustPark(d) /\ f = g BY <2>3
    <3>2. d \in FutureOrNone BY DEF FutureOrNone
    <3>3. dep'[f] = d BY <3>1, <3>2, AcceptOpens
    <3>4. f \in Chain(waiterNext', waitingHead'[d]) BY <3>1, <3>2, ReachAccepted
    <3> QED BY <3>1, <3>3, <3>4
  <2>4. ParkedFlow(e) BY <1>1 DEF QueueFlow
  <2> QED BY <1>3, <2>2, <2>3, <2>4 DEF ParkedFlow
<1> QED BY <1>3 DEF ReachInv, Awaits, Stopping

LEMMA ReachInit == Init => ReachInv
<1>1. Init => \A e \in Executors : DOMAIN parked[e] = {} BY DEF Init
<1> QED BY <1>1 DEF ReachInv

(* A parked future can be found by whoever must wake it, at whatever moment its antecedent
   completes: through the waiter chain of the antecedent, in the chain a thread detached or
   is promoting, or by the shutdown of its executor.  Continuations go to the executor of
   their antecedent. *)
THEOREM ParkedReachableAlways ==
    ASSUME ~CrossExecutor
    PROVE  Spec => []ParkedReachable
<1> DEFINE Inv == TypeInv /\ LinkInv /\ PlaceInv /\ HoldsInv /\ HomeInv /\ ReachInv
<1>1. Init => Inv BY TypeInit, LinkInit, PlaceInit, HoldsInit, HomeInit, ReachInit
<1>2. Inv /\ [Next]_vars => Inv'
  BY TypeStep, LinkStep, PlaceStep, HoldsStep, HomeStep, ReachStep
<1>3. Inv => ParkedReachable
  <2> SUFFICES ASSUME Inv, NEW e \in Executors, NEW i \in DOMAIN parked[e], ~Stopping(e),
                      NEW f, f = parked[e][i]
               PROVE  \/ f \in ChainFrom(waitingHead[dep[f]])
                      \/ \E t \in Threads : f \in Undelivered(t)
    BY DEF ParkedReachable
  <2>1. Awaits(f) BY DEF ReachInv
  <2> QED BY <2>1, ChainIs DEF Awaits
<1> QED BY <1>1, <1>2, <1>3, PTL DEF Spec
=============================================================================
