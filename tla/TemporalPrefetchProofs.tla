----------------------- MODULE TemporalPrefetchProofs -----------------------
(***************************************************************************)
(* Proofs about TemporalPrefetch: the safety of the prefetch queue for     *)
(* every set of callers, every capacity, every requests and windows, and   *)
(* every bound on the calls and the refusals.                              *)
(***************************************************************************)
EXTENDS TemporalPrefetch, FiniteSetTheorems, FunctionTheorems, SequenceTheorems,
        WellFoundedInduction, TLAPS

(* A request a window has left. *)
Asked == [key : Keys, priority : Int]

(* The pending entries were requested after the last cancellation. *)
EntriesInv ==
    /\ IsFiniteSet(entries)
    /\ lastCancel \in Nat /\ lastCancel <= serial
    /\ \A e \in entries : lastCancel < e.serial /\ e.serial <= serial

(* Where the threads can be and what they hold there. *)
CallerPlace(c) ==
    /\ pc[c] \in {"idle", "window", "kick", "submit", "undo", "store",
                  "waiting", "asleep", "freeing", "destroyed"}
    /\ pc[c] = "window" => todo[c] # <<>>
    /\ todo[c] # <<>> => pc[c] \in {"window", "kick", "submit", "undo", "store"}
WorkerPlace ==
    /\ pc[Worker] \in {"idle", "start", "load", "after", "submit", "undo", "store",
                       "release", "freeing", "complete"}
    /\ task = None <=> pc[Worker] = "idle"
Holds(t) ==
    /\ mine[t] # None => pc[t] \in {"submit", "undo", "store", "freeing"}
    /\ pc[t] \in {"store", "freeing"} => mine[t] # None

PlaceInv ==
    /\ \A c \in Callers : CallerPlace(c)
    /\ WorkerPlace
    /\ \A t \in Threads : Holds(t)
    /\ todo \in [Callers -> Seq(Asked)]

(* The worker loads an entry that was pending. *)
WorkInv ==
    /\ work # None => pc[Worker] = "load"
    /\ pc[Worker] = "load" => work \in Entry /\ work.serial <= serial

(* The queue is empty while it is destroyed, and its drain is over afterwards. *)
StopInv ==
    /\ stopping =>
          /\ entries = {}
          /\ \A c \in Callers :
                /\ pc[c] \in {"idle", "waiting", "asleep", "freeing", "destroyed"}
                /\ pc[c] \in {"freeing", "destroyed"} => ~active
    /\ \A c \in Callers : pc[c] = "destroyed" => stopping

(* A drain and its future go together. *)
FutureInv ==
    /\ \A d \in DOMAIN drains :
          /\ drains[d].status = "running" <=> task = d
          /\ drains[d].cancelled => drains[d].status # "queued"
          /\ drains[d].previous # None =>
                /\ drains[d].previous \in DOMAIN drains
                /\ drains[drains[d].previous].status # "queued"
    /\ pc[Worker] = "store" => drains[mine[Worker]].status = "queued"

(* The three kinds of drainers. *)
CallerDrains(c) == pc[c] \in {"submit", "undo"}
WorkerDrains == pc[Worker] \in {"start", "load", "after", "submit", "undo"}
Queued(d) == drains[d].status = "queued"

DrainInv ==
    /\ active <=> \/ \E c \in Callers : CallerDrains(c)
                  \/ WorkerDrains
                  \/ \E d \in DOMAIN drains : Queued(d)
    /\ \A c \in Callers : CallerDrains(c) =>
          /\ ~WorkerDrains
          /\ \A d \in DOMAIN drains : ~Queued(d)
          /\ \A b \in Callers : CallerDrains(b) => b = c
    /\ WorkerDrains => \A d \in DOMAIN drains : ~Queued(d)
    /\ \A d, e \in DOMAIN drains : Queued(d) /\ Queued(e) => d = e

(* Only a refused submission is undone. *)
DeniedInv == \A t \in Threads : pc[t] = "undo" => denied

(* A future has at most one owner of any of the three kinds, and one unless it
   was freed or lost. *)
OwnerInv ==
    /\ \A t, u \in Threads : mine[t] = mine[u] /\ mine[t] # None => t = u
    /\ \A d, e \in DOMAIN drains :
          drains[d].previous = drains[e].previous /\ drains[d].previous # None => d = e
    /\ \A t \in Threads, d \in DOMAIN drains :
          mine[t] # None => mine[t] # drains[d].previous
    /\ activeTask # None =>
          /\ \A t \in Threads : mine[t] # activeTask
          /\ \A d \in DOMAIN drains : drains[d].previous # activeTask
    /\ \A d \in DOMAIN drains :
          (drains[d].status # "freed" /\ d \notin lost) <=>
             \/ \E t \in Threads : mine[t] = d
             \/ \E e \in DOMAIN drains : drains[e].previous = d
             \/ activeTask = d

(* The load is cancelled when its entry was requested before a cancellation. *)
StaleInv == pc[Worker] = "load" => (cancelled <=> work.serial <= lastCancel)

(* The inductive invariant: every part is needed for the next ones. *)
IInv ==
    /\ TypeOK /\ EntriesInv /\ PlaceInv /\ WorkInv /\ StopInv /\ FutureInv
    /\ DrainInv /\ DeniedInv /\ OwnerInv /\ StaleInv /\ NoneStranded

-----------------------------------------------------------------------------
(* The entry to load and the entry to drop *)

\* A finite set has a first element in any strict total order.
LEMMA First ==
    ASSUME NEW S, IsFiniteSet(S), S # {}, NEW R,
           \A e \in S : <<e, e>> \notin R,
           \A e, f, g \in S : <<e, f>> \in R /\ <<f, g>> \in R => <<e, g>> \in R,
           \A e, f \in S : e # f => <<e, f>> \in R \/ <<f, e>> \in R
    PROVE  \E e \in S : \A f \in S \ {e} : <<e, f>> \in R
<1> DEFINE Below(e) == {f \in S : <<f, e>> \in R}
           All == {T \in SUBSET S : \E e \in S : T = Below(e)}
<1>1. IsWellFoundedOn(StrictSubsetOrdering(S), SUBSET S)
  BY FS_StrictSubsetOrderingWellFounded, FS_FiniteSubsetsOfFinite
<1>2. All \subseteq SUBSET S /\ All # {}
  <2>1. \A e \in S : Below(e) \subseteq S
    OBVIOUS
  <2>2. PICK e \in S : TRUE
    OBVIOUS
  <2>3. Below(e) \in All
    OBVIOUS
  <2> QED BY <2>1, <2>3
<1>3. PICK x \in All : \A y \in All : <<y, x>> \notin StrictSubsetOrdering(S)
  <2> HIDE DEF All
  <2> QED BY <1>1, <1>2, WFMin
<1>4. PICK e \in S : x = Below(e)
  OBVIOUS
<1>5. ASSUME NEW f \in S \ {e}, <<f, e>> \in R PROVE FALSE
  <2>1. Below(f) \subseteq Below(e)
    BY <1>5
  <2>2. f \in Below(e) /\ f \notin Below(f)
    BY <1>5
  <2>3. <<Below(f), Below(e)>> \in StrictSubsetOrdering(S)
    BY <2>1, <2>2 DEF StrictSubsetOrdering
  <2> QED BY <1>3, <1>4, <2>3
<1> QED BY <1>5

\* The order in which entries are taken is strict and total, since their serials
\* differ.
LEMMA BeforeOrders ==
    ASSUME TypeOK
    PROVE  /\ \A e \in entries : ~Before(e, e)
           /\ \A e, f, g \in entries : Before(e, f) /\ Before(f, g) => Before(e, g)
           /\ \A e, f \in entries : e # f => Before(e, f) \/ Before(f, e)
<1>1. \A e \in entries : e.priority \in Int /\ e.serial \in Int
  BY DEF TypeOK, Entry
<1>2. \A e, f \in entries : e # f => e.serial # f.serial
  BY DEF TypeOK
<1> QED BY <1>1, <1>2 DEF Before

\* When entries are pending, the drain takes one of them.
LEMMA BestPending ==
    ASSUME TypeOK, IsFiniteSet(entries), entries # {}
    PROVE  Best \in entries
<1> DEFINE R == {p \in entries \X entries : Before(p[1], p[2])}
<1>0. \A e, f \in entries : <<e, f>> \in R <=> Before(e, f)
  OBVIOUS
<1> HIDE DEF R
<1>1. \E e \in entries : \A f \in entries \ {e} : <<e, f>> \in R
  BY <1>0, BeforeOrders, First
<1> QED BY <1>0, <1>1 DEF Best

\* And a request that displaces an entry displaces one of them.
LEMMA WorstPending ==
    ASSUME TypeOK, IsFiniteSet(entries), entries # {}
    PROVE  Worst \in entries
<1> DEFINE R == {p \in entries \X entries : Before(p[2], p[1])}
<1>0. \A e, f \in entries : <<e, f>> \in R <=> Before(f, e)
  OBVIOUS
<1> HIDE DEF R
<1>1. \E e \in entries : \A f \in entries \ {e} : <<e, f>> \in R
  BY <1>0, BeforeOrders, First
<1> QED BY <1>0, <1>1 DEF Worst

-----------------------------------------------------------------------------
(* The pending entries *)

EntriesOK ==
    /\ entries \subseteq Entry /\ Cardinality(entries) <= Capacity
    /\ \A e, f \in entries : e # f => e.key # f.key /\ e.serial # f.serial
    /\ serial \in Nat
    /\ EntriesInv

\* A more urgent request for a pending frame raises its priority and moves
\* nothing else.
LEMMA RaiseKeeps ==
    ASSUME TypeOK, EntriesInv, NEW key \in Keys, NEW priority \in Int,
           entries' = {IF e.key = key /\ priority > e.priority
                       THEN [e EXCEPT !.priority = priority] ELSE e : e \in entries},
           serial' = serial, lastCancel' = lastCancel
    PROVE  EntriesOK'
<1> DEFINE f == [e \in entries |-> IF e.key = key /\ priority > e.priority
                                   THEN [e EXCEPT !.priority = priority] ELSE e]
<1>1. \A e \in entries : e \in Entry
  BY DEF TypeOK
<1>2. \A e \in entries :
        f[e] \in Entry /\ f[e].key = e.key /\ f[e].serial = e.serial
  BY <1>1 DEF Entry
<1>3. entries' = {f[e] : e \in entries}
  OBVIOUS
<1> HIDE DEF f
<1>4. f \in [entries -> entries']
  BY <1>3 DEF f
<1>5. f \in Surjection(entries, entries')
  BY <1>3, <1>4, Fun_IsSurj
<1>6. IsFiniteSet(entries') /\ Cardinality(entries') <= Cardinality(entries)
  BY <1>5, FS_Surjection DEF EntriesInv
<1>7. Cardinality(entries') <= Capacity
  <2>1. Cardinality(entries') \in Nat /\ Cardinality(entries) \in Nat
    BY <1>6, FS_CardinalityType DEF EntriesInv
  <2> QED BY <1>6, <2>1, ConstantsAssumption DEF TypeOK, ConstantsAssumption
<1>8. \A e, g \in entries' : e # g => e.key # g.key /\ e.serial # g.serial
  BY <1>2, <1>3 DEF TypeOK
<1>9. \A e \in entries' : e \in Entry /\ lastCancel < e.serial /\ e.serial <= serial
  BY <1>2, <1>3 DEF EntriesInv
<1> QED BY <1>6, <1>7, <1>8, <1>9 DEF EntriesOK, EntriesInv, TypeOK

\* Taking an entry away keeps the rest in order.
LEMMA RemoveKeeps ==
    ASSUME TypeOK, EntriesInv, entries' \subseteq entries,
           serial' = serial, lastCancel' = lastCancel
    PROVE  EntriesOK'
<1>1. IsFiniteSet(entries') /\ Cardinality(entries') <= Cardinality(entries)
  BY FS_Subset DEF EntriesInv
<1>2. Cardinality(entries') \in Nat /\ Cardinality(entries) \in Nat
  BY <1>1, FS_CardinalityType DEF EntriesInv
<1>3. Cardinality(entries') <= Capacity
  BY <1>1, <1>2, ConstantsAssumption DEF TypeOK, ConstantsAssumption
<1> QED BY <1>1, <1>3 DEF EntriesOK, EntriesInv, TypeOK

\* A new frame gets the next serial and fits, in the place of the worst entry
\* when the array is full.
LEMMA InsertKeeps ==
    ASSUME TypeOK, EntriesInv, NEW key \in Keys, NEW priority \in Int,
           \A e \in entries : e.key # key, Insert(key, priority),
           lastCancel' = lastCancel
    PROVE  EntriesOK'
<1> DEFINE kept == IF Cardinality(entries) = Capacity THEN entries \ {Worst} ELSE entries
           new == [key |-> key, priority |-> priority, serial |-> serial + 1]
<1>1. entries' = kept \cup {new} /\ serial' = serial + 1
  BY DEF Insert
<1>2. IsFiniteSet(entries) /\ Cardinality(entries) \in Nat /\ Capacity \in Nat \ {0}
  BY FS_CardinalityType, ConstantsAssumption DEF EntriesInv, ConstantsAssumption
<1>3. kept \subseteq entries /\ IsFiniteSet(kept) /\ Cardinality(kept) < Capacity
  <2>1. CASE Cardinality(entries) = Capacity
    <3>1. entries # {}
      BY <1>2, <2>1, FS_EmptySet
    <3>2. Worst \in entries
      BY <1>2, <3>1, WorstPending
    <3>3. kept = entries \ {Worst}
      BY <2>1
    <3> HIDE DEF kept
    <3>4. IsFiniteSet(kept) /\ Cardinality(kept) = Cardinality(entries) - 1
      BY <1>2, <3>2, <3>3, FS_RemoveElement
    <3> QED BY <1>2, <2>1, <3>3, <3>4
  <2>2. CASE Cardinality(entries) # Capacity
    BY <1>2, <2>2 DEF TypeOK
  <2> QED BY <2>1, <2>2
<1>4. Cardinality(kept) \in Nat
  BY <1>3, FS_CardinalityType
<1>5. new \in Entry /\ new.key = key /\ new.serial = serial + 1
  <2>1. serial + 1 \in Nat
    BY DEF TypeOK
  <2>2. new \in Entry
    BY <2>1 DEF Entry
  <2>3. new.key = key /\ new.serial = serial + 1
    OBVIOUS
  <2> QED BY <2>2, <2>3
<1> HIDE DEF kept, new
<1>6. IsFiniteSet(entries') /\ Cardinality(entries') <= Capacity
  <2>1. /\ IsFiniteSet(entries')
        /\ Cardinality(entries') \in {Cardinality(kept), Cardinality(kept) + 1}
    BY <1>1, <1>3, FS_AddElement
  <2> QED BY <2>1, <1>2, <1>3, <1>4
<1>7. \A e \in kept : e \in Entry /\ e.key # key /\ lastCancel < e.serial /\ e.serial <= serial
  BY <1>3 DEF TypeOK, EntriesInv
<1>8. serial \in Nat /\ lastCancel \in Nat /\ lastCancel <= serial
  BY DEF TypeOK, EntriesInv
<1>9. \A e \in entries' : e \in Entry /\ lastCancel < e.serial /\ e.serial <= serial + 1
  BY <1>1, <1>5, <1>7, <1>8 DEF Entry
<1>10. \A e, g \in entries' : e # g => e.key # g.key /\ e.serial # g.serial
  <2>1. \A e, g \in kept : e # g => e.key # g.key /\ e.serial # g.serial
    BY <1>3 DEF TypeOK
  <2>2. \A e \in kept : e.key # new.key /\ e.serial # new.serial
    BY <1>5, <1>7, <1>8 DEF Entry
  <2> QED BY <1>1, <2>1, <2>2
<1> QED BY <1>1, <1>6, <1>8, <1>9, <1>10 DEF EntriesOK, EntriesInv

-----------------------------------------------------------------------------
(* Where a step takes the threads *)

\* The worker is not a caller, and None not a future.
LEMMA Distinct ==
    /\ Worker \in Threads /\ Callers \subseteq Threads /\ Worker \notin Callers
    /\ None \notin Nat
BY ConstantsAssumption DEF ConstantsAssumption, Threads

(* Thread t goes on at l; the others stay, or wake. *)
Moves(t, l) ==
    /\ pc' \in [Threads -> Labels]
    /\ pc'[t] = l
    /\ \A u \in Threads : u # t =>
          pc'[u] = pc[u] \/ (pc[u] = "asleep" /\ pc'[u] = "waiting")

\* A step of one thread, with or without a broadcast on queue->condition.
LEMMA Moved ==
    ASSUME TypeOK, NEW t \in Threads, NEW l \in Labels, Goto(t, l) \/ WakeGoto(t, l)
    PROVE  Moves(t, l)
<1>1. pc \in [Threads -> Labels]
  BY DEF TypeOK
<1>2. CASE Goto(t, l)
  <2>1. pc' = [pc EXCEPT ![t] = l]
    BY <1>2 DEF Goto
  <2>2. pc' \in [Threads -> Labels] /\ pc'[t] = l
    BY <1>1, <2>1
  <2>3. \A u \in Threads : u # t => pc'[u] = pc[u]
    BY <1>1, <2>1
  <2> QED BY <2>2, <2>3 DEF Moves
<1>3. CASE WakeGoto(t, l)
  <2>1. "waiting" \in Labels
    BY DEF Labels
  <2>2. pc' = [u \in Threads |-> IF u = t THEN l
                                 ELSE IF pc[u] = "asleep" THEN "waiting" ELSE pc[u]]
    BY <1>3 DEF WakeGoto
  <2>3. pc' \in [Threads -> Labels] /\ pc'[t] = l
    BY <1>1, <2>1, <2>2
  <2>4. \A u \in Threads : u # t =>
          pc'[u] = pc[u] \/ (pc[u] = "asleep" /\ pc'[u] = "waiting")
    BY <2>2
  <2> QED BY <2>3, <2>4 DEF Moves
<1> QED BY <1>2, <1>3

\* The requests and the windows of the program are about frames of the range.
LEMMA Inputs ==
    /\ \A r \in Requests : r[1] \in Keys /\ r[2] \in Int
    /\ \A w \in Windows : /\ w[1] \in Keys /\ w[2] \in -1 .. 1
                          /\ w[3] \in Nat /\ w[4] \in Nat
<1>1. \A r \in (0 .. LastKey) \X Int : r[1] \in 0 .. LastKey /\ r[2] \in Int
  OBVIOUS
<1>2. \A w \in (0 .. LastKey) \X (-1 .. 1) \X Nat \X Nat :
        w[1] \in 0 .. LastKey /\ w[2] \in -1 .. 1 /\ w[3] \in Nat /\ w[4] \in Nat
  OBVIOUS
<1> QED BY <1>1, <1>2, ConstantsAssumption DEF ConstantsAssumption, Keys

\* A window asks for frames of the range only, near either end of it.
LEMMA NeighboursType ==
    ASSUME NEW key \in Keys, NEW up \in BOOLEAN, NEW count \in Nat, NEW priority \in Int
    PROVE  Neighbours(key, up, count, priority) \in Seq(Asked)
<1> DEFINE reach == IF up THEN LastKey - key ELSE key
           n == IF count < reach THEN count ELSE reach
           s == [i \in 1 .. n |-> [key |-> IF up THEN key + i ELSE key - i,
                                   priority |-> priority - i]]
<1>1. LastKey \in Nat /\ key \in 0 .. LastKey
  BY ConstantsAssumption DEF ConstantsAssumption, Keys
<1>2. reach \in Nat /\ n \in Nat /\ n <= reach
  BY <1>1
<1>3. \A i \in 1 .. n : s[i] \in Asked
  <2> TAKE i \in 1 .. n
  <2>1. i \in Int /\ 1 <= i /\ i <= reach
    BY <1>2
  <2>2. (IF up THEN key + i ELSE key - i) \in 0 .. LastKey
    BY <1>1, <2>1
  <2>3. priority - i \in Int
    BY <2>1
  <2> QED BY <2>2, <2>3 DEF Asked, Keys
<1>4. s \in [1 .. n -> Asked]
  <2> HIDE DEF n
  <2> QED BY <1>3
<1>5. s \in Seq(Asked)
  <2> HIDE DEF s, n
  <2> QED BY <1>2, <1>4
<1> QED BY <1>5 DEF Neighbours

(* The requests of a window, as fviz_temporal_prefetch_queue_request_window makes them. *)
WindowRequests(key, d, ahead, behind) ==
    <<[key |-> key, priority |-> IntMax]>>
    \o Neighbours(key, d >= 0, ahead, AheadPriority)
    \o Neighbours(key, d < 0, behind, BehindPriority)

\* There is at least the request for the current frame.
LEMMA WindowType ==
    ASSUME NEW key \in Keys, NEW d \in Int, NEW ahead \in Nat, NEW behind \in Nat
    PROVE  /\ WindowRequests(key, d, ahead, behind) \in Seq(Asked)
           /\ WindowRequests(key, d, ahead, behind) # <<>>
<1> DEFINE s == <<[key |-> key, priority |-> IntMax]>>
           a == Neighbours(key, d >= 0, ahead, AheadPriority)
           b == Neighbours(key, d < 0, behind, BehindPriority)
<1>1. s \in Seq(Asked) /\ Len(s) = 1
  <2>1. [key |-> key, priority |-> IntMax] \in Asked
    BY DEF Asked, IntMax
  <2> QED BY <2>1
<1>2. a \in Seq(Asked) /\ b \in Seq(Asked)
  <2>1. (d >= 0) \in BOOLEAN /\ (d < 0) \in BOOLEAN
    OBVIOUS
  <2>2. AheadPriority \in Int /\ BehindPriority \in Int
    BY DEF AheadPriority, BehindPriority
  <2>3. a \in Seq(Asked)
    BY <2>1, <2>2, NeighboursType
  <2>4. b \in Seq(Asked)
    BY <2>1, <2>2, NeighboursType
  <2> QED BY <2>3, <2>4
<1> HIDE DEF s, a, b
<1>3. s \o a \in Seq(Asked) /\ Len(s \o a) = Len(s) + Len(a)
  BY <1>1, <1>2, ConcatProperties, Zenon
<1>4. (s \o a) \o b \in Seq(Asked) /\ Len((s \o a) \o b) = Len(s \o a) + Len(b)
  BY <1>2, <1>3, ConcatProperties, Zenon
<1>5. Len(s \o a \o b) # 0
  <2>1. Len(a) \in Nat /\ Len(b) \in Nat
    BY <1>2
  <2> QED BY <1>1, <1>3, <1>4, <2>1
<1>6. s \o a \o b # <<>>
  <2>1. Len(<<>>) = 0
    OBVIOUS
  <2> QED BY <1>5, <2>1, Zenon
<1> QED BY <1>4, <1>6, Zenon DEF s, a, b, WindowRequests

\* The calls of the program.
LEMMA CallPaths ==
    ASSUME TypeOK, NEW c \in Callers
    PROVE  /\ \A key, priority : Request(c, key, priority) =>
                 pc[c] = "idle" /\ (Moves(c, "idle") \/ Moves(c, "kick"))
           /\ \A key, d, ahead, behind : Window(c, key, d, ahead, behind) =>
                 pc[c] = "idle" /\ Moves(c, "window")
           /\ Cancel(c) => pc[c] = "idle" /\ Moves(c, "idle")
           /\ WaitIdle(c) => pc[c] = "idle" /\ Moves(c, "waiting")
           /\ Destroy(c) => pc[c] = "idle" /\ Moves(c, "waiting")
<1>1. c \in Threads /\ {"idle", "kick", "window", "waiting"} \subseteq Labels
  BY Distinct DEF Labels
<1>2. ASSUME NEW key, NEW priority, Request(c, key, priority)
      PROVE  pc[c] = "idle" /\ (Moves(c, "idle") \/ Moves(c, "kick"))
  <2>1. Goto(c, "idle") \/ Goto(c, "kick")
    BY <1>2 DEF Request, Enqueue
  <2> QED BY <1>1, <1>2, <2>1, Moved DEF Request, Calls
<1>3. ASSUME NEW key, NEW d, NEW ahead, NEW behind, Window(c, key, d, ahead, behind)
      PROVE  pc[c] = "idle" /\ Moves(c, "window")
  <2>1. WakeGoto(c, "window")
    BY <1>3 DEF Window
  <2> QED BY <1>1, <1>3, <2>1, Moved DEF Window, Calls
<1>4. Cancel(c) => pc[c] = "idle" /\ Moves(c, "idle")
  BY <1>1, Moved DEF Cancel, Calls
<1>5. WaitIdle(c) => pc[c] = "idle" /\ Moves(c, "waiting")
  BY <1>1, Moved DEF WaitIdle, Calls
<1>6. Destroy(c) => pc[c] = "idle" /\ Moves(c, "waiting")
  BY <1>1, Moved DEF Destroy
<1> QED BY <1>2, <1>3, <1>4, <1>5, <1>6

\* The callers inside a call.
LEMMA CallerPaths ==
    ASSUME TypeOK, NEW c \in Callers
    PROVE  /\ WindowRequest(c) =>
                 /\ pc[c] = "window"
                 /\ \/ Moves(c, "kick")
                    \/ Moves(c, IF Len(todo[c]) = 1 THEN "idle" ELSE "window")
           /\ Kick(c) =>
                 /\ pc[c] = "kick"
                 /\ IF NothingToStart THEN Moves(c, Caller(c)) ELSE Moves(c, "submit")
           /\ KickSubmit(c) => pc[c] = "submit" /\ (Moves(c, "store") \/ Moves(c, "undo"))
           /\ KickUndo(c) => pc[c] = "undo" /\ Moves(c, Caller(c))
           /\ KickStore(c) => pc[c] = "store" /\ Moves(c, Caller(c))
           /\ Await(c) =>
                 /\ pc[c] = "waiting"
                 /\ Moves(c, IF Busy THEN "asleep"
                             ELSE IF activeTask = None THEN Ended ELSE "freeing")
           /\ Freed(c) => pc[c] = "freeing" /\ Moves(c, Ended)
<1>1. /\ c \in Threads /\ Caller(c) \in Labels /\ Ended \in Labels
      /\ {"idle", "kick", "window", "submit", "store", "undo", "asleep", "freeing"}
            \subseteq Labels
  BY Distinct DEF Labels, Caller, Ended
<1>2. ASSUME WindowRequest(c)
      PROVE  /\ pc[c] = "window"
             /\ \/ Moves(c, "kick")
                \/ Moves(c, IF Len(todo[c]) = 1 THEN "idle" ELSE "window")
  <2>1. Goto(c, "kick") \/ Goto(c, IF Len(todo[c]) = 1 THEN "idle" ELSE "window")
    BY <1>2 DEF WindowRequest, Enqueue
  <2>2. (IF Len(todo[c]) = 1 THEN "idle" ELSE "window") \in Labels
    BY <1>1
  <2> QED BY <1>1, <1>2, <2>1, <2>2, Moved DEF WindowRequest
<1>3. ASSUME Kick(c)
      PROVE  /\ pc[c] = "kick"
             /\ IF NothingToStart THEN Moves(c, Caller(c)) ELSE Moves(c, "submit")
  BY <1>1, <1>3, Moved DEF Kick
<1>4. KickSubmit(c) => pc[c] = "submit" /\ (Moves(c, "store") \/ Moves(c, "undo"))
  BY <1>1, Moved DEF KickSubmit, SubmitAccepted
<1>5. KickUndo(c) => pc[c] = "undo" /\ Moves(c, Caller(c))
  BY <1>1, Moved DEF KickUndo
<1>6. KickStore(c) => pc[c] = "store" /\ Moves(c, Caller(c))
  BY <1>1, Moved DEF KickStore
<1>7. ASSUME Await(c)
      PROVE  /\ pc[c] = "waiting"
             /\ Moves(c, IF Busy THEN "asleep"
                         ELSE IF activeTask = None THEN Ended ELSE "freeing")
  <2> DEFINE l == IF Busy THEN "asleep" ELSE IF activeTask = None THEN Ended ELSE "freeing"
  <2>1. pc[c] = "waiting" /\ Goto(c, l)
    BY <1>7 DEF Await
  <2>2. l \in Labels
    BY <1>1
  <2> HIDE DEF l
  <2>3. Moves(c, l)
    BY <1>1, <2>1, <2>2, Moved
  <2> QED BY <2>1, <2>3 DEF l
<1>8. Freed(c) => pc[c] = "freeing" /\ Moves(c, Ended)
  BY <1>1, Moved DEF Freed
<1> QED BY <1>2, <1>3, <1>4, <1>5, <1>6, <1>7, <1>8

\* The worker and its drain.
LEMMA WorkerPaths ==
    ASSUME TypeOK
    PROVE  /\ \A d : Pop(d) =>
                 /\ pc[Worker] = "idle"
                 /\ Moves(Worker, IF drains[d].cancelled THEN "release" ELSE "start")
           /\ Start =>
                 /\ pc[Worker] = "start"
                 /\ IF stopping \/ entries = {} THEN Moves(Worker, "release")
                    ELSE Moves(Worker, "load")
           /\ Load => pc[Worker] = "load" /\ Moves(Worker, "after")
           /\ After =>
                 /\ pc[Worker] = "after"
                 /\ IF MoreWork THEN Moves(Worker, "submit") ELSE Moves(Worker, "release")
           /\ Resubmit =>
                 pc[Worker] = "submit" /\ (Moves(Worker, "store") \/ Moves(Worker, "undo"))
           /\ Restore => pc[Worker] = "undo" /\ Moves(Worker, "release")
           /\ StoreNext => pc[Worker] = "store" /\ Moves(Worker, "release")
           /\ Release =>
                 /\ pc[Worker] = "release"
                 /\ IF drains[task].previous = None THEN Moves(Worker, "complete")
                    ELSE Moves(Worker, "freeing")
           /\ Released => pc[Worker] = "freeing" /\ Moves(Worker, "complete")
           /\ Complete => pc[Worker] = "complete" /\ Moves(Worker, "idle")
<1>1. /\ Worker \in Threads
      /\ {"idle", "start", "load", "after", "submit", "store", "undo", "release",
          "freeing", "complete"} \subseteq Labels
  BY Distinct DEF Labels
<1>2. ASSUME NEW d, Pop(d)
      PROVE  /\ pc[Worker] = "idle"
             /\ Moves(Worker, IF drains[d].cancelled THEN "release" ELSE "start")
  <2>1. (IF drains[d].cancelled THEN "release" ELSE "start") \in Labels
    BY <1>1
  <2>2. Goto(Worker, IF drains[d].cancelled THEN "release" ELSE "start")
    BY <1>2 DEF Pop
  <2> QED BY <1>1, <1>2, <2>1, <2>2, Moved DEF Pop
<1>3. ASSUME Start
      PROVE  /\ pc[Worker] = "start"
             /\ IF stopping \/ entries = {} THEN Moves(Worker, "release")
                ELSE Moves(Worker, "load")
  BY <1>1, <1>3, Moved DEF Start
<1>4. Load => pc[Worker] = "load" /\ Moves(Worker, "after")
  BY <1>1, Moved DEF Load
<1>5. ASSUME After
      PROVE  /\ pc[Worker] = "after"
             /\ IF MoreWork THEN Moves(Worker, "submit") ELSE Moves(Worker, "release")
  BY <1>1, <1>5, Moved DEF After
<1>6. Resubmit =>
        pc[Worker] = "submit" /\ (Moves(Worker, "store") \/ Moves(Worker, "undo"))
  BY <1>1, Moved DEF Resubmit, SubmitAccepted
<1>7. Restore => pc[Worker] = "undo" /\ Moves(Worker, "release")
  BY <1>1, Moved DEF Restore
<1>8. StoreNext => pc[Worker] = "store" /\ Moves(Worker, "release")
  BY <1>1, Moved DEF StoreNext
<1>9. ASSUME Release
      PROVE  /\ pc[Worker] = "release"
             /\ IF drains[task].previous = None THEN Moves(Worker, "complete")
                ELSE Moves(Worker, "freeing")
  BY <1>1, <1>9, Moved DEF Release
<1>10. Released => pc[Worker] = "freeing" /\ Moves(Worker, "complete")
  BY <1>1, Moved DEF Released
<1>11. Complete => pc[Worker] = "complete" /\ Moves(Worker, "idle")
  BY <1>1, Moved DEF Complete
<1> QED BY <1>2, <1>3, <1>4, <1>5, <1>6, <1>7, <1>8, <1>9, <1>10, <1>11

-----------------------------------------------------------------------------
(* The types and the pending entries *)

\* Nothing is pending at first.
LEMMA TypeInit == Init => TypeOK /\ EntriesInv
<1> SUFFICES ASSUME Init PROVE TypeOK /\ EntriesInv
  OBVIOUS
<1> USE ConstantsAssumption DEF ConstantsAssumption, Init
<1>1. entries = {} /\ IsFiniteSet(entries) /\ Cardinality(entries) = 0
  BY FS_EmptySet
<1>2. drains = <<>> /\ DOMAIN drains = {} /\ drains \in Seq(Drain)
  OBVIOUS
<1>3. pc \in [Threads -> Labels]
  BY DEF Labels
<1>4. mine \in [Threads -> DOMAIN drains \cup {None}]
  OBVIOUS
<1>5. /\ serial = 0 /\ direction = 0 /\ lastCancel = 0
      /\ stopping \in BOOLEAN /\ active \in BOOLEAN /\ cancelled \in BOOLEAN
  OBVIOUS
<1>8. activeTask = None /\ task = None /\ work = None /\ lost = {}
  OBVIOUS
<1>6. Cardinality(entries) <= Capacity /\ entries \subseteq Entry
  BY <1>1
<1> HIDE DEF Init
<1>7. TypeOK
  BY <1>1, <1>2, <1>3, <1>4, <1>5, <1>6, <1>8 DEF TypeOK
<1> QED BY <1>1, <1>5, <1>7 DEF EntriesInv

\* The locked part of a request keeps the entries in order.
LEMMA EnqueueKeeps ==
    ASSUME TypeOK, EntriesInv, NEW c, NEW key \in Keys, NEW priority \in Int, NEW l,
           Enqueue(c, key, priority, l)
    PROVE  EntriesOK'
<1> DEFINE same == {e \in entries : e.key = key}
<1>1. lastCancel' = lastCancel
  BY DEF Enqueue, noteVars
<1>2. CASE /\ entries' = {IF e.key = key /\ priority > e.priority
                          THEN [e EXCEPT !.priority = priority] ELSE e : e \in entries}
           /\ serial' = serial
  BY <1>1, <1>2, RaiseKeeps
<1>3. CASE UNCHANGED <<entries, serial>>
  BY <1>1, <1>3, RemoveKeeps
<1>4. CASE same = {} /\ Insert(key, priority)
  BY <1>1, <1>4, InsertKeeps
<1> QED BY <1>2, <1>3, <1>4 DEF Enqueue

\* So does every step.
LEMMA EntriesStep ==
    ASSUME TypeOK, EntriesInv, PlaceInv, [Next]_vars
    PROVE  EntriesOK'
<1>1. CASE UNCHANGED <<entries, serial, lastCancel>>
  BY <1>1, RemoveKeeps
<1>2. ASSUME NEW c \in Callers, NEW key, NEW priority, NEW l, Enqueue(c, key, priority, l),
             key \in Keys, priority \in Int
      PROVE  EntriesOK'
  BY <1>2, EnqueueKeeps
<1>3. CASE Drop /\ UNCHANGED serial
  <2>1. IsFiniteSet({}) /\ Cardinality({}) = 0
    BY FS_EmptySet
  <2> QED BY <1>3, <2>1, ConstantsAssumption
          DEF Drop, EntriesOK, EntriesInv, TypeOK, ConstantsAssumption
<1>4. ASSUME NEW c \in Callers, Call(c) PROVE EntriesOK'
  <2>1. ASSUME NEW r \in Requests, Request(c, r[1], r[2]) PROVE EntriesOK'
    BY <1>2, <2>1, Inputs DEF Request
  <2>2. ASSUME NEW w \in Windows, Window(c, w[1], w[2], w[3], w[4]) PROVE EntriesOK'
    BY <1>1, <1>3, <2>2 DEF Window
  <2>3. CASE Cancel(c) \/ Destroy(c)
    BY <1>3, <2>3 DEF Cancel, Destroy
  <2>4. CASE WaitIdle(c)
    BY <1>1, <2>4 DEF WaitIdle, queueVars, noteVars
  <2> QED BY <1>4, <2>1, <2>2, <2>3, <2>4 DEF Call
<1>5. ASSUME NEW c \in Callers, CallerStep(c) PROVE EntriesOK'
  <2>1. CASE WindowRequest(c)
    <3>1. todo[c] \in Seq(Asked) /\ todo[c] # <<>>
      BY <2>1 DEF WindowRequest, PlaceInv, CallerPlace
    <3>2. Head(todo[c]) \in Asked
      BY <3>1, HeadTailProperties, Zenon
    <3>3. Head(todo[c]).key \in Keys /\ Head(todo[c]).priority \in Int
      BY <3>2 DEF Asked
    <3> QED BY <1>2, <2>1, <3>3 DEF WindowRequest
  <2>2. CASE Kick(c) \/ KickSubmit(c) \/ KickUndo(c) \/ KickStore(c) \/ Await(c) \/ Freed(c)
    BY <1>1, <2>2 DEF Kick, KickSubmit, KickUndo, KickStore, Await, Freed, queueVars, noteVars
  <2> QED BY <1>5, <2>1, <2>2 DEF CallerStep
<1>6. CASE WorkerStep
  <2>1. CASE Start
    <3>1. entries' \subseteq entries /\ serial' = serial /\ lastCancel' = lastCancel
      BY <2>1 DEF Start, noteVars
    <3> QED BY <3>1, RemoveKeeps
  <2>2. CASE \/ \E d \in DOMAIN drains : Pop(d)
             \/ Load \/ After \/ Resubmit \/ Restore \/ StoreNext
             \/ Release \/ Released \/ Complete
    BY <1>1, <2>2 DEF Pop, Load, After, Resubmit, Restore, StoreNext, Release, Released,
                      Complete, queueVars, noteVars
  <2> QED BY <1>6, <2>1, <2>2 DEF WorkerStep
<1>7. CASE UNCHANGED vars
  BY <1>1, <1>7 DEF vars, queueVars, noteVars
<1> QED BY <1>4, <1>5, <1>6, <1>7 DEF Next

\* A drain's record after an update of its status or its token.
LEMMA DrainsType ==
    ASSUME TypeOK
    PROVE  /\ DOMAIN drains = 1 .. Len(drains) /\ Len(drains) \in Nat
           /\ \A d \in DOMAIN drains : drains[d] \in Drain /\ d \in Nat
<1>1. drains \in Seq(Drain)
  BY DEF TypeOK
<1> QED BY <1>1

(* drains' has the same drains as drains, well typed. *)
Kept ==
    /\ drains' \in Seq(Drain)
    /\ DOMAIN drains' = DOMAIN drains

\* The future d changes its status.
LEMMA StatusSet ==
    ASSUME TypeOK, NEW d \in DOMAIN drains,
           NEW s \in {"queued", "running", "done", "freed"},
           drains' = [drains EXCEPT ![d].status = s]
    PROVE  /\ Kept
           /\ drains'[d].status = s
           /\ \A e \in DOMAIN drains : e # d => drains'[e].status = drains[e].status
           /\ \A e \in DOMAIN drains : /\ drains'[e].previous = drains[e].previous
                                       /\ drains'[e].cancelled = drains[e].cancelled
<1>1. drains \in Seq(Drain) /\ DOMAIN drains = 1 .. Len(drains)
  BY DEF TypeOK
<1>2. \A e \in DOMAIN drains : drains[e] \in Drain
  BY <1>1
<1>3. drains' = [drains EXCEPT ![d] = [drains[d] EXCEPT !.status = s]]
  OBVIOUS
<1>4. [drains[d] EXCEPT !.status = s] \in Drain
  BY <1>2 DEF Drain
<1>5. Kept
  BY <1>1, <1>3, <1>4, ExceptSeq DEF Kept
<1>6. \A e \in DOMAIN drains : e # d => drains'[e] = drains[e]
  BY <1>3
<1>7. drains'[d] = [drains[d] EXCEPT !.status = s]
  BY <1>3
<1>8. /\ drains'[d].status = s /\ drains'[d].previous = drains[d].previous
      /\ drains'[d].cancelled = drains[d].cancelled
  BY <1>2, <1>7 DEF Drain
<1> QED BY <1>5, <1>6, <1>8

\* The future d is cancelled.
LEMMA CancelSet ==
    ASSUME TypeOK, NEW d \in DOMAIN drains, CancelFuture(d)
    PROVE  /\ Kept
           /\ drains'[d].cancelled
           /\ \A e \in DOMAIN drains : e # d => drains'[e].cancelled = drains[e].cancelled
           /\ \A e \in DOMAIN drains : /\ drains'[e].previous = drains[e].previous
                                       /\ drains'[e].status = drains[e].status
<1>1. drains \in Seq(Drain) /\ DOMAIN drains = 1 .. Len(drains)
  BY DEF TypeOK
<1>2. \A e \in DOMAIN drains : drains[e] \in Drain
  BY <1>1
<1>3. drains' = [drains EXCEPT ![d] = [drains[d] EXCEPT !.cancelled = TRUE]]
  BY DEF CancelFuture
<1>4. [drains[d] EXCEPT !.cancelled = TRUE] \in Drain
  BY <1>2 DEF Drain
<1>5. Kept
  BY <1>1, <1>3, <1>4, ExceptSeq DEF Kept
<1>6. \A e \in DOMAIN drains : e # d => drains'[e] = drains[e]
  BY <1>3
<1>7. drains'[d] = [drains[d] EXCEPT !.cancelled = TRUE]
  BY <1>3
<1>8. /\ drains'[d].status = drains[d].status /\ drains'[d].previous = drains[d].previous
      /\ drains'[d].cancelled
  BY <1>2, <1>7 DEF Drain
<1> QED BY <1>5, <1>6, <1>8

\* A submission appends a drain that owns the future it was given.
LEMMA Appended ==
    ASSUME TypeOK, NEW d \in DOMAIN drains \cup {None}, drains' = Submitted(d)
    PROVE  /\ drains' \in Seq(Drain)
           /\ DOMAIN drains' = DOMAIN drains \cup {NewDrain}
           /\ NewDrain \in Nat /\ NewDrain \notin DOMAIN drains
           /\ \A e \in DOMAIN drains : drains'[e] = drains[e]
           /\ drains'[NewDrain].status = "queued" /\ drains'[NewDrain].previous = d
           /\ ~drains'[NewDrain].cancelled
<1> DEFINE new == [status |-> "queued", previous |-> d, cancelled |-> FALSE]
<1>1. drains \in Seq(Drain) /\ DOMAIN drains = 1 .. Len(drains) /\ Len(drains) \in Nat
  BY DEF TypeOK
<1>2. new \in Drain /\ new.status = "queued" /\ new.previous = d /\ ~new.cancelled
  BY <1>1 DEF Drain
<1>3. drains' = Append(drains, new)
  BY DEF Submitted
<1> HIDE DEF new
<1>4. /\ drains' \in Seq(Drain)
      /\ Len(drains') = Len(drains) + 1
      /\ \A i \in 1 .. Len(drains) : drains'[i] = drains[i]
      /\ drains'[Len(drains) + 1] = new
  BY <1>1, <1>2, <1>3, AppendProperties
<1>5. DOMAIN drains' = 1 .. Len(drains) + 1
  BY <1>4
<1> QED BY <1>1, <1>2, <1>4, <1>5 DEF NewDrain

\* The drain that ends gives up the previous future and cancels it.
LEMMA ReleaseSet ==
    ASSUME TypeOK, NEW d \in DOMAIN drains, NEW e \in DOMAIN drains,
           drains' = [drains EXCEPT ![d].previous = None, ![e].cancelled = TRUE]
    PROVE  /\ Kept
           /\ drains'[d].previous = None
           /\ \A f \in DOMAIN drains : f # d => drains'[f].previous = drains[f].previous
           /\ \A f \in DOMAIN drains : f # e => drains'[f].cancelled = drains[f].cancelled
           /\ \A f \in DOMAIN drains : drains'[f].status = drains[f].status
<1> DEFINE s == [drains EXCEPT ![d] = [drains[d] EXCEPT !.previous = None]]
<1>1. drains \in Seq(Drain) /\ DOMAIN drains = 1 .. Len(drains)
  BY DEF TypeOK
<1>2. \A f \in DOMAIN drains : drains[f] \in Drain
  BY <1>1
<1>3. [drains[d] EXCEPT !.previous = None] \in Drain
  BY <1>2 DEF Drain
<1>4. s \in Seq(Drain) /\ Len(s) = Len(drains) /\ DOMAIN s = DOMAIN drains
  BY <1>1, <1>3, ExceptSeq
<1>5. /\ \A f \in DOMAIN drains : f # d => s[f] = drains[f]
      /\ s[d] = [drains[d] EXCEPT !.previous = None]
  OBVIOUS
<1>6. drains' = [s EXCEPT ![e] = [s[e] EXCEPT !.cancelled = TRUE]]
  OBVIOUS
<1> HIDE DEF s
<1>7. \A f \in DOMAIN drains : s[f] \in Drain
  BY <1>1, <1>4
<1>8. [s[e] EXCEPT !.cancelled = TRUE] \in Drain
  BY <1>7 DEF Drain
<1>9. Kept
  <2>1. e \in 1 .. Len(s)
    BY <1>1, <1>4
  <2> DEFINE v == [s[e] EXCEPT !.cancelled = TRUE]
  <2>2. v \in Drain /\ drains' = [s EXCEPT ![e] = v]
    BY <1>6, <1>8
  <2> HIDE DEF v
  <2>3. [s EXCEPT ![e] = v] \in Seq(Drain) /\ Len([s EXCEPT ![e] = v]) = Len(s)
    BY <1>4, <2>1, <2>2, ExceptSeq
  <2>4. drains' \in Seq(Drain) /\ Len(drains') = Len(s)
    BY <2>2, <2>3
  <2>5. DOMAIN drains' = 1 .. Len(drains')
    BY <2>4
  <2> QED BY <1>1, <1>4, <2>4, <2>5 DEF Kept
<1>10. /\ \A f \in DOMAIN drains : f # e => drains'[f] = s[f]
       /\ drains'[e] = [s[e] EXCEPT !.cancelled = TRUE]
  BY <1>4, <1>6
<1>11. /\ \A f \in DOMAIN drains : drains'[f].previous = s[f].previous
       /\ \A f \in DOMAIN drains : drains'[f].status = s[f].status
       /\ \A f \in DOMAIN drains : f # e => drains'[f].cancelled = s[f].cancelled
  BY <1>7, <1>10 DEF Drain
<1>12. /\ s[d].previous = None /\ s[d].status = drains[d].status
       /\ s[d].cancelled = drains[d].cancelled
  BY <1>2, <1>5 DEF Drain
<1> QED BY <1>5, <1>9, <1>11, <1>12

(* What TypeOK says of the rest of the state. *)
Others ==
    /\ direction \in -1 .. 1
    /\ stopping \in BOOLEAN /\ active \in BOOLEAN /\ cancelled \in BOOLEAN
    /\ task \in DOMAIN drains \cup {None} /\ work \in Entry \cup {None}

(* And of the futures. *)
Futures ==
    /\ drains \in Seq(Drain)
    /\ activeTask \in DOMAIN drains \cup {None}
    /\ mine \in [Threads -> DOMAIN drains \cup {None}]
    /\ lost \subseteq DOMAIN drains

\* The threads stay at their labels.
LEMMA LabelsStep ==
    ASSUME TypeOK, [Next]_vars
    PROVE  pc' \in [Threads -> Labels]
<1>1. ASSUME NEW c \in Callers, Call(c) PROVE pc' \in [Threads -> Labels]
  BY <1>1, CallPaths DEF Call, Moves
<1>2. ASSUME NEW c \in Callers, CallerStep(c) PROVE pc' \in [Threads -> Labels]
  <2>1. CASE Kick(c)
    BY <2>1, CallerPaths DEF Moves
  <2> QED BY <1>2, <2>1, CallerPaths DEF CallerStep, Moves
<1>3. CASE WorkerStep
  BY <1>3, WorkerPaths DEF WorkerStep, Moves
<1>4. CASE UNCHANGED vars
  BY <1>4 DEF vars, TypeOK
<1> QED BY <1>1, <1>2, <1>3, <1>4 DEF Next

\* The flags, the drain that runs and the entry it loads.
LEMMA OthersStep ==
    ASSUME TypeOK, EntriesInv, PlaceInv, [Next]_vars, DOMAIN drains \subseteq DOMAIN drains'
    PROVE  Others'
<1> USE DEF Others
<1>0. Others
  BY DEF TypeOK
<1>1. ASSUME NEW c \in Callers, Call(c) PROVE Others'
  <2>1. ASSUME NEW r \in Requests, Request(c, r[1], r[2]) PROVE Others'
    BY <1>0, <2>1 DEF Request, Enqueue, workerVars
  <2>2. ASSUME NEW w \in Windows, Window(c, w[1], w[2], w[3], w[4]) PROVE Others'
    BY <1>0, <2>2, Inputs DEF Window, Drop, workerVars
  <2>3. CASE Cancel(c) \/ WaitIdle(c) \/ Destroy(c)
    BY <1>0, <2>3 DEF Cancel, WaitIdle, Destroy, Drop, workerVars, queueVars
  <2> QED BY <1>1, <2>1, <2>2, <2>3 DEF Call
<1>2. ASSUME NEW c \in Callers, CallerStep(c) PROVE Others'
  <2>1. CASE WindowRequest(c)
    BY <1>0, <2>1 DEF WindowRequest, Enqueue, workerVars
  <2>2. CASE Kick(c)
    BY <1>0, <2>2 DEF Kick, ResetToken, workerVars
  <2>3. CASE KickSubmit(c) \/ KickUndo(c) \/ KickStore(c) \/ Await(c) \/ Freed(c)
    BY <1>0, <2>3 DEF KickSubmit, KickUndo, KickStore, Await, Freed, workerVars, queueVars
  <2> QED BY <1>2, <2>1, <2>2, <2>3 DEF CallerStep
<1>3. CASE WorkerStep
  <2>1. CASE Start
    <3>1. CASE stopping \/ entries = {}
      BY <1>0, <2>1, <3>1 DEF Start
    <3>2. CASE ~(stopping \/ entries = {})
      <4>1. Best \in Entry
        BY <3>2, BestPending DEF TypeOK, EntriesInv
      <4> QED BY <1>0, <2>1, <3>2, <4>1 DEF Start, ResetToken
    <3> QED BY <3>1, <3>2
  <2>2. ASSUME NEW d \in DOMAIN drains, Pop(d) PROVE Others'
    BY <1>0, <2>2 DEF Pop, queueVars
  <2>3. CASE \/ Load \/ After \/ Resubmit \/ Restore \/ StoreNext
             \/ Release \/ Released \/ Complete
    BY <1>0, <2>3 DEF Load, After, Resubmit, Restore, StoreNext, Release, Released,
                      Complete, workerVars, queueVars
  <2> QED BY <1>3, <2>1, <2>2, <2>3 DEF WorkerStep
<1>4. CASE UNCHANGED vars
  BY <1>0, <1>4 DEF vars, workerVars, queueVars
<1> QED BY <1>1, <1>2, <1>3, <1>4 DEF Next

\* A future stays where it is, moves between a thread and the queue, or is new.
LEMMA FuturesStep ==
    ASSUME TypeOK, PlaceInv, FutureInv, [Next]_vars
    PROVE  Futures' /\ DOMAIN drains \subseteq DOMAIN drains'
<1> USE DEF Futures
<1>0. Futures /\ Worker \in Threads /\ Callers \subseteq Threads
  BY Distinct DEF TypeOK
<1>1. CASE UNCHANGED <<drains, activeTask, mine, lost>>
  BY <1>0, <1>1
<1>2. ASSUME NEW t \in Threads, FreeMine(t), UNCHANGED <<activeTask, lost>>
      PROVE  Futures' /\ DOMAIN drains \subseteq DOMAIN drains'
  <2>1. mine[t] \in DOMAIN drains
    BY <1>0, <1>2 DEF FreeMine
  <2>2. Kept
    BY <1>2, <2>1, StatusSet DEF FreeMine
  <2> QED BY <1>0, <1>2, <2>2 DEF FreeMine, Hold, Kept
<1>3. ASSUME NEW t \in Threads, TakeActiveTask(t), UNCHANGED <<drains, lost>>
      PROVE  Futures' /\ DOMAIN drains \subseteq DOMAIN drains'
  BY <1>0, <1>3 DEF TakeActiveTask, Hold
<1>4. ASSUME NEW t \in Threads, SetActiveTask(mine[t]), Hold(t, None), UNCHANGED drains
      PROVE  Futures' /\ DOMAIN drains \subseteq DOMAIN drains'
  BY <1>0, <1>4 DEF SetActiveTask, Hold
<1>5. ASSUME NEW t \in Threads, NEW l, SubmitAccepted(t, l), UNCHANGED <<activeTask, lost>>
      PROVE  Futures' /\ DOMAIN drains \subseteq DOMAIN drains'
  <2>1. mine[t] \in DOMAIN drains \cup {None}
    BY <1>0
  <2>2. /\ drains' \in Seq(Drain) /\ DOMAIN drains' = DOMAIN drains \cup {NewDrain}
    BY <1>5, <2>1, Appended DEF SubmitAccepted
  <2> QED BY <1>0, <1>5, <2>2 DEF SubmitAccepted, Hold
<1>6. ASSUME NEW c \in Callers, Call(c)
      PROVE  Futures' /\ DOMAIN drains \subseteq DOMAIN drains'
  BY <1>1, <1>6 DEF Call, Request, Enqueue, Window, Cancel, WaitIdle, Destroy,
                    queueVars, noteVars
<1>7. ASSUME NEW c \in Callers, CallerStep(c)
      PROVE  Futures' /\ DOMAIN drains \subseteq DOMAIN drains'
  <2>0. c \in Threads
    BY <1>0
  <2>1. CASE WindowRequest(c)
    BY <1>1, <2>1 DEF WindowRequest, Enqueue, noteVars
  <2>2. CASE Kick(c)
    BY <1>1, <1>3, <2>0, <2>2 DEF Kick, noteVars
  <2>3. CASE KickSubmit(c)
    <3>1. CASE SubmitAccepted(c, "store")
      BY <1>5, <2>0, <2>3, <3>1 DEF KickSubmit, queueVars
    <3>2. CASE UNCHANGED mine /\ CancelFuture(mine[c]) /\ mine[c] # None
      <4>1. Kept
        BY <1>0, <2>0, <3>2, CancelSet
      <4> QED BY <1>0, <2>3, <3>2, <4>1 DEF KickSubmit, queueVars, Kept
    <3> QED BY <1>1, <2>3, <3>1, <3>2 DEF KickSubmit, queueVars
  <2>4. CASE KickUndo(c)
    BY <1>1, <1>2, <2>0, <2>4 DEF KickUndo, noteVars
  <2>5. CASE KickStore(c)
    BY <1>4, <2>0, <2>5 DEF KickStore
  <2>6. CASE Await(c)
    <3>1. CASE Busy \/ activeTask = None
      BY <1>1, <2>6, <3>1 DEF Await, noteVars
    <3>2. CASE ~(Busy \/ activeTask = None)
      <4>1. TakeActiveTask(c) /\ CancelFuture(activeTask) /\ UNCHANGED lost
        BY <2>6, <3>2 DEF Await, noteVars
      <4>2. Kept
        BY <1>0, <3>2, <4>1, CancelSet
      <4> QED BY <1>0, <2>0, <4>1, <4>2 DEF TakeActiveTask, Hold, Kept
    <3> QED BY <3>1, <3>2
  <2>7. CASE Freed(c)
    BY <1>2, <2>0, <2>7 DEF Freed, noteVars, queueVars
  <2> QED BY <1>7, <2>1, <2>2, <2>3, <2>4, <2>5, <2>6, <2>7 DEF CallerStep
<1>8. CASE WorkerStep
  <2>1. ASSUME NEW d \in DOMAIN drains, Pop(d)
        PROVE  Futures' /\ DOMAIN drains \subseteq DOMAIN drains'
    <3>1. Kept
      BY <2>1, StatusSet DEF Pop
    <3> QED BY <1>0, <2>1, <3>1 DEF Pop, Kept, queueVars, noteVars
  <2>2. CASE Start \/ Load
    BY <1>1, <2>2 DEF Start, Load, queueVars, noteVars
  <2>3. CASE After
    BY <1>0, <1>1, <1>3, <2>3 DEF After, noteVars
  <2>4. CASE Resubmit
    BY <1>0, <1>1, <1>5, <2>4 DEF Resubmit, queueVars
  <2>5. CASE Restore \/ StoreNext
    BY <1>0, <1>4, <2>5 DEF Restore, StoreNext
  <2>6. CASE Release
    <3>0. task \in DOMAIN drains
      BY <2>6 DEF Release, PlaceInv, WorkerPlace, TypeOK
    <3>1. CASE drains[task].previous = None
      BY <1>1, <2>6, <3>1 DEF Release, queueVars, noteVars
    <3>2. CASE drains[task].previous # None
      <4>1. drains[task].previous \in DOMAIN drains
        BY <3>0, <3>2 DEF FutureInv
      <4>2. Kept
        BY <2>6, <3>0, <3>2, <4>1, ReleaseSet DEF Release
      <4> QED BY <1>0, <2>6, <3>2, <4>1, <4>2 DEF Release, Hold, Kept, queueVars, noteVars
    <3> QED BY <3>1, <3>2
  <2>7. CASE Released
    BY <1>0, <1>2, <2>7 DEF Released, queueVars, noteVars
  <2>8. CASE Complete
    <3>0. task \in DOMAIN drains
      BY <2>8 DEF Complete, PlaceInv, WorkerPlace, TypeOK
    <3>1. Kept
      BY <2>8, <3>0, StatusSet DEF Complete
    <3> QED BY <1>0, <2>8, <3>1 DEF Complete, Kept, queueVars, noteVars
  <2> QED BY <1>8, <2>1, <2>2, <2>3, <2>4, <2>5, <2>6, <2>7, <2>8 DEF WorkerStep
<1>9. CASE UNCHANGED vars
  BY <1>1, <1>9 DEF vars, queueVars, noteVars
<1> QED BY <1>6, <1>7, <1>8, <1>9 DEF Next

\* Every step keeps the types.
LEMMA TypeStep ==
    ASSUME TypeOK, EntriesInv, PlaceInv, FutureInv, [Next]_vars
    PROVE  TypeOK' /\ EntriesInv'
<1>1. EntriesOK'
  BY EntriesStep
<1>2. Futures' /\ DOMAIN drains \subseteq DOMAIN drains'
  BY FuturesStep
<1>3. Others'
  BY <1>2, OthersStep
<1>4. pc' \in [Threads -> Labels]
  BY LabelsStep
<1> QED BY <1>1, <1>2, <1>3, <1>4 DEF EntriesOK, Futures, Others, TypeOK

-----------------------------------------------------------------------------
(* Where the threads can be *)

\* All threads are idle at first.
LEMMA PlaceInit == Init => PlaceInv /\ WorkInv
<1>1. <<>> \in Seq(Asked)
  OBVIOUS
<1> QED BY <1>1, Distinct DEF Init, PlaceInv, CallerPlace, WorkerPlace, Holds, WorkInv

\* A thread that does not step stays where it can be.
LEMMA PlaceFrame ==
    ASSUME PlaceInv, NEW t \in Threads, NEW l, Moves(t, l),
           \A c \in Callers : c # t => todo'[c] = todo[c],
           \A u \in Threads : u # t => mine'[u] = mine[u],
           t # Worker => task' = task
    PROVE  /\ \A c \in Callers : c # t => CallerPlace(c)'
           /\ t # Worker => WorkerPlace'
           /\ \A u \in Threads : u # t => Holds(u)'
BY Distinct DEF PlaceInv, CallerPlace, WorkerPlace, Holds, Moves

\* Each step of a caller.
LEMMA CallerPlaceStep ==
    ASSUME TypeOK, PlaceInv, NEW c \in Callers, Call(c) \/ CallerStep(c)
    PROVE  PlaceInv'
<1>0. /\ c \in Threads /\ c # Worker /\ Callers \subseteq Threads
      /\ todo \in [Callers -> Seq(Asked)] /\ mine \in [Threads -> DOMAIN drains \cup {None}]
      /\ DOMAIN drains \subseteq Nat /\ None \notin Nat
  BY Distinct, DrainsType DEF PlaceInv, TypeOK
<1>a. CallerPlace(c) /\ Holds(c) /\ pc \in [Threads -> Labels]
  BY <1>0 DEF PlaceInv, TypeOK
<1>1. ASSUME NEW l, Moves(c, l), UNCHANGED task,
             \A b \in Callers : b # c => todo'[b] = todo[b],
             \A u \in Threads : u # c => mine'[u] = mine[u],
             todo' \in [Callers -> Seq(Asked)], CallerPlace(c)', Holds(c)'
      PROVE  PlaceInv'
  BY <1>0, <1>1, PlaceFrame DEF PlaceInv
<1> USE DEF CallerPlace, Holds, Moves
<1>2. ASSUME NEW l, Moves(c, l), UNCHANGED <<task, todo, mine>>, todo[c] = <<>>, mine[c] = None,
             l \in {"idle", "kick", "waiting", "asleep", "destroyed"}
      PROVE  PlaceInv'
  BY <1>0, <1>1, <1>2
<1>3. ASSUME NEW r \in Requests, Request(c, r[1], r[2]) PROVE PlaceInv'
  BY <1>a, <1>2, <1>3, CallPaths DEF Request, Enqueue, workerVars
<1>4. ASSUME NEW w \in Windows, Window(c, w[1], w[2], w[3], w[4]) PROVE PlaceInv'
  <2> DEFINE all == WindowRequests(w[1], w[2], w[3], w[4])
  <2>1. all \in Seq(Asked) /\ all # <<>>
    <3>1. w[1] \in Keys /\ w[2] \in Int /\ w[3] \in Nat /\ w[4] \in Nat
      BY Inputs
    <3> QED BY <3>1, WindowType
  <2>2. todo' = [todo EXCEPT ![c] = all] /\ UNCHANGED <<task, mine>>
    BY <1>4 DEF Window, workerVars, WindowRequests
  <2> HIDE DEF all
  <2>3. pc[c] = "idle" /\ Moves(c, "window")
    BY <1>4, CallPaths
  <2>4. todo' \in [Callers -> Seq(Asked)] /\ todo'[c] # <<>>
    BY <1>0, <2>1, <2>2
  <2> QED BY <1>a, <1>0, <1>1, <2>2, <2>3, <2>4
<1>5. CASE Cancel(c) \/ WaitIdle(c) \/ Destroy(c)
  BY <1>a, <1>2, <1>5, CallPaths DEF Cancel, WaitIdle, Destroy, workerVars
<1>6. CASE WindowRequest(c)
  <2>1. todo[c] \in Seq(Asked) /\ todo[c] # <<>>
    BY <1>0, <1>a, <1>6 DEF WindowRequest
  <2>2. Tail(todo[c]) \in Seq(Asked) /\ Len(Tail(todo[c])) = Len(todo[c]) - 1
    BY <2>1, HeadTailProperties
  <2>3. /\ todo' = [todo EXCEPT ![c] = Tail(todo[c])] /\ UNCHANGED <<task, mine>>
    BY <1>6 DEF WindowRequest, Enqueue, workerVars
  <2>4. todo' \in [Callers -> Seq(Asked)] /\ todo'[c] = Tail(todo[c])
    BY <1>0, <2>2, <2>3
  <2>5. Len(todo[c]) = 1 <=> todo'[c] = <<>>
    <3>1. Len(todo[c]) \in Nat /\ Len(todo'[c]) = Len(todo[c]) - 1
      BY <2>1, <2>2, <2>4
    <3>2. todo'[c] = <<>> <=> Len(todo'[c]) = 0
      BY <2>2, <2>4, EmptySeq
    <3> QED BY <3>1, <3>2
  <2>6. PICK l \in {"kick", "window", "idle"} :
           Moves(c, l) /\ (l = "window" => Len(todo[c]) # 1) /\ (l = "idle" => Len(todo[c]) = 1)
    BY <1>6, CallerPaths
  <2>7. pc[c] = "window"
    BY <1>6 DEF WindowRequest
  <2> QED BY <1>a, <1>0, <1>1, <2>3, <2>4, <2>5, <2>6, <2>7
<1>7. CASE Kick(c)
  <2>1. pc[c] = "kick" /\ mine[c] = None /\ UNCHANGED <<task, todo>>
    BY <1>a, <1>7 DEF Kick, workerVars
  <2>2. CASE NothingToStart
    <3>1. Moves(c, Caller(c)) /\ UNCHANGED mine
      BY <1>7, <2>2, CallerPaths DEF Kick
    <3> QED BY <1>a, <1>0, <1>1, <2>1, <3>1 DEF Caller
  <2>3. CASE ~NothingToStart
    <3>1. Moves(c, "submit") /\ mine' = [mine EXCEPT ![c] = activeTask]
      BY <1>7, <2>3, CallerPaths DEF Kick, TakeActiveTask, Hold
    <3> QED BY <1>a, <1>0, <1>1, <2>1, <3>1
  <2> QED BY <2>2, <2>3
<1>8. CASE KickSubmit(c)
  <2>1. pc[c] = "submit" /\ UNCHANGED <<task, todo>>
    BY <1>8 DEF KickSubmit, workerVars
  <2>2. CASE SubmitAccepted(c, "store")
    <3>1. Moves(c, "store") /\ mine' = [mine EXCEPT ![c] = NewDrain] /\ NewDrain \in Nat
      BY <1>0, <2>2, Moved, DrainsType DEF SubmitAccepted, Hold, NewDrain, Labels
    <3> QED BY <1>a, <1>0, <1>1, <2>1, <3>1
  <2>3. CASE Goto(c, "undo") /\ UNCHANGED mine
    <3>1. Moves(c, "undo")
      BY <1>0, <2>3, Moved DEF Labels
    <3> QED BY <1>a, <1>0, <1>1, <2>1, <2>3, <3>1
  <2> QED BY <1>8, <2>2, <2>3 DEF KickSubmit
<1>9. CASE KickUndo(c)
  <2>1. Moves(c, Caller(c)) /\ UNCHANGED <<task, todo>> /\ pc[c] = "undo"
    BY <1>9, CallerPaths DEF KickUndo, workerVars
  <2>2. mine'[c] = None /\ \A u \in Threads : u # c => mine'[u] = mine[u]
    BY <1>0, <1>9 DEF KickUndo, FreeMine, Hold
  <2> QED BY <1>a, <1>0, <1>1, <2>1, <2>2 DEF Caller
<1>10. CASE KickStore(c)
  <2>1. Moves(c, Caller(c)) /\ UNCHANGED <<task, todo>> /\ pc[c] = "store"
    BY <1>10, CallerPaths DEF KickStore, workerVars
  <2>2. mine' = [mine EXCEPT ![c] = None]
    BY <1>10 DEF KickStore, Hold
  <2> QED BY <1>a, <1>0, <1>1, <2>1, <2>2 DEF Caller
<1>11. CASE Await(c)
  <2>1. pc[c] = "waiting" /\ UNCHANGED <<task, todo>> /\ mine[c] = None /\ todo[c] = <<>>
    BY <1>a, <1>11 DEF Await, workerVars
  <2>2. CASE Busy \/ activeTask = None
    <3>1. UNCHANGED mine /\ (Moves(c, "asleep") \/ Moves(c, Ended))
      BY <1>11, <2>2, CallerPaths DEF Await
    <3> QED BY <1>2, <2>1, <3>1 DEF Ended
  <2>3. CASE ~Busy /\ activeTask # None
    <3>1. Moves(c, "freeing") /\ mine' = [mine EXCEPT ![c] = activeTask]
      BY <1>11, <2>3, CallerPaths DEF Await, TakeActiveTask, Hold
    <3> QED BY <1>a, <1>0, <1>1, <2>1, <2>3, <3>1
  <2> QED BY <2>2, <2>3
<1>12. CASE Freed(c)
  <2>1. /\ Moves(c, Ended) /\ UNCHANGED <<task, todo>> /\ pc[c] = "freeing"
        /\ mine' = [mine EXCEPT ![c] = None]
    BY <1>12, CallerPaths DEF Freed, FreeMine, Hold, workerVars
  <2> QED BY <1>a, <1>0, <1>1, <2>1 DEF Ended
<1> QED BY <1>3, <1>4, <1>5, <1>6, <1>7, <1>8, <1>9, <1>10, <1>11, <1>12
        DEF Call, CallerStep

\* Each step of the worker.
LEMMA WorkerPlaceStep ==
    ASSUME TypeOK, PlaceInv, WorkerStep
    PROVE  PlaceInv'
<1>0. /\ Worker \in Threads /\ Worker \notin Callers
      /\ mine \in [Threads -> DOMAIN drains \cup {None}]
      /\ DOMAIN drains \subseteq Nat /\ None \notin Nat
      /\ WorkerPlace /\ Holds(Worker) /\ pc \in [Threads -> Labels]
  BY Distinct, DrainsType DEF PlaceInv, TypeOK
<1>1. ASSUME NEW l, Moves(Worker, l), UNCHANGED todo,
             \A u \in Threads : u # Worker => mine'[u] = mine[u],
             WorkerPlace', Holds(Worker)'
      PROVE  PlaceInv'
  BY <1>0, <1>1, PlaceFrame DEF PlaceInv
<1> USE DEF WorkerPlace, Holds, Moves
<1>2. ASSUME NEW l, Moves(Worker, l), UNCHANGED <<task, todo, mine>>, mine[Worker] = None,
             l \in {"start", "load", "after", "release", "complete"}, pc[Worker] # "idle"
      PROVE  PlaceInv'
  BY <1>0, <1>1, <1>2
<1>3. ASSUME NEW d \in DOMAIN drains, Pop(d) PROVE PlaceInv'
  <2>1. PICK l \in {"release", "start"} : Moves(Worker, l)
    BY <1>3, WorkerPaths
  <2>2. pc[Worker] = "idle" /\ task' = d /\ UNCHANGED <<todo, mine>>
    BY <1>3 DEF Pop
  <2> QED BY <1>0, <1>1, <2>1, <2>2
<1>4. CASE Start
  <2>1. PICK l \in {"release", "load"} : Moves(Worker, l)
    BY <1>4, WorkerPaths
  <2> QED BY <1>0, <1>2, <1>4, <2>1 DEF Start
<1>5. CASE Load
  BY <1>0, <1>2, <1>5, WorkerPaths DEF Load
<1>6. CASE After
  <2>1. pc[Worker] = "after" /\ UNCHANGED <<task, todo>> /\ mine[Worker] = None
    BY <1>0, <1>6 DEF After, workerVars
  <2>2. CASE MoreWork
    <3>1. Moves(Worker, "submit") /\ mine' = [mine EXCEPT ![Worker] = activeTask]
      BY <1>6, <2>2, WorkerPaths DEF After, TakeActiveTask, Hold
    <3> QED BY <1>0, <1>1, <2>1, <3>1
  <2>3. CASE ~MoreWork
    <3>1. Moves(Worker, "release") /\ UNCHANGED mine
      BY <1>6, <2>3, WorkerPaths DEF After
    <3> QED BY <1>2, <2>1, <3>1
  <2> QED BY <2>2, <2>3
<1>7. CASE Resubmit
  <2>1. pc[Worker] = "submit" /\ UNCHANGED <<task, todo>>
    BY <1>7 DEF Resubmit, workerVars
  <2>2. CASE SubmitAccepted(Worker, "store")
    <3>1. /\ Moves(Worker, "store") /\ mine' = [mine EXCEPT ![Worker] = NewDrain]
          /\ NewDrain \in Nat
      BY <1>0, <2>2, Moved, DrainsType DEF SubmitAccepted, Hold, NewDrain, Labels
    <3> QED BY <1>0, <1>1, <2>1, <3>1
  <2>3. CASE Goto(Worker, "undo") /\ UNCHANGED mine
    <3>1. Moves(Worker, "undo")
      BY <1>0, <2>3, Moved DEF Labels
    <3> QED BY <1>0, <1>1, <2>1, <2>3, <3>1
  <2> QED BY <1>7, <2>2, <2>3 DEF Resubmit
<1>8. CASE Restore \/ StoreNext
  <2>1. /\ Moves(Worker, "release") /\ UNCHANGED <<task, todo>> /\ pc[Worker] # "idle"
        /\ mine' = [mine EXCEPT ![Worker] = None]
    BY <1>8, WorkerPaths DEF Restore, StoreNext, Hold, workerVars
  <2> QED BY <1>0, <1>1, <2>1
<1>9. CASE Release
  <2>1. pc[Worker] = "release" /\ UNCHANGED <<task, todo>> /\ mine[Worker] = None
    BY <1>0, <1>9 DEF Release, workerVars
  <2>2. CASE drains[task].previous = None
    <3>1. Moves(Worker, "complete") /\ UNCHANGED mine
      BY <1>9, <2>2, WorkerPaths DEF Release
    <3> QED BY <1>2, <2>1, <3>1
  <2>3. CASE drains[task].previous # None
    <3>1. Moves(Worker, "freeing") /\ mine' = [mine EXCEPT ![Worker] = drains[task].previous]
      BY <1>9, <2>3, WorkerPaths DEF Release, Hold
    <3> QED BY <1>0, <1>1, <2>1, <2>3, <3>1
  <2> QED BY <2>2, <2>3
<1>10. CASE Released
  <2>1. /\ Moves(Worker, "complete") /\ UNCHANGED <<task, todo>> /\ pc[Worker] # "idle"
        /\ mine' = [mine EXCEPT ![Worker] = None]
    BY <1>10, WorkerPaths DEF Released, FreeMine, Hold, workerVars
  <2> QED BY <1>0, <1>1, <2>1
<1>11. CASE Complete
  <2>1. /\ Moves(Worker, "idle") /\ UNCHANGED <<mine, todo>> /\ task' = None
        /\ pc[Worker] = "complete"
    BY <1>11, WorkerPaths DEF Complete
  <2> QED BY <1>0, <1>1, <2>1
<1> QED BY <1>3, <1>4, <1>5, <1>6, <1>7, <1>8, <1>9, <1>10, <1>11 DEF WorkerStep

\* Every step leaves the threads where they can be.
LEMMA PlaceStep ==
    ASSUME TypeOK, PlaceInv, [Next]_vars
    PROVE  PlaceInv'
<1>1. CASE UNCHANGED vars
  BY <1>1 DEF vars, workerVars, PlaceInv, CallerPlace, WorkerPlace, Holds
<1> QED BY <1>1, CallerPlaceStep, WorkerPlaceStep DEF Next

-----------------------------------------------------------------------------
(* The load in progress and its cancellation *)

LoadInv == WorkInv /\ StaleInv

\* There is no load at first.
LEMMA LoadInit == Init => LoadInv
BY Distinct DEF Init, LoadInv, WorkInv, StaleInv

\* Steps of the callers do not touch the worker.
LEMMA WorkerStays ==
    ASSUME TypeOK, PlaceInv, NEW c \in Callers, Call(c) \/ CallerStep(c)
    PROVE  UNCHANGED <<pc[Worker], task, work>>
<1>0. c # Worker /\ Worker \in Threads /\ pc[Worker] # "asleep"
  BY Distinct DEF PlaceInv, WorkerPlace
<1>1. ASSUME NEW l, Moves(c, l) PROVE pc'[Worker] = pc[Worker]
  BY <1>0, <1>1 DEF Moves
<1>2. pc'[Worker] = pc[Worker]
  <2>1. CASE Kick(c)
    BY <1>1, <2>1, CallerPaths
  <2>2. CASE Call(c)
    BY <1>1, <2>2, CallPaths DEF Call
  <2> QED BY <1>1, <2>1, <2>2, CallerPaths DEF CallerStep
<1>3. UNCHANGED <<task, work>>
  BY DEF Call, CallerStep, Request, Window, Cancel, WaitIdle, Destroy, WindowRequest, Enqueue,
         Kick, KickSubmit, KickUndo, KickStore, Await, Freed, workerVars
<1> QED BY <1>2, <1>3

\* A load is cancelled by a cancellation after its request, and by nothing else.
LEMMA LoadStep ==
    ASSUME TypeOK, EntriesInv, PlaceInv, DrainInv, LoadInv, [Next]_vars
    PROVE  LoadInv'
<1> USE DEF LoadInv, WorkInv, StaleInv
<1>0. /\ serial \in Nat /\ lastCancel \in Nat /\ Worker \in Threads
      /\ work \in Entry => work.serial \in Nat
  BY Distinct DEF TypeOK, EntriesInv, Entry
<1>1. ASSUME UNCHANGED <<pc[Worker], work>>, serial' = serial \/ serial' = serial + 1,
             UNCHANGED <<cancelled, lastCancel>>
      PROVE  LoadInv'
  BY <1>0, <1>1
<1>2. CASE UNCHANGED <<pc[Worker], work, serial>> /\ Drop
  BY <1>0, <1>2 DEF Drop
<1>3. ASSUME NEW c \in Callers, Call(c) PROVE LoadInv'
  <2>0. UNCHANGED <<pc[Worker], work>>
    BY <1>3, WorkerStays
  <2>1. ASSUME NEW r \in Requests, Request(c, r[1], r[2]) PROVE LoadInv'
    BY <1>1, <2>0, <2>1 DEF Request, Enqueue, Insert, noteVars
  <2>2. ASSUME NEW w \in Windows, Window(c, w[1], w[2], w[3], w[4]) PROVE LoadInv'
    BY <1>1, <1>2, <2>0, <2>2 DEF Window
  <2>3. CASE Cancel(c) \/ Destroy(c)
    BY <1>2, <2>0, <2>3 DEF Cancel, Destroy
  <2>4. CASE WaitIdle(c)
    BY <1>1, <2>0, <2>4 DEF WaitIdle, queueVars, noteVars
  <2> QED BY <1>3, <2>1, <2>2, <2>3, <2>4 DEF Call
<1>4. ASSUME NEW c \in Callers, CallerStep(c) PROVE LoadInv'
  <2>0. UNCHANGED <<pc[Worker], work>>
    BY <1>4, WorkerStays
  <2>1. CASE WindowRequest(c)
    BY <1>1, <2>0, <2>1 DEF WindowRequest, Enqueue, Insert, noteVars
  <2>2. CASE Kick(c)
    <3>1. CASE NothingToStart
      BY <1>1, <2>0, <2>2, <3>1 DEF Kick, noteVars
    <3>2. CASE ~NothingToStart
      <4>1. pc[Worker] # "load"
        BY <3>2 DEF NothingToStart, DrainInv, WorkerDrains
      <4> QED BY <2>0, <4>1
    <3> QED BY <3>1, <3>2
  <2>3. CASE KickSubmit(c) \/ KickUndo(c) \/ KickStore(c) \/ Await(c) \/ Freed(c)
    BY <1>1, <2>0, <2>3 DEF KickSubmit, KickUndo, KickStore, Await, Freed, queueVars, noteVars
  <2> QED BY <1>4, <2>1, <2>2, <2>3 DEF CallerStep
<1>5. CASE WorkerStep
  <2>1. ASSUME NEW d \in DOMAIN drains, Pop(d) PROVE LoadInv'
    <3>1. pc[Worker] = "idle" /\ pc'[Worker] \in {"start", "release"} /\ UNCHANGED work
      BY <2>1, WorkerPaths DEF Pop, Moves
    <3> QED BY <3>1
  <2>2. CASE Start
    <3>1. CASE stopping \/ entries = {}
      BY <2>2, <3>1, WorkerPaths DEF Start, Moves
    <3>2. CASE ~(stopping \/ entries = {})
      <4>1. Best \in entries
        BY <3>2, BestPending DEF EntriesInv
      <4>2. Best \in Entry /\ lastCancel < Best.serial /\ Best.serial <= serial
        BY <4>1 DEF TypeOK, EntriesInv
      <4>3. /\ work' = Best /\ UNCHANGED <<serial, lastCancel>> /\ cancelled' = FALSE
            /\ pc'[Worker] = "load"
        BY <2>2, <3>2, WorkerPaths DEF Start, ResetToken, noteVars, Moves
      <4>4. Best.serial \in Nat
        BY <4>2 DEF Entry
      <4> QED BY <1>0, <4>2, <4>3, <4>4
    <3> QED BY <3>1, <3>2
  <2>3. CASE Load
    BY <2>3, WorkerPaths DEF Load, Moves
  <2>4. CASE After
    <3>1. pc[Worker] = "after" /\ pc'[Worker] \in {"submit", "release"} /\ UNCHANGED work
      BY <2>4, WorkerPaths DEF After, Moves, workerVars
    <3> QED BY <3>1
  <2>5. CASE Resubmit \/ Restore \/ StoreNext \/ Released \/ Complete
    <3>1. pc[Worker] # "load" /\ pc'[Worker] # "load" /\ UNCHANGED work
      BY <2>5, WorkerPaths
         DEF Resubmit, Restore, StoreNext, Released, Complete, Moves, workerVars
    <3> QED BY <3>1
  <2>6. CASE Release
    <3>1. pc[Worker] # "load" /\ pc'[Worker] # "load" /\ UNCHANGED work
      BY <2>6, WorkerPaths DEF Release, Moves, workerVars
    <3> QED BY <3>1
  <2> QED BY <1>5, <2>1, <2>2, <2>3, <2>4, <2>5, <2>6 DEF WorkerStep
<1>6. CASE UNCHANGED vars
  BY <1>6 DEF vars, workerVars, queueVars, noteVars
<1> QED BY <1>3, <1>4, <1>5, <1>6 DEF Next

-----------------------------------------------------------------------------
(* Destruction *)

\* Nothing is destroyed at first.
LEMMA StopInit == Init => StopInv
BY Distinct DEF Init, StopInv

\* Nothing is added to a queue that is being destroyed, and no drain is started.
LEMMA StopStep ==
    ASSUME TypeOK, PlaceInv, StopInv, [Next]_vars
    PROVE  StopInv'
<1> USE DEF StopInv
<1>0. Callers \subseteq Threads /\ Worker \notin Callers /\ stopping \in BOOLEAN
  BY Distinct DEF TypeOK
(* A step of another thread or to a harmless place. *)
<1>1. ASSUME NEW t \in Threads, NEW l, Moves(t, l), UNCHANGED stopping,
             stopping => entries' = {} /\ (active' => active),
             stopping /\ t \in Callers =>
                l \in {"idle", "waiting", "asleep"} \/ (l \in {"freeing", "destroyed"} /\ ~active),
             t \in Callers /\ l = "destroyed" => stopping
      PROVE  StopInv'
  BY <1>0, <1>1 DEF Moves
<1>2. ASSUME NEW c \in Callers, Call(c) PROVE StopInv'
  <2>0. c \in Threads
    BY <1>0
  <2>1. CASE Destroy(c)
    <3>1. \A b \in Callers : pc[b] = "idle"
      BY <2>1 DEF Destroy
    <3>2. stopping' /\ entries' = {} /\ Moves(c, "waiting")
      BY <2>1, CallPaths DEF Destroy, Drop
    <3> QED BY <1>0, <3>1, <3>2 DEF Moves
  <2>2. CASE ~Destroy(c)
    <3>1. ~stopping /\ UNCHANGED stopping
      BY <1>2, <2>2 DEF Call, Request, Window, Cancel, WaitIdle, Calls, Enqueue, queueVars
    <3>2. \E l \in {"idle", "kick", "window", "waiting"} : Moves(c, l)
      BY <1>2, <2>2, CallPaths DEF Call
    <3> QED BY <1>1, <2>0, <3>1, <3>2
  <2> QED BY <2>1, <2>2
<1>3. ASSUME NEW c \in Callers, CallerStep(c) PROVE StopInv'
  <2>0. c \in Threads
    BY <1>0
  <2>1. CASE WindowRequest(c)
    <3>1. ~stopping /\ UNCHANGED stopping
      BY <2>1 DEF WindowRequest, Enqueue
    <3>2. \E l \in {"idle", "kick", "window"} : Moves(c, l)
      BY <2>1, CallerPaths
    <3> QED BY <1>1, <2>0, <3>1, <3>2
  <2>2. CASE Kick(c)
    <3>1. ~stopping /\ UNCHANGED stopping
      BY <2>2 DEF Kick
    <3>2. \E l \in {"idle", "window", "submit"} : Moves(c, l)
      BY <2>2, CallerPaths DEF Caller
    <3> QED BY <1>1, <2>0, <3>1, <3>2
  <2>3. CASE KickSubmit(c) \/ KickUndo(c) \/ KickStore(c)
    <3>1. ~stopping /\ UNCHANGED stopping
      BY <2>3 DEF KickSubmit, KickUndo, KickStore, queueVars
    <3>2. \E l \in {"store", "undo", "idle", "window"} : Moves(c, l)
      BY <2>3, CallerPaths DEF Caller
    <3> QED BY <1>1, <2>0, <3>1, <3>2
  <2>4. CASE Await(c)
    <3>1. UNCHANGED <<stopping, entries, active>>
      BY <2>4 DEF Await
    <3>2. \/ Moves(c, "asleep")
          \/ ~active /\ (Moves(c, Ended) \/ Moves(c, "freeing"))
      BY <2>4, CallerPaths DEF Busy
    <3> QED BY <1>1, <2>0, <3>1, <3>2 DEF Ended
  <2>5. CASE Freed(c)
    <3>1. UNCHANGED <<stopping, entries, active>>
      BY <2>5 DEF Freed, queueVars
    <3>2. Moves(c, Ended) /\ pc[c] = "freeing"
      BY <2>5, CallerPaths
    <3> QED BY <1>1, <2>0, <3>1, <3>2 DEF Ended
  <2> QED BY <1>3, <2>1, <2>2, <2>3, <2>4, <2>5 DEF CallerStep
<1>4. CASE WorkerStep
  <2>1. \E l : Moves(Worker, l)
    BY <1>4, WorkerPaths DEF WorkerStep
  <2>2. UNCHANGED stopping /\ (active' => active) /\ (stopping => entries' = {})
    BY <1>4 DEF WorkerStep, Pop, Start, Load, After, Resubmit, Restore, StoreNext, Release,
                Released, Complete, queueVars
  <2> QED BY <1>1, <2>1, <2>2, Distinct
<1>5. CASE UNCHANGED vars
  BY <1>5 DEF vars, queueVars
<1> QED BY <1>2, <1>3, <1>4, <1>5 DEF Next

-----------------------------------------------------------------------------
(* The drains and their futures *)

\* There are no drains at first.
LEMMA FutureInit == Init => FutureInv /\ DrainInv
<1> SUFFICES ASSUME Init PROVE FutureInv /\ DrainInv
  OBVIOUS
<1>1. DOMAIN drains = {}
  BY DEF Init
<1>2. \A t \in Threads : pc[t] = "idle"
  BY DEF Init
<1> QED BY <1>1, <1>2, Distinct DEF Init, FutureInv, DrainInv, CallerDrains, WorkerDrains

\* While someone else than a drain in the executor's queue has to clear active, or
\* nobody has to, no drain is in that queue.
LEMMA NoneQueued ==
    ASSUME DrainInv, ~active \/ WorkerDrains \/ \E c \in Callers : CallerDrains(c)
    PROVE  \A d \in DOMAIN drains : ~Queued(d)
BY DEF DrainInv

\* No step but a submission gives the executor a drain.
LEMMA FutureFrame ==
    ASSUME TypeOK, PlaceInv, FutureInv, UNCHANGED <<drains, task>>,
           pc'[Worker] = "store" => pc[Worker] = "store" /\ mine'[Worker] = mine[Worker]
    PROVE  FutureInv'
BY DEF FutureInv

\* A future that is freed has been run.
LEMMA FutureFreed ==
    ASSUME TypeOK, PlaceInv, FutureInv, NEW t \in Threads, FreeMine(t), UNCHANGED task,
           pc'[Worker] = "store" => pc[Worker] = "store" /\ t # Worker
    PROVE  FutureInv'
<1>1. mine[t] \in DOMAIN drains /\ drains[mine[t]].status = "done"
  BY DEF FreeMine, TypeOK
<1>2. /\ Kept /\ drains'[mine[t]].status = "freed"
      /\ \A e \in DOMAIN drains : e # mine[t] => drains'[e].status = drains[e].status
      /\ \A e \in DOMAIN drains : /\ drains'[e].previous = drains[e].previous
                                  /\ drains'[e].cancelled = drains[e].cancelled
  BY <1>1, StatusSet DEF FreeMine
<1>3. pc'[Worker] = "store" => mine'[Worker] = mine[Worker] /\ mine[Worker] # mine[t]
                               /\ mine[Worker] \in DOMAIN drains
  BY <1>1, Distinct DEF FreeMine, Hold, FutureInv, TypeOK, PlaceInv, Holds
<1> QED BY <1>1, <1>2, <1>3 DEF FutureInv, Kept

\* Only a future whose drain has left the executor's queue is cancelled.
LEMMA FutureCancelled ==
    ASSUME TypeOK, PlaceInv, FutureInv, NEW d \in DOMAIN drains, CancelFuture(d), ~Queued(d),
           UNCHANGED <<task, pc[Worker], mine[Worker]>>
    PROVE  FutureInv'
<1>1. /\ Kept
      /\ \A e \in DOMAIN drains : e # d => drains'[e].cancelled = drains[e].cancelled
      /\ \A e \in DOMAIN drains : /\ drains'[e].previous = drains[e].previous
                                  /\ drains'[e].status = drains[e].status
  BY CancelSet
<1>2. pc[Worker] = "store" => mine[Worker] \in DOMAIN drains
  BY Distinct DEF TypeOK, PlaceInv, Holds
<1> QED BY <1>1, <1>2 DEF FutureInv, Kept, Queued

\* A submission: the new drain will destroy a future whose drain is over.
LEMMA FutureSubmitted ==
    ASSUME TypeOK, PlaceInv, FutureInv, NEW t \in Threads, NEW l, SubmitAccepted(t, l),
           \A d \in DOMAIN drains : ~Queued(d), UNCHANGED task, task # NewDrain,
           pc'[Worker] = "store" => t = Worker
    PROVE  FutureInv'
<1>0. mine[t] \in DOMAIN drains \cup {None} /\ drains' = Submitted(mine[t])
  BY DEF SubmitAccepted, TypeOK
<1>1. /\ DOMAIN drains' = DOMAIN drains \cup {NewDrain}
      /\ NewDrain \in Nat /\ NewDrain \notin DOMAIN drains
      /\ \A e \in DOMAIN drains : drains'[e] = drains[e]
      /\ drains'[NewDrain].status = "queued" /\ drains'[NewDrain].previous = mine[t]
      /\ ~drains'[NewDrain].cancelled
  BY <1>0, Appended
<1>2. pc'[Worker] = "store" => mine'[Worker] = NewDrain
  BY DEF SubmitAccepted, Hold, TypeOK
<1>3. mine[t] # None => mine[t] \in DOMAIN drains /\ drains[mine[t]].status # "queued"
  BY <1>0 DEF Queued
<1> QED BY <1>0, <1>1, <1>2, <1>3 DEF FutureInv

\* The steps of the callers.
LEMMA CallerFutureStep ==
    ASSUME TypeOK, PlaceInv, FutureInv, DrainInv, NEW c \in Callers, Call(c) \/ CallerStep(c)
    PROVE  FutureInv'
<1>0. c \in Threads /\ c # Worker /\ Worker \in Threads /\ UNCHANGED <<pc[Worker], task>>
  BY Distinct, WorkerStays
<1>1. mine \in [Threads -> DOMAIN drains \cup {None}] /\ None \notin Nat
  BY Distinct DEF TypeOK
<1>2. ASSUME UNCHANGED drains, mine'[Worker] = mine[Worker] PROVE FutureInv'
  BY <1>0, <1>2, FutureFrame
<1>3. CASE Call(c)
  BY <1>2, <1>3 DEF Call, Request, Window, Cancel, WaitIdle, Destroy, Enqueue
<1>4. CASE WindowRequest(c)
  BY <1>2, <1>4 DEF WindowRequest, Enqueue
<1>5. CASE Kick(c)
  BY <1>0, <1>1, <1>2, <1>5 DEF Kick, TakeActiveTask, Hold
<1>6. CASE KickSubmit(c)
  <2>1. \A d \in DOMAIN drains : ~Queued(d)
    BY <1>6, NoneQueued DEF KickSubmit, CallerDrains
  <2>2. CASE SubmitAccepted(c, "store")
    <3>1. pc[Worker] # "store"
      BY <2>1, <1>0, <1>1 DEF FutureInv, Queued, PlaceInv, Holds
    <3>2. task # NewDrain
      BY <1>1, DrainsType DEF TypeOK, NewDrain
    <3> QED BY <1>0, <2>1, <2>2, <3>1, <3>2, FutureSubmitted
  <2>3. CASE mine[c] # None /\ CancelFuture(mine[c]) /\ UNCHANGED mine
    <3>1. mine[c] \in DOMAIN drains
      BY <1>0, <1>1, <2>3
    <3> QED BY <1>0, <2>1, <2>3, <3>1, FutureCancelled
  <2>4. CASE UNCHANGED <<drains, mine>>
    BY <1>2, <2>4
  <2> QED BY <1>6, <2>2, <2>3, <2>4 DEF KickSubmit
<1>7. CASE KickUndo(c)
  <2>1. CASE UNCHANGED <<drains, mine>>
    BY <1>2, <2>1
  <2>2. CASE FreeMine(c)
    BY <1>0, <2>2, FutureFreed
  <2> QED BY <1>7, <2>1, <2>2 DEF KickUndo
<1>8. CASE KickStore(c)
  BY <1>0, <1>1, <1>2, <1>8 DEF KickStore, Hold
<1>9. CASE Await(c)
  <2>1. CASE UNCHANGED <<drains, mine>>
    BY <1>2, <2>1
  <2>2. CASE ~Busy /\ activeTask # None /\ TakeActiveTask(c) /\ CancelFuture(activeTask)
    <3>1. activeTask \in DOMAIN drains /\ ~Queued(activeTask)
      BY <2>2, NoneQueued DEF Busy, TypeOK
    <3>2. mine'[Worker] = mine[Worker]
      BY <1>0, <1>1, <2>2 DEF TakeActiveTask, Hold
    <3> QED BY <1>0, <2>2, <3>1, <3>2, FutureCancelled
  <2> QED BY <1>9, <2>1, <2>2 DEF Await
<1>10. CASE Freed(c)
  BY <1>0, <1>10, FutureFreed DEF Freed
<1> QED BY <1>3, <1>4, <1>5, <1>6, <1>7, <1>8, <1>9, <1>10 DEF CallerStep

\* The steps of the worker.
LEMMA WorkerFutureStep ==
    ASSUME TypeOK, PlaceInv, FutureInv, DrainInv, WorkerStep
    PROVE  FutureInv'
<1>0. Worker \in Threads /\ None \notin Nat /\ DOMAIN drains \subseteq Nat
  BY Distinct, DrainsType
<1>1. ASSUME NEW d \in DOMAIN drains, Pop(d) PROVE FutureInv'
  <2>1. /\ Kept /\ drains'[d].status = "running"
        /\ \A e \in DOMAIN drains : e # d => drains'[e].status = drains[e].status
        /\ \A e \in DOMAIN drains : /\ drains'[e].previous = drains[e].previous
                                    /\ drains'[e].cancelled = drains[e].cancelled
    BY <1>1, StatusSet DEF Pop
  <2>2. task = None /\ task' = d
    BY <1>1 DEF Pop, PlaceInv, WorkerPlace
  <2>3. pc'[Worker] # "store"
    BY <1>1, WorkerPaths DEF Moves
  <2> QED BY <1>0, <2>1, <2>2, <2>3 DEF FutureInv, Kept
<1>2. CASE Start \/ Load \/ After \/ Restore \/ StoreNext
  <2>1. pc'[Worker] # "store"
    <3>1. CASE Start
      BY <3>1, WorkerPaths DEF Moves
    <3>2. CASE After
      BY <3>2, WorkerPaths DEF Moves
    <3> QED BY <1>2, <3>1, <3>2, WorkerPaths DEF Moves
  <2>2. UNCHANGED <<drains, task>>
    BY <1>2 DEF Start, Load, After, Restore, StoreNext, workerVars
  <2> QED BY <2>1, <2>2, FutureFrame
<1>3. CASE Resubmit
  <2>1. \A d \in DOMAIN drains : ~Queued(d)
    BY <1>3, NoneQueued DEF Resubmit, WorkerDrains
  <2>2. CASE SubmitAccepted(Worker, "store")
    <3>1. task # NewDrain /\ UNCHANGED task
      BY <1>0, <1>3, DrainsType DEF TypeOK, NewDrain, Resubmit, workerVars
    <3> QED BY <1>0, <2>1, <2>2, <3>1, FutureSubmitted
  <2>3. CASE UNCHANGED <<drains, mine>> /\ Goto(Worker, "undo")
    <3>1. pc'[Worker] # "store" /\ UNCHANGED task
      BY <1>0, <1>3, <2>3, Moved DEF Moves, Labels, Resubmit, workerVars
    <3> QED BY <2>3, <3>1, FutureFrame
  <2> QED BY <1>3, <2>2, <2>3 DEF Resubmit
<1>4. CASE Release
  <2>0. pc'[Worker] # "store" /\ UNCHANGED task
    BY <1>4, WorkerPaths DEF Moves, Release, workerVars
  <2>1. task \in DOMAIN drains
    BY <1>4 DEF Release, PlaceInv, WorkerPlace, TypeOK
  <2>2. CASE drains[task].previous = None
    BY <1>4, <2>0, <2>2, FutureFrame DEF Release
  <2>3. CASE drains[task].previous # None
    <3>1. drains[task].previous \in DOMAIN drains /\ ~Queued(drains[task].previous)
      BY <2>1, <2>3 DEF FutureInv, Queued
    <3>2. /\ Kept /\ drains'[task].previous = None
          /\ \A f \in DOMAIN drains : f # task => drains'[f].previous = drains[f].previous
          /\ \A f \in DOMAIN drains : f # drains[task].previous =>
                drains'[f].cancelled = drains[f].cancelled
          /\ \A f \in DOMAIN drains : drains'[f].status = drains[f].status
      BY <1>4, <2>1, <2>3, <3>1, ReleaseSet DEF Release
    <3> QED BY <2>0, <2>1, <3>1, <3>2 DEF FutureInv, Kept, Queued
  <2> QED BY <2>2, <2>3
<1>5. CASE Released
  <2>1. pc'[Worker] # "store" /\ UNCHANGED task /\ FreeMine(Worker)
    BY <1>5, WorkerPaths DEF Moves, Released, workerVars
  <2> QED BY <1>0, <2>1, FutureFreed
<1>6. CASE Complete
  <2>1. task \in DOMAIN drains
    BY <1>6 DEF Complete, PlaceInv, WorkerPlace, TypeOK
  <2>2. /\ Kept /\ drains'[task].status = "done"
        /\ \A e \in DOMAIN drains : e # task => drains'[e].status = drains[e].status
        /\ \A e \in DOMAIN drains : /\ drains'[e].previous = drains[e].previous
                                    /\ drains'[e].cancelled = drains[e].cancelled
    BY <1>6, <2>1, StatusSet DEF Complete
  <2>3. task' = None /\ pc'[Worker] # "store"
    BY <1>6, WorkerPaths DEF Moves, Complete
  <2> QED BY <1>0, <2>1, <2>2, <2>3 DEF FutureInv, Kept
<1> QED BY <1>1, <1>2, <1>3, <1>4, <1>5, <1>6 DEF WorkerStep

\* Every step keeps the drains and their futures together.
LEMMA FutureStep ==
    ASSUME TypeOK, PlaceInv, FutureInv, DrainInv, [Next]_vars
    PROVE  FutureInv'
<1>1. CASE UNCHANGED vars
  BY <1>1, FutureFrame DEF vars, workerVars
<1> QED BY <1>1, CallerFutureStep, WorkerFutureStep DEF Next

-----------------------------------------------------------------------------
(* The active flag and the drain it stands for *)

\* A step that leaves the flag, and each drainer on its side.
LEMMA DrainFrame ==
    ASSUME DrainInv, UNCHANGED active,
           \A c \in Callers : CallerDrains(c)' <=> CallerDrains(c),
           WorkerDrains' <=> WorkerDrains,
           DOMAIN drains' = DOMAIN drains,
           \A d \in DOMAIN drains :
              drains'[d].status = drains[d].status \/
              {drains'[d].status, drains[d].status} \subseteq {"running", "done", "freed"}
    PROVE  DrainInv'
<1>1. \A d \in DOMAIN drains : Queued(d)' <=> Queued(d)
  BY DEF Queued
<1> QED BY <1>1 DEF DrainInv

\* A caller starts a drain when there is none.
LEMMA DrainBegins ==
    ASSUME DrainInv, ~active, active', NEW c \in Callers, CallerDrains(c)',
           \A b \in Callers : b # c => (CallerDrains(b)' <=> CallerDrains(b)),
           WorkerDrains' <=> WorkerDrains, UNCHANGED drains
    PROVE  DrainInv'
<1>1. \A d \in DOMAIN drains : Queued(d)' <=> Queued(d)
  BY DEF Queued
<1> QED BY <1>1 DEF DrainInv

(* The one who has to clear active, if it is a thread. *)
Draining(t) == IF t = Worker THEN WorkerDrains ELSE CallerDrains(t)

\* A thread that drains is the only drainer.
LEMMA OneDrainer ==
    ASSUME DrainInv, NEW t \in Threads, Draining(t)
    PROVE  /\ active
           /\ \A d \in DOMAIN drains : ~Queued(d)
           /\ \A u \in Threads : u # t => ~Draining(u)
<1>1. CASE t = Worker
  <2>1. WorkerDrains
    BY <1>1 DEF Draining
  <2>2. \A c \in Callers : ~CallerDrains(c)
    BY <2>1 DEF DrainInv
  <2> QED BY <1>1, <2>1, <2>2 DEF DrainInv, Draining, Threads
<1>2. CASE t # Worker
  <2>1. t \in Callers /\ CallerDrains(t)
    BY <1>2 DEF Draining, Threads
  <2>2. ~WorkerDrains /\ \A c \in Callers : c # t => ~CallerDrains(c)
    BY <2>1 DEF DrainInv
  <2>3. active /\ \A d \in DOMAIN drains : ~Queued(d)
    BY <2>1 DEF DrainInv
  <2> QED BY <2>2, <2>3 DEF Draining, Threads
<1> QED BY <1>1, <1>2

\* A thread that drains hands over to the drain it submits.
LEMMA DrainSubmitted ==
    ASSUME TypeOK, DrainInv, NEW t \in Threads, Draining(t), NEW l, SubmitAccepted(t, l),
           UNCHANGED active, ~Draining(t)',
           \A u \in Threads : u # t => (Draining(u)' <=> Draining(u))
    PROVE  DrainInv'
<1>0. Worker \in Threads /\ Worker \notin Callers /\ Callers \subseteq Threads
      /\ (t \in Callers \/ t = Worker)
  BY Distinct DEF Threads
<1>1. mine[t] \in DOMAIN drains \cup {None} /\ drains' = Submitted(mine[t])
  BY DEF SubmitAccepted, TypeOK
<1>2. /\ DOMAIN drains' = DOMAIN drains \cup {NewDrain} /\ NewDrain \notin DOMAIN drains
      /\ \A e \in DOMAIN drains : drains'[e] = drains[e]
      /\ drains'[NewDrain].status = "queued"
  BY <1>1, Appended
<1>3. /\ active
      /\ \A d \in DOMAIN drains : ~Queued(d)
      /\ \A u \in Threads : u # t => ~Draining(u)
  BY OneDrainer
<1>4. \A c \in Callers : ~CallerDrains(c)'
  BY <1>0, <1>3 DEF Draining
<1>5. ~WorkerDrains'
  BY <1>0, <1>3 DEF Draining
<1>6. \A d \in DOMAIN drains' : Queued(d)' <=> d = NewDrain
  BY <1>2, <1>3 DEF Queued
<1> QED BY <1>2, <1>3, <1>4, <1>5, <1>6 DEF DrainInv

\* A thread that drains clears the flag.
LEMMA DrainEnds ==
    ASSUME TypeOK, DrainInv, NEW t \in Threads, Draining(t), ~active', ~Draining(t)',
           \A u \in Threads : u # t => (Draining(u)' <=> Draining(u)),
           DOMAIN drains' = DOMAIN drains,
           \A d \in DOMAIN drains :
              drains'[d].status = drains[d].status \/ drains'[d].status = "freed"
    PROVE  DrainInv'
<1>0. Worker \in Threads /\ Worker \notin Callers /\ Callers \subseteq Threads
      /\ (t \in Callers \/ t = Worker)
  BY Distinct DEF Threads
<1>1. /\ \A d \in DOMAIN drains : ~Queued(d)
      /\ \A u \in Threads : u # t => ~Draining(u)
  BY OneDrainer
<1>2. \A c \in Callers : ~CallerDrains(c)'
  BY <1>0, <1>1 DEF Draining
<1>3. ~WorkerDrains'
  BY <1>0, <1>1 DEF Draining
<1>4. \A d \in DOMAIN drains' : ~Queued(d)'
  BY <1>1 DEF Queued
<1> QED BY <1>2, <1>3, <1>4 DEF DrainInv

\* Threads that do not step keep their part.
LEMMA DrainingFrame ==
    ASSUME TypeOK, PlaceInv, NEW t \in Threads, NEW l, Moves(t, l)
    PROVE  /\ \A u \in Threads : u # t => (Draining(u)' <=> Draining(u))
           /\ \A c \in Callers : c # t => (CallerDrains(c)' <=> CallerDrains(c))
           /\ t # Worker => (WorkerDrains' <=> WorkerDrains)
BY Distinct DEF Moves, Draining, CallerDrains, WorkerDrains

\* The steps of the callers.
LEMMA CallerDrainStep ==
    ASSUME TypeOK, PlaceInv, FutureInv, DrainInv, NEW c \in Callers, Call(c) \/ CallerStep(c)
    PROVE  DrainInv'
<1>0. c \in Threads /\ c # Worker /\ mine \in [Threads -> DOMAIN drains \cup {None}]
  BY Distinct DEF TypeOK
<1>1. ASSUME NEW l, Moves(c, l), CallerDrains(c) <=> l \in {"submit", "undo"},
             UNCHANGED active, DOMAIN drains' = DOMAIN drains,
             \A d \in DOMAIN drains : drains'[d].status = drains[d].status \/
                {drains'[d].status, drains[d].status} \subseteq {"running", "done", "freed"}
      PROVE  DrainInv'
  <2>1. CallerDrains(c)' <=> CallerDrains(c)
    BY <1>1 DEF Moves, CallerDrains
  <2> QED BY <1>0, <1>1, <2>1, DrainingFrame, DrainFrame
<1>2. ASSUME NEW l, Moves(c, l), CallerDrains(c) <=> l \in {"submit", "undo"},
             UNCHANGED <<active, drains>>
      PROVE  DrainInv'
  BY <1>1, <1>2
<1>3. ASSUME NEW l, Moves(c, l), CallerDrains(c) <=> l \in {"submit", "undo"},
             UNCHANGED active, FreeMine(c)
      PROVE  DrainInv'
  <2>1. mine[c] \in DOMAIN drains /\ drains[mine[c]].status = "done"
    BY <1>0, <1>3 DEF FreeMine
  <2>2. /\ Kept /\ drains'[mine[c]].status = "freed"
        /\ \A e \in DOMAIN drains : e # mine[c] => drains'[e].status = drains[e].status
    BY <1>3, <2>1, StatusSet DEF FreeMine
  <2> QED BY <1>1, <1>3, <2>1, <2>2 DEF Kept
<1>4. ASSUME NEW l, Moves(c, l), CallerDrains(c) <=> l \in {"submit", "undo"},
             UNCHANGED active, NEW d \in DOMAIN drains, CancelFuture(d)
      PROVE  DrainInv'
  <2>1. Kept /\ \A e \in DOMAIN drains : drains'[e].status = drains[e].status
    BY <1>4, CancelSet
  <2> QED BY <1>1, <1>4, <2>1 DEF Kept
<1> USE DEF CallerDrains
<1>5. CASE Call(c)
  <2>1. \E l \in {"idle", "kick", "window", "waiting"} : Moves(c, l)
    BY <1>5, CallPaths DEF Call
  <2>2. pc[c] = "idle" /\ UNCHANGED <<active, drains>>
    BY <1>5 DEF Call, Calls, Request, Window, Cancel, WaitIdle, Destroy, Enqueue, queueVars
  <2> QED BY <1>2, <2>1, <2>2
<1>6. CASE WindowRequest(c)
  <2>1. \E l \in {"idle", "kick", "window"} : Moves(c, l)
    BY <1>6, CallerPaths
  <2>2. pc[c] = "window" /\ UNCHANGED <<active, drains>>
    BY <1>6 DEF WindowRequest, Enqueue
  <2> QED BY <1>2, <2>1, <2>2
<1>7. CASE Kick(c)
  <2>1. CASE NothingToStart
    <3>1. Moves(c, Caller(c)) /\ pc[c] = "kick" /\ UNCHANGED <<active, drains>>
      BY <1>7, <2>1, CallerPaths DEF Kick
    <3> QED BY <1>2, <3>1 DEF Caller
  <2>2. CASE ~NothingToStart
    <3>1. Moves(c, "submit") /\ ~active /\ active' /\ UNCHANGED drains
      BY <1>7, <2>2, CallerPaths DEF Kick, NothingToStart
    <3>2. CallerDrains(c)'
      BY <3>1 DEF Moves
    <3>3. /\ \A b \in Callers : b # c => (CallerDrains(b)' <=> CallerDrains(b))
          /\ WorkerDrains' <=> WorkerDrains
      BY <1>0, <3>1, DrainingFrame
    <3> HIDE DEF CallerDrains
    <3> QED BY <3>1, <3>2, <3>3, DrainBegins
  <2> QED BY <2>1, <2>2
<1>8. CASE KickSubmit(c)
  <2>0. pc[c] = "submit" /\ UNCHANGED active
    BY <1>8 DEF KickSubmit, queueVars
  <2>1. CASE SubmitAccepted(c, "store")
    <3>1. Moves(c, "store")
      BY <1>0, <2>1, Moved DEF SubmitAccepted, Labels
    <3>2. Draining(c) /\ ~Draining(c)'
      BY <1>0, <2>0, <3>1 DEF Draining, Moves
    <3> QED BY <1>0, <2>0, <2>1, <3>1, <3>2, DrainingFrame, DrainSubmitted
  <2>2. CASE Goto(c, "undo") /\ (UNCHANGED drains \/ (mine[c] # None /\ CancelFuture(mine[c])))
    <3>1. Moves(c, "undo")
      BY <1>0, <2>2, Moved DEF Labels
    <3>2. mine[c] # None => mine[c] \in DOMAIN drains
      BY <1>0
    <3> QED BY <1>2, <1>4, <2>0, <2>2, <3>1, <3>2
  <2> QED BY <1>8, <2>1, <2>2 DEF KickSubmit
<1>9. CASE KickUndo(c)
  <2>1. pc[c] = "undo" /\ Moves(c, Caller(c)) /\ ~active'
    BY <1>9, CallerPaths DEF KickUndo
  <2>2. Draining(c) /\ ~Draining(c)'
    BY <1>0, <2>1 DEF Draining, Moves, Caller
  <2>3. /\ DOMAIN drains' = DOMAIN drains
        /\ \A d \in DOMAIN drains :
              drains'[d].status = drains[d].status \/ drains'[d].status = "freed"
    <3>1. CASE FreeMine(c)
      <4>1. mine[c] \in DOMAIN drains
        BY <1>0, <3>1 DEF FreeMine
      <4>2. /\ Kept /\ drains'[mine[c]].status = "freed"
            /\ \A e \in DOMAIN drains : e # mine[c] => drains'[e].status = drains[e].status
        BY <3>1, <4>1, StatusSet DEF FreeMine
      <4> QED BY <4>2 DEF Kept
    <3> QED BY <1>9, <3>1 DEF KickUndo
  <2> QED BY <1>0, <2>1, <2>2, <2>3, DrainingFrame, DrainEnds
<1>10. CASE KickStore(c)
  <2>1. pc[c] = "store" /\ Moves(c, Caller(c)) /\ UNCHANGED <<active, drains>>
    BY <1>10, CallerPaths DEF KickStore
  <2> QED BY <1>2, <2>1 DEF Caller
<1>11. CASE Await(c)
  <2>1. pc[c] = "waiting" /\ UNCHANGED active
    BY <1>11 DEF Await
  <2>2. \E l \in {"asleep", "idle", "destroyed", "freeing"} : Moves(c, l)
    BY <1>11, CallerPaths DEF Ended
  <2>3. UNCHANGED drains \/ (activeTask # None /\ CancelFuture(activeTask))
    BY <1>11 DEF Await
  <2>4. activeTask # None => activeTask \in DOMAIN drains
    BY DEF TypeOK
  <2> QED BY <1>2, <1>4, <2>1, <2>2, <2>3, <2>4
<1>12. CASE Freed(c)
  <2>1. pc[c] = "freeing" /\ Moves(c, Ended) /\ UNCHANGED active /\ FreeMine(c)
    BY <1>12, CallerPaths DEF Freed, queueVars
  <2> QED BY <1>3, <2>1 DEF Ended
<1> QED BY <1>5, <1>6, <1>7, <1>8, <1>9, <1>10, <1>11, <1>12 DEF CallerStep

\* The steps of the worker.
LEMMA WorkerDrainStep ==
    ASSUME TypeOK, PlaceInv, FutureInv, DrainInv, WorkerStep
    PROVE  DrainInv'
<1>0. /\ Worker \in Threads /\ Worker \notin Callers /\ None \notin Nat
      /\ mine \in [Threads -> DOMAIN drains \cup {None}]
  BY Distinct DEF TypeOK
<1>1. ASSUME NEW l, Moves(Worker, l)
      PROVE  \A c \in Callers : CallerDrains(c)' <=> CallerDrains(c)
  BY <1>0, <1>1, DrainingFrame
<1>2. ASSUME NEW l, Moves(Worker, l), UNCHANGED active,
             WorkerDrains <=> l \in {"start", "load", "after", "submit", "undo"},
             DOMAIN drains' = DOMAIN drains,
             \A d \in DOMAIN drains : drains'[d].status = drains[d].status \/
                {drains'[d].status, drains[d].status} \subseteq {"running", "done", "freed"}
      PROVE  DrainInv'
  <2>1. WorkerDrains' <=> WorkerDrains
    BY <1>2 DEF Moves, WorkerDrains
  <2> QED BY <1>1, <1>2, <2>1, DrainFrame
<1>3. ASSUME NEW l, Moves(Worker, l), UNCHANGED <<active, drains>>,
             WorkerDrains <=> l \in {"start", "load", "after", "submit", "undo"}
      PROVE  DrainInv'
  BY <1>2, <1>3
<1>4. ASSUME Moves(Worker, "release"), ~active', WorkerDrains, UNCHANGED drains
      PROVE  DrainInv'
  <2>1. Draining(Worker) /\ ~Draining(Worker)'
    BY <1>4 DEF Draining, WorkerDrains, Moves
  <2> QED BY <1>0, <1>4, <2>1, DrainingFrame, DrainEnds
<1>5. ASSUME NEW d \in DOMAIN drains, Pop(d) PROVE DrainInv'
  <2>1. /\ Queued(d) /\ ~drains[d].cancelled /\ pc[Worker] = "idle" /\ UNCHANGED active
    BY <1>5 DEF Pop, Queued, FutureInv, queueVars
  <2>2. Moves(Worker, "start")
    BY <1>5, <2>1, WorkerPaths
  <2>3. /\ Kept /\ drains'[d].status = "running"
        /\ \A e \in DOMAIN drains : e # d => drains'[e].status = drains[e].status
    BY <1>5, StatusSet DEF Pop
  <2>4. /\ active
        /\ \A c \in Callers : ~CallerDrains(c)
        /\ \A e \in DOMAIN drains : Queued(e) => e = d
    BY <2>1 DEF DrainInv
  <2>5. WorkerDrains' /\ (\A c \in Callers : ~CallerDrains(c)')
    BY <1>1, <2>2, <2>4 DEF WorkerDrains, Moves
  <2>6. \A e \in DOMAIN drains' : ~Queued(e)'
    BY <2>3, <2>4 DEF Queued, Kept
  <2> QED BY <2>1, <2>4, <2>5, <2>6 DEF DrainInv
<1> USE DEF WorkerDrains
<1>6. CASE Start
  <2>1. CASE stopping \/ entries = {}
    BY <1>4, <1>6, <2>1, WorkerPaths DEF Start
  <2>2. CASE ~(stopping \/ entries = {})
    BY <1>3, <1>6, <2>2, WorkerPaths DEF Start
  <2> QED BY <2>1, <2>2
<1>7. CASE Load
  BY <1>3, <1>7, WorkerPaths DEF Load, queueVars
<1>8. CASE After
  <2>1. CASE MoreWork
    BY <1>3, <1>8, <2>1, WorkerPaths DEF After
  <2>2. CASE ~MoreWork
    BY <1>4, <1>8, <2>2, WorkerPaths DEF After
  <2> QED BY <2>1, <2>2
<1>9. CASE Resubmit
  <2>0. pc[Worker] = "submit" /\ UNCHANGED active
    BY <1>9 DEF Resubmit, queueVars
  <2>1. CASE SubmitAccepted(Worker, "store")
    <3>1. Moves(Worker, "store")
      BY <1>0, <2>1, Moved DEF SubmitAccepted, Labels
    <3>2. Draining(Worker) /\ ~Draining(Worker)'
      BY <2>0, <3>1 DEF Draining, Moves
    <3> QED BY <1>0, <2>0, <2>1, <3>1, <3>2, DrainingFrame, DrainSubmitted
  <2>2. CASE Goto(Worker, "undo") /\ UNCHANGED drains
    <3>1. Moves(Worker, "undo")
      BY <1>0, <2>2, Moved DEF Labels
    <3> QED BY <1>3, <2>0, <2>2, <3>1
  <2> QED BY <1>9, <2>1, <2>2 DEF Resubmit
<1>10. CASE Restore
  BY <1>4, <1>10, WorkerPaths DEF Restore
<1>11. CASE StoreNext
  BY <1>3, <1>11, WorkerPaths DEF StoreNext
<1>12. CASE Release
  <2>0. pc[Worker] = "release" /\ UNCHANGED active /\ task \in DOMAIN drains
    BY <1>12 DEF Release, PlaceInv, WorkerPlace, TypeOK, queueVars
  <2>1. CASE drains[task].previous = None
    BY <1>3, <1>12, <2>0, <2>1, WorkerPaths DEF Release
  <2>2. CASE drains[task].previous # None
    <3>1. drains[task].previous \in DOMAIN drains /\ Moves(Worker, "freeing")
      BY <1>12, <2>0, <2>2, WorkerPaths DEF FutureInv
    <3>2. Kept /\ \A f \in DOMAIN drains : drains'[f].status = drains[f].status
      BY <1>12, <2>0, <2>2, <3>1, ReleaseSet DEF Release
    <3> QED BY <1>2, <2>0, <3>1, <3>2 DEF Kept
  <2> QED BY <2>1, <2>2
<1>13. CASE Released
  <2>0. pc[Worker] = "freeing" /\ UNCHANGED active /\ Moves(Worker, "complete")
    BY <1>13, WorkerPaths DEF Released, queueVars
  <2>1. mine[Worker] \in DOMAIN drains /\ drains[mine[Worker]].status = "done"
    BY <1>0, <1>13 DEF Released, FreeMine
  <2>2. /\ Kept /\ drains'[mine[Worker]].status = "freed"
        /\ \A e \in DOMAIN drains : e # mine[Worker] => drains'[e].status = drains[e].status
    BY <1>13, <2>1, StatusSet DEF Released, FreeMine
  <2> QED BY <1>2, <2>0, <2>1, <2>2 DEF Kept
<1>14. CASE Complete
  <2>0. pc[Worker] = "complete" /\ UNCHANGED active /\ Moves(Worker, "idle")
    BY <1>14, WorkerPaths DEF Complete, queueVars
  <2>1. task \in DOMAIN drains /\ drains[task].status = "running"
    BY <1>14 DEF Complete, PlaceInv, WorkerPlace, TypeOK, FutureInv
  <2>2. /\ Kept /\ drains'[task].status = "done"
        /\ \A e \in DOMAIN drains : e # task => drains'[e].status = drains[e].status
    BY <1>14, <2>1, StatusSet DEF Complete
  <2> QED BY <1>2, <2>0, <2>1, <2>2 DEF Kept
<1> QED BY <1>5, <1>6, <1>7, <1>8, <1>9, <1>10, <1>11, <1>12, <1>13, <1>14 DEF WorkerStep

\* Every step keeps the active flag for its drain.
LEMMA DrainStep ==
    ASSUME TypeOK, PlaceInv, FutureInv, DrainInv, [Next]_vars
    PROVE  DrainInv'
<1>1. CASE UNCHANGED vars
  BY <1>1, DrainFrame DEF vars, queueVars, CallerDrains, WorkerDrains
<1> QED BY <1>1, CallerDrainStep, WorkerDrainStep DEF Next

-----------------------------------------------------------------------------
(* Refused submissions and stranded entries *)

\* Nothing has been refused at first.
LEMMA StrandInit == Init => DeniedInv /\ NoneStranded
BY Distinct DEF Init, DeniedInv, NoneStranded

\* What a step does to the entries, the flag and the record of the refusal.
LEMMA StrandFrame ==
    ASSUME DeniedInv, NoneStranded, NEW t \in Threads, NEW l, Moves(t, l),
           entries = {} => entries' = {}, UNCHANGED <<active, denied>>,
           l # "undo", pc[t] = "kick" => active \/ entries = {}
    PROVE  DeniedInv' /\ NoneStranded'
<1>1. DeniedInv'
  BY DEF DeniedInv, Moves
<1>2. \A c \in Callers : c # t /\ pc[c] = "kick" => pc'[c] = "kick"
  BY Distinct DEF Moves
<1> QED BY <1>1, <1>2 DEF NoneStranded

\* The steps that clear the flag leave nothing pending, or were refused.
LEMMA StrandEnds ==
    ASSUME DeniedInv, NEW t \in Threads, NEW l, Moves(t, l), UNCHANGED <<entries, denied>>,
           l # "undo", entries = {} \/ denied
    PROVE  DeniedInv' /\ NoneStranded'
BY DEF DeniedInv, NoneStranded, Moves

\* A submission, which the executor accepts or refuses.
LEMMA StrandSubmits ==
    ASSUME TypeOK, DeniedInv, DrainInv, NEW t \in Threads, Draining(t),
           UNCHANGED <<entries, active>>,
           SubmitAccepted(t, "store") \/ (denied' = TRUE /\ Goto(t, "undo"))
    PROVE  DeniedInv' /\ NoneStranded'
<1>1. active /\ \A u \in Threads : u # t => ~Draining(u)
  BY OneDrainer
<1>2. \A u \in Threads : u # t => pc[u] # "undo"
  BY <1>1, Distinct DEF Draining, CallerDrains, WorkerDrains, Threads
<1>3. CASE SubmitAccepted(t, "store")
  <2>1. Moves(t, "store")
    BY <1>3, Moved DEF SubmitAccepted, Labels
  <2> QED BY <1>1, <1>2, <2>1 DEF DeniedInv, NoneStranded, Moves
<1>4. CASE denied' = TRUE /\ Goto(t, "undo")
  BY <1>4 DEF DeniedInv, NoneStranded
<1> QED BY <1>3, <1>4

\* A pending frame has a drain or a caller that starts one, after every step.
LEMMA StrandStep ==
    ASSUME TypeOK, PlaceInv, EntriesInv, StopInv, DrainInv, DeniedInv, NoneStranded, [Next]_vars
    PROVE  DeniedInv' /\ NoneStranded'
<1>0. Worker \in Threads /\ Worker \notin Callers /\ Callers \subseteq Threads
  BY Distinct
<1>1. ASSUME NEW c \in Callers, pc[c] \in {"idle", "window"}, NEW key, NEW priority, NEW l,
             l \in {"idle", "window"}, Enqueue(c, key, priority, l)
      PROVE  DeniedInv' /\ NoneStranded'
  <2>0. c \in Threads /\ {"idle", "window", "kick"} \subseteq Labels /\ UNCHANGED <<active, denied>>
    BY <1>0, <1>1 DEF Labels, Enqueue, noteVars
  <2>1. CASE Goto(c, "kick")
    <3>1. Moves(c, "kick")
      BY <2>0, <2>1, Moved
    <3>2. pc'[c] = "kick"
      BY <3>1 DEF Moves
    <3>3. DeniedInv'
      BY <2>0, <3>1 DEF DeniedInv, Moves
    <3> QED BY <3>2, <3>3 DEF NoneStranded
  <2>2. CASE Goto(c, l) /\ (entries = {} => entries' = {})
    <3>1. Moves(c, l)
      BY <1>1, <2>0, <2>2, Moved
    <3> QED BY <1>1, <2>0, <2>2, <3>1, StrandFrame
  <2> QED BY <1>1, <2>1, <2>2 DEF Enqueue
<1>2. ASSUME NEW c \in Callers, Call(c) PROVE DeniedInv' /\ NoneStranded'
  <2>0. c \in Threads
    BY <1>0
  <2>1. ASSUME NEW r \in Requests, Request(c, r[1], r[2]) PROVE DeniedInv' /\ NoneStranded'
    BY <1>1, <2>1 DEF Request, Calls
  <2>2. ASSUME NEW w \in Windows, Window(c, w[1], w[2], w[3], w[4])
        PROVE  DeniedInv' /\ NoneStranded'
    <3>1. pc[c] = "idle" /\ Moves(c, "window")
      BY <2>2, CallPaths
    <3>2. UNCHANGED <<active, denied>> /\ (entries = {} => entries' = {})
      BY <2>2 DEF Window, Drop
    <3> QED BY <2>0, <3>1, <3>2, StrandFrame
  <2>3. CASE Cancel(c) \/ Destroy(c) \/ WaitIdle(c)
    <3>1. pc[c] = "idle" /\ (Moves(c, "idle") \/ Moves(c, "waiting"))
      BY <2>3, CallPaths
    <3>2. UNCHANGED <<active, denied>> /\ (entries = {} => entries' = {})
      BY <2>3 DEF Cancel, Destroy, WaitIdle, Drop, queueVars, noteVars
    <3> QED BY <2>0, <3>1, <3>2, StrandFrame
  <2> QED BY <1>2, <2>1, <2>2, <2>3 DEF Call
<1>3. ASSUME NEW c \in Callers, CallerStep(c) PROVE DeniedInv' /\ NoneStranded'
  <2>0. c \in Threads /\ c # Worker
    BY <1>0
  <2>1. CASE WindowRequest(c)
    BY <1>1, <2>1 DEF WindowRequest
  <2>2. CASE Kick(c)
    <3>1. CASE NothingToStart
      <4>1. active \/ entries = {}
        BY <3>1 DEF NothingToStart, StopInv
      <4>2. Moves(c, Caller(c)) /\ UNCHANGED <<active, denied, entries>>
        BY <2>2, <3>1, CallerPaths DEF Kick, noteVars
      <4> QED BY <2>0, <4>1, <4>2, StrandFrame DEF Caller
    <3>2. CASE ~NothingToStart
      <4>1. Moves(c, "submit") /\ active' /\ UNCHANGED denied
        BY <2>2, <3>2, CallerPaths DEF Kick, noteVars
      <4> QED BY <4>1 DEF DeniedInv, NoneStranded, Moves
    <3> QED BY <3>1, <3>2
  <2>3. CASE KickSubmit(c)
    <3>1. Draining(c) /\ UNCHANGED <<entries, active>>
      BY <2>0, <2>3 DEF KickSubmit, Draining, CallerDrains, queueVars
    <3> QED BY <2>0, <2>3, <3>1, StrandSubmits DEF KickSubmit
  <2>4. CASE KickUndo(c)
    <3>1. denied /\ UNCHANGED <<entries, denied>> /\ Moves(c, Caller(c))
      BY <2>0, <2>4, CallerPaths DEF KickUndo, DeniedInv, noteVars
    <3> QED BY <2>0, <3>1, StrandEnds DEF Caller
  <2>5. CASE KickStore(c)
    <3>1. pc[c] = "store" /\ Moves(c, Caller(c)) /\ UNCHANGED <<entries, active, denied>>
      BY <2>5, CallerPaths DEF KickStore
    <3> QED BY <2>0, <3>1, StrandFrame DEF Caller
  <2>6. CASE Await(c) \/ Freed(c)
    <3>1. pc[c] # "kick" /\ UNCHANGED <<entries, active, denied>>
      BY <2>6 DEF Await, Freed, queueVars, noteVars
    <3>2. \E l \in {"asleep", "idle", "destroyed", "freeing"} : Moves(c, l)
      BY <2>6, CallerPaths DEF Ended
    <3> QED BY <2>0, <3>1, <3>2, StrandFrame
  <2> QED BY <1>3, <2>1, <2>2, <2>3, <2>4, <2>5, <2>6 DEF CallerStep
<1>4. CASE WorkerStep
  <2>0. pc[Worker] # "kick"
    BY DEF PlaceInv, WorkerPlace
  <2>1. ASSUME NEW d \in DOMAIN drains, Pop(d) PROVE DeniedInv' /\ NoneStranded'
    <3>1. \E l \in {"start", "release"} : Moves(Worker, l)
      BY <2>1, WorkerPaths
    <3>2. UNCHANGED <<entries, active, denied>>
      BY <2>1 DEF Pop, queueVars, noteVars
    <3> QED BY <1>0, <2>0, <3>1, <3>2, StrandFrame
  <2>2. CASE Start
    <3>1. CASE stopping \/ entries = {}
      <4>1. entries = {} /\ Moves(Worker, "release") /\ UNCHANGED <<entries, denied>>
        BY <2>2, <3>1, WorkerPaths DEF Start, StopInv, noteVars
      <4> QED BY <1>0, <4>1, StrandEnds
    <3>2. CASE ~(stopping \/ entries = {})
      <4>1. Moves(Worker, "load") /\ UNCHANGED <<active, denied>> /\ entries # {}
        BY <2>2, <3>2, WorkerPaths DEF Start, noteVars
      <4> QED BY <1>0, <2>0, <4>1, StrandFrame
    <3> QED BY <3>1, <3>2
  <2>3. CASE After
    <3>1. CASE MoreWork
      <4>1. Moves(Worker, "submit") /\ UNCHANGED <<entries, active, denied>>
        BY <2>3, <3>1, WorkerPaths DEF After, noteVars
      <4> QED BY <1>0, <2>0, <4>1, StrandFrame
    <3>2. CASE ~MoreWork
      <4>1. entries = {} /\ Moves(Worker, "release") /\ UNCHANGED <<entries, denied>>
        BY <2>3, <3>2, WorkerPaths DEF After, MoreWork, StopInv, noteVars
      <4> QED BY <1>0, <4>1, StrandEnds
    <3> QED BY <3>1, <3>2
  <2>4. CASE Resubmit
    <3>1. Draining(Worker) /\ UNCHANGED <<entries, active>>
      BY <2>4 DEF Resubmit, Draining, WorkerDrains, queueVars
    <3> QED BY <1>0, <2>4, <3>1, StrandSubmits DEF Resubmit
  <2>5. CASE Restore
    <3>1. denied /\ UNCHANGED <<entries, denied>> /\ Moves(Worker, "release")
      BY <1>0, <2>5, WorkerPaths DEF Restore, DeniedInv
    <3> QED BY <1>0, <3>1, StrandEnds
  <2>6. CASE Load \/ StoreNext \/ Release \/ Released \/ Complete
    <3>1. UNCHANGED <<entries, active, denied>>
      BY <2>6 DEF Load, StoreNext, Release, Released, Complete, queueVars, noteVars
    <3>2. \E l \in {"after", "release", "complete", "freeing", "idle"} : Moves(Worker, l)
      <4>1. CASE Release
        BY <4>1, WorkerPaths
      <4> QED BY <2>6, <4>1, WorkerPaths
    <3> QED BY <1>0, <2>0, <3>1, <3>2, StrandFrame
  <2> QED BY <1>4, <2>1, <2>2, <2>3, <2>4, <2>5, <2>6 DEF WorkerStep
<1>5. CASE UNCHANGED vars
  BY <1>5 DEF vars, queueVars, noteVars, DeniedInv, NoneStranded
<1> QED BY <1>2, <1>3, <1>4, <1>5 DEF Next

-----------------------------------------------------------------------------
(* The owners of the futures *)

\* There are no futures at first.
LEMMA OwnerInit == Init => OwnerInv
<1> SUFFICES ASSUME Init PROVE OwnerInv
  OBVIOUS
<1>1. DOMAIN drains = {} /\ activeTask = None /\ \A t \in Threads : mine[t] = None
  BY DEF Init
<1> QED BY <1>1 DEF OwnerInv

(* No drain is submitted or freed, and none gives up the previous future. *)
SameDrains ==
    /\ DOMAIN drains' = DOMAIN drains
    /\ \A d \in DOMAIN drains : /\ drains'[d].previous = drains[d].previous
                                /\ drains'[d].status = "freed" <=> drains[d].status = "freed"

\* A cancellation is no such thing.
LEMMA SameWhenCancelled ==
    ASSUME TypeOK, NEW d \in DOMAIN drains, CancelFuture(d)
    PROVE  SameDrains
BY CancelSet DEF SameDrains, Kept

\* What owns a future is part of the state the drains, the threads and the queue share.
LEMMA OwnerFrame ==
    ASSUME OwnerInv, SameDrains, UNCHANGED <<mine, activeTask, lost>>
    PROVE  OwnerInv'
BY DEF OwnerInv, SameDrains

\* A thread takes the future out of the queue.
LEMMA OwnerTakes ==
    ASSUME TypeOK, OwnerInv, SameDrains, NEW t \in Threads, TakeActiveTask(t), mine[t] = None,
           UNCHANGED lost
    PROVE  OwnerInv'
<1>1. /\ mine'[t] = activeTask /\ activeTask' = None
      /\ \A u \in Threads : u # t => mine'[u] = mine[u]
  BY DEF TakeActiveTask, Hold, TypeOK
<1>2. \A d \in DOMAIN drains : d # None
  BY DrainsType, Distinct
<1>3. \A t1, t2 \in Threads : mine'[t1] = mine'[t2] /\ mine'[t1] # None => t1 = t2
  BY <1>1 DEF OwnerInv
<1>4. \A u \in Threads, d \in DOMAIN drains : mine'[u] # None => mine'[u] # drains[d].previous
  BY <1>1 DEF OwnerInv
<1>5. ASSUME NEW d \in DOMAIN drains
      PROVE  ((\E u \in Threads : mine[u] = d) \/ activeTask = d)
                <=> \E u \in Threads : mine'[u] = d
  BY <1>1, <1>2
<1> QED BY <1>1, <1>2, <1>3, <1>4, <1>5 DEF OwnerInv, SameDrains

\* A thread gives its future to the queue, which forgets the one it had.
LEMMA OwnerSets ==
    ASSUME TypeOK, OwnerInv, SameDrains, NEW t \in Threads, SetActiveTask(mine[t]), Hold(t, None)
    PROVE  OwnerInv'
<1>1. /\ mine'[t] = None /\ activeTask' = mine[t]
      /\ \A u \in Threads : u # t => mine'[u] = mine[u]
      /\ lost' = IF activeTask = None THEN lost ELSE lost \cup {activeTask}
  BY DEF SetActiveTask, Hold, TypeOK
<1>2. \A d \in DOMAIN drains : d # None
  BY DrainsType, Distinct
<1>3. activeTask' # None => /\ \A u \in Threads : mine'[u] # activeTask'
                            /\ \A d \in DOMAIN drains : drains[d].previous # activeTask'
  BY <1>1 DEF OwnerInv
<1>4. ASSUME NEW d \in DOMAIN drains
      PROVE  (\E u \in Threads : mine[u] = d) <=>
                (\E u \in Threads : mine'[u] = d) \/ activeTask' = d
  BY <1>1, <1>2
<1>5. ASSUME NEW d \in DOMAIN drains
      PROVE  drains[d].status # "freed" /\ d \notin lost' <=>
                \/ \E u \in Threads : mine'[u] = d
                \/ \E e \in DOMAIN drains : drains[e].previous = d
                \/ activeTask' = d
  <2>1. CASE activeTask = d
    <3>1. d \in lost' /\ (\A u \in Threads : mine[u] # d)
          /\ \A e \in DOMAIN drains : drains[e].previous # d
      BY <1>1, <1>2, <2>1 DEF OwnerInv
    <3> QED BY <1>4, <3>1
  <2>2. CASE activeTask # d
    <3>1. d \in lost' <=> d \in lost
      BY <1>1, <2>2
    <3> QED BY <1>4, <2>2, <3>1 DEF OwnerInv
  <2> QED BY <2>1, <2>2
<1> QED BY <1>1, <1>3, <1>5 DEF OwnerInv, SameDrains

\* A thread frees its future.
LEMMA OwnerFrees ==
    ASSUME TypeOK, OwnerInv, NEW t \in Threads, FreeMine(t), UNCHANGED <<activeTask, lost>>
    PROVE  OwnerInv'
<1>0. mine[t] \in DOMAIN drains /\ mine[t] # None /\ drains[mine[t]].status = "done"
  BY DEF FreeMine, TypeOK
<1>1. /\ mine'[t] = None
      /\ \A u \in Threads : u # t => mine'[u] = mine[u]
  BY DEF FreeMine, Hold, TypeOK
<1>2. /\ Kept /\ drains'[mine[t]].status = "freed"
      /\ \A e \in DOMAIN drains : e # mine[t] => drains'[e].status = drains[e].status
      /\ \A e \in DOMAIN drains : drains'[e].previous = drains[e].previous
  BY <1>0, StatusSet DEF FreeMine
<1>3. \A d \in DOMAIN drains : d # None
  BY DrainsType, Distinct
<1>4. ASSUME NEW d \in DOMAIN drains
      PROVE  drains'[d].status # "freed" /\ d \notin lost <=>
                \/ \E u \in Threads : mine'[u] = d
                \/ \E e \in DOMAIN drains : drains[e].previous = d
                \/ activeTask = d
  <2>1. CASE d = mine[t]
    <3>1. /\ \A u \in Threads : mine'[u] # d
          /\ \A e \in DOMAIN drains : drains[e].previous # d
          /\ activeTask # d
      BY <1>0, <1>1, <1>3, <2>1 DEF OwnerInv
    <3> QED BY <1>2, <2>1, <3>1
  <2>2. CASE d # mine[t]
    <3>1. (\E u \in Threads : mine'[u] = d) <=> (\E u \in Threads : mine[u] = d)
      BY <1>1, <1>3, <2>2
    <3> QED BY <1>2, <2>2, <3>1 DEF OwnerInv
  <2> QED BY <2>1, <2>2
<1> QED BY <1>1, <1>2, <1>4 DEF OwnerInv, Kept

\* A drain that is submitted owns the future the thread had, which has the new one.
LEMMA OwnerSubmits ==
    ASSUME TypeOK, FutureInv, OwnerInv, NEW t \in Threads, NEW l, SubmitAccepted(t, l),
           UNCHANGED <<activeTask, lost>>
    PROVE  OwnerInv'
<1>0. /\ mine[t] \in DOMAIN drains \cup {None} /\ drains' = Submitted(mine[t])
      /\ activeTask \in DOMAIN drains \cup {None} /\ lost \subseteq DOMAIN drains
      /\ \A u \in Threads : mine[u] \in DOMAIN drains \cup {None}
  BY DEF SubmitAccepted, TypeOK
<1>1. /\ DOMAIN drains' = DOMAIN drains \cup {NewDrain}
      /\ NewDrain \in Nat /\ NewDrain \notin DOMAIN drains
      /\ \A e \in DOMAIN drains : drains'[e] = drains[e]
      /\ drains'[NewDrain].status = "queued" /\ drains'[NewDrain].previous = mine[t]
  BY <1>0, Appended
<1>2. /\ mine'[t] = NewDrain
      /\ \A u \in Threads : u # t => mine'[u] = mine[u]
  BY DEF SubmitAccepted, Hold, TypeOK
<1>3. NewDrain # None /\ \A d \in DOMAIN drains : d # None
  BY <1>1, DrainsType, Distinct
<1>4. \A d \in DOMAIN drains : drains[d].previous # NewDrain
  BY <1>1, <1>3 DEF FutureInv
<1>5. \A u, v \in Threads : mine'[u] = mine'[v] /\ mine'[u] # None => u = v
  BY <1>0, <1>1, <1>2 DEF OwnerInv
<1>6. \A d, e \in DOMAIN drains' :
        drains'[d].previous = drains'[e].previous /\ drains'[d].previous # None => d = e
  BY <1>1 DEF OwnerInv
<1>7. \A u \in Threads, d \in DOMAIN drains' : mine'[u] # None => mine'[u] # drains'[d].previous
  <2>1. \A d \in DOMAIN drains' : drains'[d].previous # NewDrain
    BY <1>0, <1>1, <1>3, <1>4
  <2>2. \A u \in Threads : u # t /\ mine[u] # None => mine[u] # mine[t]
    BY DEF OwnerInv
  <2> QED BY <1>1, <1>2, <2>1, <2>2 DEF OwnerInv
<1>8. activeTask # None =>
        /\ \A u \in Threads : mine'[u] # activeTask
        /\ \A d \in DOMAIN drains' : drains'[d].previous # activeTask
  BY <1>0, <1>1, <1>2 DEF OwnerInv
<1>9. ASSUME NEW d \in DOMAIN drains
      PROVE  ((\E u \in Threads : mine[u] = d) \/ \E e \in DOMAIN drains : drains[e].previous = d)
               <=> (\E u \in Threads : mine'[u] = d)
                      \/ \E e \in DOMAIN drains' : drains'[e].previous = d
  BY <1>1, <1>2
<1>10. ASSUME NEW d \in DOMAIN drains'
       PROVE  drains'[d].status # "freed" /\ d \notin lost <=>
                 \/ \E u \in Threads : mine'[u] = d
                 \/ \E e \in DOMAIN drains' : drains'[e].previous = d
                 \/ activeTask = d
  <2>1. CASE d = NewDrain
    BY <1>0, <1>1, <1>2, <2>1
  <2>2. CASE d # NewDrain
    BY <1>1, <1>9, <2>2 DEF OwnerInv
  <2> QED BY <2>1, <2>2
<1> QED BY <1>5, <1>6, <1>7, <1>8, <1>10 DEF OwnerInv

\* A drain that ends leaves the future it owned to its worker.
LEMMA OwnerReleases ==
    ASSUME TypeOK, PlaceInv, FutureInv, OwnerInv, Release, drains[task].previous # None
    PROVE  OwnerInv'
<1> DEFINE p == drains[task].previous
<1>0. task \in DOMAIN drains /\ Worker \in Threads /\ mine[Worker] = None
  BY Distinct DEF Release, PlaceInv, WorkerPlace, Holds, TypeOK
<1>1. p \in DOMAIN drains
  BY <1>0 DEF FutureInv
<1>2. /\ mine' = [mine EXCEPT ![Worker] = p] /\ UNCHANGED <<activeTask, lost>>
      /\ drains' = [drains EXCEPT ![task].previous = None, ![p].cancelled = TRUE]
  BY DEF Release, Hold, queueVars, noteVars
<1> HIDE DEF p
<1>3. /\ mine'[Worker] = p
      /\ \A u \in Threads : u # Worker => mine'[u] = mine[u]
  BY <1>0, <1>2 DEF TypeOK
<1>4. /\ DOMAIN drains' = DOMAIN drains /\ drains'[task].previous = None
      /\ \A f \in DOMAIN drains : f # task => drains'[f].previous = drains[f].previous
      /\ \A f \in DOMAIN drains : drains'[f].status = drains[f].status
  BY <1>0, <1>1, <1>2, ReleaseSet DEF Kept
<1>5. /\ \A u \in Threads : mine[u] # p
      /\ \A f \in DOMAIN drains : f # task => drains[f].previous # p
      /\ p # None /\ drains[task].previous = p /\ activeTask # p
  BY <1>0 DEF OwnerInv, p
<1>6. \A d \in DOMAIN drains : d # None
  BY DrainsType, Distinct
<1>7. \A u, v \in Threads : mine'[u] = mine'[v] /\ mine'[u] # None => u = v
  BY <1>3, <1>5 DEF OwnerInv
<1>8. \A u \in Threads, d \in DOMAIN drains : mine'[u] # None => mine'[u] # drains'[d].previous
  BY <1>3, <1>4, <1>5 DEF OwnerInv
<1>9. ASSUME NEW d \in DOMAIN drains
      PROVE  ((\E u \in Threads : mine[u] = d) \/ \E e \in DOMAIN drains : drains[e].previous = d)
               <=> (\E u \in Threads : mine'[u] = d)
                      \/ \E e \in DOMAIN drains : drains'[e].previous = d
  <2>1. CASE d = p
    BY <1>0, <1>3, <1>5, <2>1
  <2>2. CASE d # p
    <3>1. (\E u \in Threads : mine[u] = d) <=> (\E u \in Threads : mine'[u] = d)
      BY <1>0, <1>3, <1>6, <2>2
    <3>2. (\E e \in DOMAIN drains : drains[e].previous = d)
            <=> (\E e \in DOMAIN drains : drains'[e].previous = d)
      BY <1>0, <1>4, <1>5, <1>6, <2>2
    <3> QED BY <3>1, <3>2
  <2> QED BY <2>1, <2>2
<1>10. \A d, e \in DOMAIN drains :
         drains'[d].previous = drains'[e].previous /\ drains'[d].previous # None => d = e
  BY <1>4 DEF OwnerInv
<1>11. activeTask # None =>
         /\ \A u \in Threads : mine'[u] # activeTask
         /\ \A d \in DOMAIN drains : drains'[d].previous # activeTask
  BY <1>3, <1>4, <1>5 DEF OwnerInv
<1>12. \A d \in DOMAIN drains :
         drains'[d].status # "freed" /\ d \notin lost <=>
            \/ \E u \in Threads : mine'[u] = d
            \/ \E e \in DOMAIN drains : drains'[e].previous = d
            \/ activeTask = d
  BY <1>4, <1>9 DEF OwnerInv
<1> QED BY <1>2, <1>4, <1>7, <1>8, <1>10, <1>11, <1>12 DEF OwnerInv

\* Every step keeps each future in one place.
LEMMA OwnerStep ==
    ASSUME TypeOK, PlaceInv, FutureInv, OwnerInv, [Next]_vars
    PROVE  OwnerInv'
<1>0. Worker \in Threads /\ Callers \subseteq Threads
  BY Distinct
<1>1. CASE UNCHANGED <<drains, mine, activeTask, lost>>
  BY <1>1, OwnerFrame DEF SameDrains
<1>2. ASSUME NEW t \in Threads, TakeActiveTask(t), mine[t] = None, UNCHANGED <<drains, lost>>
      PROVE  OwnerInv'
  BY <1>2, OwnerTakes DEF SameDrains
<1>3. ASSUME NEW t \in Threads, SetActiveTask(mine[t]), Hold(t, None), UNCHANGED drains
      PROVE  OwnerInv'
  BY <1>3, OwnerSets DEF SameDrains
<1>4. ASSUME NEW c \in Callers, Call(c) PROVE OwnerInv'
  BY <1>1, <1>4 DEF Call, Request, Enqueue, Window, Cancel, WaitIdle, Destroy, queueVars, noteVars
<1>5. ASSUME NEW c \in Callers, CallerStep(c) PROVE OwnerInv'
  <2>0. c \in Threads
    BY <1>0
  <2>1. CASE WindowRequest(c)
    BY <1>1, <2>1 DEF WindowRequest, Enqueue, noteVars
  <2>2. CASE Kick(c)
    <3>1. mine[c] = None
      BY <2>0, <2>2 DEF Kick, PlaceInv, Holds
    <3> QED BY <1>1, <1>2, <2>0, <2>2, <3>1 DEF Kick, noteVars
  <2>3. CASE KickSubmit(c)
    <3>1. UNCHANGED <<activeTask, lost>>
      BY <2>3 DEF KickSubmit, queueVars
    <3>2. CASE SubmitAccepted(c, "store")
      BY <2>0, <3>1, <3>2, OwnerSubmits
    <3>3. CASE UNCHANGED mine /\ mine[c] # None /\ CancelFuture(mine[c])
      <4>1. mine[c] \in DOMAIN drains
        BY <2>0, <3>3 DEF TypeOK
      <4> QED BY <3>1, <3>3, <4>1, SameWhenCancelled, OwnerFrame
    <3> QED BY <1>1, <2>3, <3>1, <3>2, <3>3 DEF KickSubmit
  <2>4. CASE KickUndo(c)
    BY <1>1, <2>0, <2>4, OwnerFrees DEF KickUndo, noteVars
  <2>5. CASE KickStore(c)
    BY <1>3, <2>0, <2>5 DEF KickStore
  <2>6. CASE Await(c)
    <3>1. CASE Busy \/ activeTask = None
      BY <1>1, <2>6, <3>1 DEF Await, noteVars
    <3>2. CASE ~(Busy \/ activeTask = None)
      <4>1. TakeActiveTask(c) /\ CancelFuture(activeTask) /\ UNCHANGED lost /\ mine[c] = None
        BY <2>0, <2>6, <3>2 DEF Await, PlaceInv, Holds, noteVars
      <4>2. SameDrains
        BY <3>2, <4>1, SameWhenCancelled DEF TypeOK
      <4> QED BY <2>0, <4>1, <4>2, OwnerTakes
    <3> QED BY <3>1, <3>2
  <2>7. CASE Freed(c)
    BY <2>0, <2>7, OwnerFrees DEF Freed, queueVars, noteVars
  <2> QED BY <1>5, <2>1, <2>2, <2>3, <2>4, <2>5, <2>6, <2>7 DEF CallerStep
<1>6. CASE WorkerStep
  <2>1. ASSUME NEW d \in DOMAIN drains, Pop(d) PROVE OwnerInv'
    <3>1. SameDrains
      BY <2>1, StatusSet DEF Pop, SameDrains, Kept
    <3> QED BY <2>1, <3>1, OwnerFrame DEF Pop, queueVars, noteVars
  <2>2. CASE Start \/ Load
    BY <1>1, <2>2 DEF Start, Load, queueVars, noteVars
  <2>3. CASE After
    <3>1. mine[Worker] = None
      BY <1>0, <2>3 DEF After, PlaceInv, Holds
    <3> QED BY <1>0, <1>1, <1>2, <2>3, <3>1 DEF After, noteVars
  <2>4. CASE Resubmit
    BY <1>0, <1>1, <2>4, OwnerSubmits DEF Resubmit, queueVars
  <2>5. CASE Restore \/ StoreNext
    BY <1>0, <1>3, <2>5 DEF Restore, StoreNext
  <2>6. CASE Release
    <3>1. CASE drains[task].previous = None
      BY <1>1, <2>6, <3>1 DEF Release, queueVars, noteVars
    <3> QED BY <2>6, <3>1, OwnerReleases
  <2>7. CASE Released
    BY <1>0, <2>7, OwnerFrees DEF Released, queueVars, noteVars
  <2>8. CASE Complete
    <3>1. task \in DOMAIN drains /\ drains[task].status = "running"
      BY <2>8 DEF Complete, PlaceInv, WorkerPlace, TypeOK, FutureInv
    <3>2. SameDrains
      BY <2>8, <3>1, StatusSet DEF Complete, SameDrains, Kept
    <3> QED BY <2>8, <3>2, OwnerFrame DEF Complete, queueVars, noteVars
  <2> QED BY <1>6, <2>1, <2>2, <2>3, <2>4, <2>5, <2>6, <2>7, <2>8 DEF WorkerStep
<1>7. CASE UNCHANGED vars
  BY <1>1, <1>7 DEF vars, queueVars, noteVars
<1> QED BY <1>4, <1>5, <1>6, <1>7 DEF Next

-----------------------------------------------------------------------------
(* The theorems *)

\* IInv holds of every reachable state.
LEMMA Inductive == Spec => []IInv
<1>1. Init => IInv
  BY TypeInit, PlaceInit, LoadInit, StopInit, FutureInit, StrandInit, OwnerInit
     DEF IInv, LoadInv
<1>2. IInv /\ [Next]_vars => IInv'
  <2> SUFFICES ASSUME IInv, [Next]_vars PROVE IInv'
    OBVIOUS
  <2> USE DEF IInv
  <2>1. TypeOK' /\ EntriesInv'
    BY TypeStep
  <2>2. PlaceInv' /\ StopInv'
    BY PlaceStep, StopStep
  <2>3. WorkInv' /\ StaleInv'
    BY LoadStep DEF LoadInv
  <2>4. FutureInv' /\ DrainInv'
    BY FutureStep, DrainStep
  <2>5. DeniedInv' /\ NoneStranded'
    BY StrandStep
  <2>6. OwnerInv'
    BY OwnerStep
  <2> QED BY <2>1, <2>2, <2>3, <2>4, <2>5, <2>6
<1> QED BY <1>1, <1>2, PTL DEF Spec

\* fviz_temporal_prefetch_kick and the drain's two critical sections: the active flag
\* stands for exactly one drain, and the array never overflows.
THEOREM OneDrainAlways == Spec => []OneDrain
<1>1. IInv => OneDrain
  <2> SUFFICES ASSUME IInv PROVE Cardinality(Drainers) = IF active THEN 1 ELSE 0
    BY DEF IInv, OneDrain
  <2>0. DrainInv /\ TypeOK /\ PlaceInv
    BY DEF IInv
  <2>1. \A x : x \in Drainers <=>
          \/ x \in Callers /\ CallerDrains(x)
          \/ x \in DOMAIN drains /\ (Queued(x) \/ (task = x /\ WorkerDrains))
    BY DEF Drainers, CallerDrains, WorkerDrains, Queued
  <2>2. WorkerDrains => task \in DOMAIN drains
    BY <2>0 DEF WorkerDrains, PlaceInv, WorkerPlace, TypeOK
  <2>3. CASE ~active
    <3>1. Drainers = {}
      BY <2>0, <2>1, <2>3 DEF DrainInv
    <3> QED BY <2>3, <3>1, FS_EmptySet
  <2>4. CASE active
    <3>1. PICK x : x \in Drainers
      BY <2>0, <2>1, <2>2, <2>4 DEF DrainInv
    <3>2. \A y : y \in Drainers => y = x
      BY <2>0, <2>1, <3>1 DEF DrainInv
    <3>3. Drainers = {x}
      BY <3>1, <3>2
    <3> QED BY <2>4, <3>3, FS_Singleton
  <2> QED BY <2>3, <2>4
<1> QED BY <1>1, Inductive, PTL

\* fviz_temporal_prefetch_queue_cancel and the token of the drain: a load is cancelled
\* exactly when its entry was requested before the last cancellation or reversal.
THEOREM CancelledIffStaleAlways == Spec => []CancelledIffStale
<1>1. IInv => CancelledIffStale
  BY DEF IInv, WorkInv, StaleInv, CancelledIffStale
<1> QED BY <1>1, Inductive, PTL

\* fviz_temporal_prefetch_kick and the end of a drain: pending frames have a drain or a
\* caller that is about to start one, unless the executor has refused one.
THEOREM NoneStrandedAlways == Spec => []NoneStranded
<1>1. IInv => NoneStranded
  BY DEF IInv
<1> QED BY <1>1, Inductive, PTL

\* queue->active_task and the previous future of a drain: each future has one owner until
\* it is freed or its last pointer is overwritten.
THEOREM OwnedOnceAlways == Spec => []OwnedOnce
<1>1. IInv => OwnedOnce
  <2> SUFFICES ASSUME IInv, NEW d \in DOMAIN drains
               PROVE  Cardinality(Owners(d)) =
                        IF drains[d].status = "freed" \/ d \in lost THEN 0 ELSE 1
    BY DEF OwnedOnce
  <2>0. OwnerInv /\ d # None
    BY DrainsType, Distinct DEF IInv
  <2>1. \A x : x \in Owners(d) <=>
          \/ x \in Threads /\ mine[x] = d
          \/ x \in DOMAIN drains /\ drains[x].previous = d
          \/ x = None /\ activeTask = d
    BY DEF Owners
  <2>2. CASE drains[d].status = "freed" \/ d \in lost
    <3>1. Owners(d) = {}
      BY <2>0, <2>1, <2>2 DEF OwnerInv
    <3> QED BY <2>2, <3>1, FS_EmptySet
  <2>3. CASE ~(drains[d].status = "freed" \/ d \in lost)
    <3>1. PICK x : x \in Owners(d)
      BY <2>0, <2>1, <2>3 DEF OwnerInv
    <3>2. \A y : y \in Owners(d) => y = x
      BY <2>0, <2>1, <3>1 DEF OwnerInv
    <3>3. Owners(d) = {x}
      BY <3>1, <3>2
    <3> QED BY <2>3, <3>3, FS_Singleton
  <2> QED BY <2>2, <2>3
<1> QED BY <1>1, Inductive, PTL

\* fviz_temporal_prefetch_queue_destroy: once it has returned, no drain uses the queue and
\* none will.
THEOREM DestroyedAloneAlways == Spec => []DestroyedAlone
<1>1. IInv => DestroyedAlone
  <2> SUFFICES ASSUME IInv, NEW c \in Callers, pc[c] = "destroyed"
               PROVE  /\ pc[Worker] \notin {"start", "load", "after", "submit", "undo", "store"}
                      /\ \A d \in DOMAIN drains : drains[d].status # "queued"
    BY DEF DestroyedAlone
  <2>1. ~active
    BY DEF IInv, StopInv
  <2>2. ~WorkerDrains /\ \A d \in DOMAIN drains : ~Queued(d)
    BY <2>1 DEF IInv, DrainInv
  <2>3. mine[Worker] # None => mine[Worker] \in DOMAIN drains
    BY Distinct DEF IInv, TypeOK
  <2>4. pc[Worker] # "store"
    BY <2>2, <2>3, Distinct DEF IInv, FutureInv, Queued, PlaceInv, Holds
  <2> QED BY <2>2, <2>4 DEF WorkerDrains, Queued
<1> QED BY <1>1, Inductive, PTL
=============================================================================
