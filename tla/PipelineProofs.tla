--------------------------- MODULE PipelineProofs ---------------------------
(***************************************************************************)
(* What holds of the pipeline for all sets of algorithms and data, every   *)
(* graph to start from and every bound on calls and connections: an update *)
(* that succeeds leaves what a computation from scratch would give, and    *)
(* executes an algorithm once for one request.                             *)
(*                                                                         *)
(* Graphs: Reached and Requested are least sets that are closed under one  *)
(* edge, so that what is shown of them needs no induction.  Fresh unfolds  *)
(* along them.  States: the invariant is stated in layers, each of which   *)
(* uses those before it.  Most of it is said of a walk, given by its       *)
(* frames, what it has visited, its outcome and its calm: it holds of the  *)
(* walk in progress and of all that are suspended, as long as nothing that *)
(* a callback does has masked them.                                        *)
(***************************************************************************)
EXTENDS Pipeline, TLAPS

-----------------------------------------------------------------------------
(* The types *)

Items == Objects \X Nat \X {0, 1, 2}
Output == [content : SUBSET Items, time : Nat, input : Nat, mtime : Nat, key : {0, 1, 2}]
Phases == {"enter", "inputs", "child", "started", "data", "ended"}
FrameRecord == [alg : Algorithms, key : Keys, input : Nat, mtime : Nat, next : Nat \ {0},
                phase : Phases, read : Nat]
Failures == {"busy", "cancelled", "invalid", "error"}
Outcomes == [result : {"none", "ok"} \cup Failures, root : Algorithms \cup {None}, key : Keys]
Visits == Algorithms \X Nat \X Nat \X Keys
WalkRecord == [stack : Seq(FrameRecord), visited : SUBSET Visits, outcome : Outcomes,
               cancelled : BOOLEAN, calm : BOOLEAN]

Types ==
    /\ clock \in Nat
    /\ stamp \in [Objects -> Nat]
    /\ parameter \in [Algorithms -> Nat]
    /\ edits \in [Objects -> Nat]
    /\ direct \in [Algorithms -> Data \cup {None}]
    /\ producers \in [Algorithms -> Seq(Algorithms)]
    /\ out \in [Algorithms -> Output]
    /\ aborted \subseteq Algorithms /\ updating \subseteq Algorithms
    /\ stack \in Seq(FrameRecord)
    /\ suspended \in Seq(WalkRecord)
    /\ visited \in SUBSET Visits
    /\ asked \subseteq Algorithms \X Keys
    /\ outcome \in Outcomes
    /\ cancelled \in BOOLEAN /\ calm \in BOOLEAN /\ masked \in BOOLEAN

\* No time is later than the counter.
Clocked ==
    /\ \A x \in Objects : stamp[x] <= clock
    /\ \A a \in Algorithms : parameter[a] <= clock /\ out[a].mtime <= clock
    /\ \A i \in DOMAIN stack : stack[i].read <= clock
    /\ \A j \in DOMAIN suspended : \A i \in DOMAIN suspended[j].stack :
           suspended[j].stack[i].read <= clock

\* Every set of algorithms has one that none of them consumes.
NoCycles == Acyclic(producers)

\* The guard of an algorithm is set only while a frame of it is under way.
Entered(f) == f.phase # "enter"
Under(a, s) == \E i \in DOMAIN s : Entered(s[i]) /\ s[i].alg = a
Guarded ==
    \A a \in updating : Under(a, stack) \/ \E j \in DOMAIN suspended : Under(a, suspended[j].stack)

\* What waits for the update called in a callback has frames.
Waiting == \A j \in DOMAIN suspended : suspended[j].stack # <<>>

TypeInv == Types /\ Clocked /\ NoCycles /\ Guarded /\ Waiting

-----------------------------------------------------------------------------
(* The frames of a walk *)

\* What a itself is consumed by, at once or through others.
Below(x) == UNION {Reached(c) : c \in Consumers(x)}

ProducerOf(f, n) == producers[f.alg][n]
RequestOf(f, n) == MapRequest(f.alg, n, f.key)

\* Where the walk of a frame stands.
Placed(f) ==
    /\ f.phase = "enter" => f.next = 1
    /\ f.phase = "inputs" => f.next <= Len(producers[f.alg]) + 1
    /\ f.phase = "child" => f.next <= Len(producers[f.alg])
    /\ f.phase \in {"started", "data", "ended"} => f.next = Len(producers[f.alg]) + 1

\* A frame that is not the last one waits for the next one, which is its producer's.
Waits(s, i) ==
    /\ s[i].phase = "child"
    /\ s[i + 1].alg = ProducerOf(s[i], s[i].next)
    /\ s[i + 1].key = RequestOf(s[i], s[i].next)

\* A frame is of one that consumes what the later ones are of.
Ordered(s) == \A i, j \in DOMAIN s : i < j => s[i].alg \in Below(s[j].alg)

\* The first frame is that of the request of the update, which has failed only once the
\* last one is about to end.
Rooted(s, o) ==
    /\ s[1].alg = o.root /\ s[1].key = o.key /\ o.result # "ok"
    /\ o.result # "none" => s[Len(s)].phase = "ended"

StackOK(s, o) ==
    s # <<>> =>
        /\ \A i \in DOMAIN s : Placed(s[i])
        /\ \A i \in DOMAIN s : i < Len(s) => Waits(s, i)
        /\ Ordered(s)
        /\ Rooted(s, o)
StackInv == StackOK(stack, outcome)

-----------------------------------------------------------------------------
(* What was asked for and processed *)

HandledIn(v) == {<<q[1], q[4]>> : q \in v}
Handled == HandledIn(visited)

\* What an update has processed leads to its root, and was asked for; what it is
\* processing was asked for.
AskedOK(s, v, o) ==
    s # <<>> =>
        /\ \A q \in HandledIn(v) : o.root \in Reached(q[1])
        /\ HandledIn(v) \subseteq asked
        /\ \A i \in DOMAIN s : Entered(s[i]) => <<s[i].alg, s[i].key>> \in asked
        /\ \A i \in DOMAIN s : s[i].phase = "ended" /\ o.result = "none" =>
               <<s[i].alg, s[i].key>> \in HandledIn(v)
AskedInv == AskedOK(stack, visited, outcome)

\* A processed algorithm has an output, and so has a producer that was waited for.
HasData(a) == out[a].content # {}
KeptOK(s, v) ==
    s # <<>> =>
        /\ \A q \in HandledIn(v) : HasData(q[1])
        /\ s[Len(s)].phase = "child" => HasData(ProducerOf(s[Len(s)], s[Len(s)].next))
KeptInv == KeptOK(stack, visited)

\* The time that a frame took of its algorithm stays that of the algorithm, unless the root
\* was changed.
TimesOK(s, o, c) ==
    s # <<>> =>
        \A i \in DOMAIN s :
            Entered(s[i]) /\ (s[i].alg # o.root \/ c) => s[i].mtime = MTime(s[i].alg)
TimesInv == TimesOK(stack, outcome, calm)

-----------------------------------------------------------------------------
(* What outputs hold *)

\* The output of a is that of request k, as it would be computed now.
Served(a, k) == HasData(a) /\ out[a].key = k /\ out[a].content = Fresh(a, k)
ServedRequest(f, n) == /\ Served(ProducerOf(f, n), RequestOf(f, n))
                       /\ <<ProducerOf(f, n), RequestOf(f, n)>> \in asked

\* An output that is valid by its time is that of its request.
Valid(a) == HasData(a) /\ out[a].mtime = MTime(a)
ValidInv ==
    ~masked => \A a \in Algorithms : Valid(a) => out[a].key \in Keys /\ Served(a, out[a].key)

\* Inputs that a frame has gone through.
Done(f, n) == n \in DOMAIN producers[f.alg] /\ n < f.next

ServedOK(s, v, o, c) ==
    s # <<>> =>
        /\ \A i \in DOMAIN s : \A n \in Nat : Done(s[i], n) => ServedRequest(s[i], n)
        /\ s[Len(s)].phase = "child" => ServedRequest(s[Len(s)], s[Len(s)].next)
        /\ \A q \in HandledIn(v) : q[1] # o.root \/ c => Served(q[1], q[2])
ServedInv == ServedOK(stack, visited, outcome, calm)

OutcomeInv ==
    (outcome.result = "ok" /\ Idle /\ calm /\ ~masked)
        => outcome.root \in Algorithms /\ Served(outcome.root, outcome.key)

-----------------------------------------------------------------------------
(* What happens once *)

Executing(f) == f.phase \in {"inputs", "child", "started", "data"}

\* One request of every algorithm.
OneRequest == \A q, r \in asked : q[1] = r[1] => q = r

\* An update that nothing disturbs has processed what stays valid, and not what it is
\* executing.
OnceOK(s, v, c) ==
    (s # <<>> /\ c) =>
        /\ \A q \in HandledIn(v) : Valid(q[1]) /\ out[q[1]].key = q[2]
        /\ \A i \in DOMAIN s :
            /\ s[i].phase = "data" => s[i].read = MTime(s[i].alg)
            /\ Executing(s[i]) => <<s[i].alg, s[i].key>> \notin HandledIn(v)
OnceInv == OnceOK(stack, visited, calm)

-----------------------------------------------------------------------------
(* All walks *)

OrderOK(w) ==
    /\ StackOK(w.stack, w.outcome)
    /\ AskedOK(w.stack, w.visited, w.outcome)
    /\ KeptOK(w.stack, w.visited)
    /\ TimesOK(w.stack, w.outcome, w.calm)
    /\ OnceOK(w.stack, w.visited, w.calm)
ContentOK(w) == ServedOK(w.stack, w.visited, w.outcome, w.calm)

\* Those that wait for the walk in progress.
Suspended(w) == \E j \in DOMAIN suspended : suspended[j] = w

\* Only the first of the walks may have been disturbed, by a change of its root before
\* the others began.
CalmInv ==
    /\ suspended # <<>> => calm
    /\ \A j \in DOMAIN suspended : j > 1 => suspended[j].calm

WalkInv == StackInv /\ AskedInv /\ KeptInv /\ TimesInv /\ OnceInv
SuspendedInv == \A w \in WalkRecord : Suspended(w) => OrderOK(w)
OrderInv == TypeInv /\ (~masked => OneRequest /\ CalmInv /\ WalkInv /\ SuspendedInv)

SuspendedServed == \A w \in WalkRecord : Suspended(w) => ContentOK(w)
ContentInv == ValidInv /\ OutcomeInv /\ (~masked => ServedInv /\ SuspendedServed)

(* Consumers, at once and through others *)

LEMMA ConsumersOf ==
    ASSUME Types, PipelineGiven, NEW x \in Algorithms
    PROVE  \A a \in Algorithms : a \in Consumers(x) <=> x \in ToSet(producers[a])
BY DEF Consumers, Types, PipelineGiven

LEMMA ProducerConsumed ==
    ASSUME NEW a \in Algorithms, NEW i \in DOMAIN producers[a]
    PROVE  a \in Consumers(producers[a][i])
BY DEF Consumers, ToSet

LEMMA ConsumersAre == \A x : Consumers(x) \subseteq Algorithms
BY DEF Consumers

LEMMA ReachedMember ==
    ASSUME NEW x, NEW a
    PROVE  a \in Reached(x) <=>
               \/ a = x
               \/ /\ a \in Algorithms
                  /\ \A S \in SUBSET Algorithms :
                        Consumers(x) \subseteq S /\ ClosedDownstream(S) => a \in S
<1>1. ASSUME a \in Algorithms, NEW S \in SUBSET Algorithms, a \notin S
      PROVE  S \in SUBSET (Algorithms \ {a})
  BY <1>1
<1> QED BY <1>1 DEF Reached

LEMMA ReachedIn == ASSUME NEW x \in Algorithms PROVE Reached(x) \subseteq Algorithms
BY DEF Reached

LEMMA ReachedSelf == \A x : x \in Reached(x)
BY DEF Reached

\* Who consumes what is reached is reached.
LEMMA ReachedClosed ==
    ASSUME NEW x, NEW y \in Reached(x), NEW c \in Consumers(y)
    PROVE  c \in Reached(x)
<1>1. c \in Algorithms
  BY ConsumersAre
<1>2. ASSUME NEW S \in SUBSET Algorithms, Consumers(x) \subseteq S, ClosedDownstream(S)
      PROVE  c \in S
  <2>1. CASE y = x
    BY <2>1, <1>2
  <2>2. CASE y # x
    <3>1. y \in S
      BY <1>2, <2>2, ReachedMember
    <3> QED BY <3>1, <1>2 DEF ClosedDownstream
  <2> QED BY <2>1, <2>2
<1> QED BY <1>1, <1>2, ReachedMember

\* What is reached from what is reached is reached.
LEMMA ReachedWithin ==
    ASSUME NEW x, NEW y \in Reached(x)
    PROVE  Reached(y) \subseteq Reached(x)
<1> DEFINE S == Reached(x) \cap Algorithms
<1>1. Consumers(y) \subseteq S
  BY ReachedClosed, ConsumersAre
<1>2. ClosedDownstream(S)
  <2> SUFFICES ASSUME NEW a \in S, NEW c \in Consumers(a) PROVE c \in S
    BY DEF ClosedDownstream
  <2>1. a \in Reached(x)
    OBVIOUS
  <2> QED BY <2>1, ReachedClosed, ConsumersAre
<1>3. S \in SUBSET Algorithms
  OBVIOUS
<1> HIDE DEF S
<1>4. ASSUME NEW a \in Reached(y) PROVE a = y \/ a \in S
  BY <1>1, <1>2, <1>3, ReachedMember
<1> QED BY <1>4 DEF S

\* x reaches itself and what its consumers reach.
LEMMA ReachedUnfold == ASSUME NEW x PROVE Reached(x) = {x} \cup Below(x)
<1>1. Below(x) \subseteq Reached(x)
  <2> SUFFICES ASSUME NEW c \in Consumers(x), NEW a \in Reached(c) PROVE a \in Reached(x)
    BY DEF Below
  <2>1. c \in Reached(x)
    BY ReachedClosed, ReachedSelf
  <2> QED BY <2>1, ReachedWithin
<1>2. Consumers(x) \subseteq Below(x)
  BY ReachedSelf DEF Below
<1>3. ClosedDownstream(Below(x))
  <2> SUFFICES ASSUME NEW a \in Below(x), NEW c \in Consumers(a) PROVE c \in Below(x)
    BY DEF ClosedDownstream
  <2>1. PICK b \in Consumers(x) : a \in Reached(b)
    BY DEF Below
  <2>2. c \in Reached(b)
    BY <2>1, ReachedClosed
  <2> QED BY <2>2 DEF Below
<1>4. Below(x) \in SUBSET Algorithms
  BY ReachedIn, ConsumersAre DEF Below
<1>5. ASSUME NEW a \in Reached(x) PROVE a = x \/ a \in Below(x)
  BY <1>2, <1>3, <1>4, ReachedMember
<1> QED BY <1>1, <1>5, ReachedSelf

LEMMA BelowWithin == ASSUME NEW x, NEW y \in Below(x) PROVE Reached(y) \subseteq Below(x)
<1>1. PICK c \in Consumers(x) : y \in Reached(c)
  BY DEF Below
<1>2. Reached(y) \subseteq Reached(c)
  BY <1>1, ReachedWithin
<1> QED BY <1>2 DEF Below

LEMMA BelowConsumer == ASSUME NEW x, NEW c \in Consumers(x) PROVE Reached(c) \subseteq Below(x)
BY DEF Below

\* What x is below is not below x.
LEMMA NotBelowItself ==
    ASSUME Types, PipelineGiven, NoCycles, NEW x \in Algorithms PROVE x \notin Below(x)
<1> SUFFICES ASSUME x \in Below(x) PROVE FALSE
  OBVIOUS
<1> DEFINE S == {b \in Algorithms : b \in Reached(x) /\ x \in Below(b)}
<1>1. x \in S
  BY ReachedSelf
<1>2. PICK s \in S : \A b \in S : s \notin ToSet(producers[b])
  <2>1. S \in SUBSET Algorithms /\ S # {}
    BY <1>1
  <2> QED BY <2>1 DEF NoCycles, Acyclic
<1>3. PICK c \in Consumers(s) : x \in Reached(c)
  BY <1>2 DEF Below
<1>4. c \in Algorithms /\ c \in Reached(x)
  BY <1>3, ConsumersAre, ReachedClosed
<1>5. x \in Below(c)
  <2>1. x = c \/ x \in Below(c)
    BY <1>3, ReachedUnfold
  <2> QED BY <2>1
<1>6. c \in S
  BY <1>4, <1>5
<1>7. s \in ToSet(producers[c])
  BY <1>3, <1>4, ConsumersOf
<1> QED BY <1>2, <1>6, <1>7

\* Two things are not below one another.
LEMMA NotBelowEachOther ==
    ASSUME Types, PipelineGiven, NoCycles, NEW x \in Algorithms, NEW y \in Below(x)
    PROVE  x \notin Reached(y)
BY BelowWithin, NotBelowItself

-----------------------------------------------------------------------------
(* What a request leads to *)

LEMMA MapRequestIsKey ==
    ASSUME NEW a, NEW i, NEW k \in Keys PROVE MapRequest(a, i, k) \in Keys
BY DEF MapRequest, Keys

LEMMA RequestOfProducer ==
    ASSUME Types, NEW r \in Requests, NEW i \in DOMAIN producers[r[1]]
    PROVE  <<producers[r[1]][i], MapRequest(r[1], i, r[2])>> \in Requests
<1>1. r[1] \in Algorithms /\ r[2] \in Keys
  BY DEF Requests
<1>2. producers[r[1]] \in Seq(Algorithms)
  BY <1>1 DEF Types
<1>3. producers[r[1]][i] \in Algorithms
  BY <1>2
<1> QED BY <1>1, <1>3, MapRequestIsKey DEF Requests

LEMMA RequestedMember ==
    ASSUME NEW a, NEW k, NEW r \in Requests
    PROVE  r \in Requested(a, k) <=>
               \A S \in SUBSET Requests : <<a, k>> \in S /\ ClosedUpstream(S) => r \in S
<1>1. ASSUME NEW S \in SUBSET Requests, r \notin S PROVE S \in SUBSET (Requests \ {r})
  BY <1>1
<1> QED BY <1>1 DEF Requested

LEMMA RequestedSelf ==
    ASSUME NEW a \in Algorithms, NEW k \in Keys
    PROVE  <<a, k>> \in Requested(a, k)
BY RequestedMember DEF Requests

LEMMA RequestedIn == \A a, k : Requested(a, k) \subseteq Requests
BY DEF Requested

LEMMA RequestedLeast ==
    ASSUME NEW a, NEW k, NEW S \in SUBSET Requests, <<a, k>> \in S, ClosedUpstream(S)
    PROVE  Requested(a, k) \subseteq S
BY RequestedMember, RequestedIn

LEMMA RequestedClosed ==
    ASSUME Types, NEW a, NEW k
    PROVE  ClosedUpstream(Requested(a, k))
<1> SUFFICES ASSUME NEW r \in Requested(a, k), NEW i \in DOMAIN producers[r[1]]
             PROVE  <<producers[r[1]][i], MapRequest(r[1], i, r[2])>> \in Requested(a, k)
  BY DEF ClosedUpstream
<1> DEFINE q == <<producers[r[1]][i], MapRequest(r[1], i, r[2])>>
<1>1. r \in Requests
  BY RequestedIn
<1>2. q \in Requests
  BY <1>1, RequestOfProducer
<1>3. ASSUME NEW S \in SUBSET Requests, <<a, k>> \in S, ClosedUpstream(S) PROVE q \in S
  <2>1. r \in S
    BY <1>1, <1>3, RequestedMember
  <2> QED BY <2>1, <1>3 DEF ClosedUpstream
<1> HIDE DEF q
<1>4. q \in Requested(a, k)
  BY <1>2, <1>3, RequestedMember
<1> QED BY <1>4 DEF q

\* The request itself, and those that its producers are asked for lead to.
LEMMA RequestedUnfold ==
    ASSUME Types, NEW a \in Algorithms, NEW k \in Keys
    PROVE  Requested(a, k) =
               {<<a, k>>} \cup UNION {Requested(producers[a][i], MapRequest(a, i, k)) :
                                         i \in DOMAIN producers[a]}
<1> DEFINE T == {<<a, k>>} \cup UNION {Requested(producers[a][i], MapRequest(a, i, k)) :
                                          i \in DOMAIN producers[a]}
<1>0. <<a, k>> \in Requests
  BY DEF Requests
<1>1. T \in SUBSET Requests
  BY <1>0, RequestedIn
<1>2. ASSUME NEW i \in DOMAIN producers[a]
      PROVE  /\ producers[a][i] \in Algorithms /\ MapRequest(a, i, k) \in Keys
             /\ <<producers[a][i], MapRequest(a, i, k)>>
                    \in Requested(producers[a][i], MapRequest(a, i, k))
  <2>1. producers[a] \in Seq(Algorithms)
    BY DEF Types
  <2>2. producers[a][i] \in Algorithms
    BY <2>1
  <2> QED BY <2>2, MapRequestIsKey, RequestedSelf
<1>3. ClosedUpstream(T)
  <2> SUFFICES ASSUME NEW r \in T, NEW i \in DOMAIN producers[r[1]]
               PROVE  <<producers[r[1]][i], MapRequest(r[1], i, r[2])>> \in T
    BY DEF ClosedUpstream
  <2>1. CASE r = <<a, k>>
    <3>1. r[1] = a /\ r[2] = k
      BY <2>1
    <3> QED BY <3>1, <1>2
  <2>2. CASE r # <<a, k>>
    <3>1. PICK j \in DOMAIN producers[a] :
              r \in Requested(producers[a][j], MapRequest(a, j, k))
      BY <2>2
    <3>2. ClosedUpstream(Requested(producers[a][j], MapRequest(a, j, k)))
      BY RequestedClosed
    <3>3. <<producers[r[1]][i], MapRequest(r[1], i, r[2])>>
              \in Requested(producers[a][j], MapRequest(a, j, k))
      BY <3>1, <3>2 DEF ClosedUpstream
    <3> QED BY <3>3
  <2> QED BY <2>1, <2>2
<1>4. Requested(a, k) \subseteq T
  BY <1>1, <1>3, RequestedLeast
<1>5. T \subseteq Requested(a, k)
  <2>1. <<a, k>> \in Requested(a, k)
    BY RequestedSelf
  <2>2. ClosedUpstream(Requested(a, k))
    BY RequestedClosed
  <2>3. ASSUME NEW i \in DOMAIN producers[a]
        PROVE  Requested(producers[a][i], MapRequest(a, i, k)) \subseteq Requested(a, k)
    <3>1. <<producers[a][i], MapRequest(a, i, k)>> \in Requested(a, k)
      <4>1. \A j \in DOMAIN producers[<<a, k>>[1]] :
               <<producers[<<a, k>>[1]][j], MapRequest(<<a, k>>[1], j, <<a, k>>[2])>>
                   \in Requested(a, k)
        BY <2>1, <2>2 DEF ClosedUpstream
      <4> QED BY <4>1
    <3> QED BY <3>1, <2>2, RequestedIn, RequestedLeast
  <2> QED BY <2>1, <2>3
<1> QED BY <1>4, <1>5

\* A computation from scratch is what the algorithm adds to those of its producers.
LEMMA FreshUnfold ==
    ASSUME Types, NEW a \in Algorithms, NEW k \in Keys
    PROVE  Fresh(a, k) = Added(a, k) \cup
               UNION {Fresh(producers[a][i], MapRequest(a, i, k)) : i \in DOMAIN producers[a]}
<1>1. Requested(a, k) =
          {<<a, k>>} \cup UNION {Requested(producers[a][i], MapRequest(a, i, k)) :
                                    i \in DOMAIN producers[a]}
  BY RequestedUnfold
<1>2. <<a, k>>[1] = a /\ <<a, k>>[2] = k
  OBVIOUS
<1>3. ASSUME NEW e \in Fresh(a, k)
      PROVE  e \in Added(a, k) \cup
                 UNION {Fresh(producers[a][i], MapRequest(a, i, k)) : i \in DOMAIN producers[a]}
  <2>1. PICK r \in Requested(a, k) : e \in Added(r[1], r[2])
    BY DEF Fresh
  <2>2. CASE r = <<a, k>>
    BY <2>1, <2>2, <1>2
  <2>3. CASE r # <<a, k>>
    <3>1. PICK i \in DOMAIN producers[a] :
              r \in Requested(producers[a][i], MapRequest(a, i, k))
      BY <2>1, <2>3, <1>1
    <3>2. e \in Fresh(producers[a][i], MapRequest(a, i, k))
      BY <2>1, <3>1 DEF Fresh
    <3> QED BY <3>2
  <2> QED BY <2>2, <2>3
<1>4. Added(a, k) \subseteq Fresh(a, k)
  <2>1. <<a, k>> \in Requested(a, k)
    BY <1>1
  <2>2. Added(<<a, k>>[1], <<a, k>>[2]) \subseteq Fresh(a, k)
    BY <2>1 DEF Fresh
  <2> QED BY <2>2
<1>5. ASSUME NEW i \in DOMAIN producers[a], NEW e \in Fresh(producers[a][i], MapRequest(a, i, k))
      PROVE  e \in Fresh(a, k)
  <2>1. PICK r \in Requested(producers[a][i], MapRequest(a, i, k)) : e \in Added(r[1], r[2])
    BY DEF Fresh
  <2>2. r \in Requested(a, k)
    BY <2>1, <1>1
  <2> QED BY <2>1, <2>2 DEF Fresh
<1> QED BY <1>3, <1>4, <1>5

\* What a request leads to reaches the algorithm that is asked, and so does its input.
LEMMA RequestedUpstream ==
    ASSUME Types, NEW a \in Algorithms, NEW k \in Keys, NEW r \in Requested(a, k)
    PROVE  a \in Reached(r[1]) /\ a \in Reached(direct[r[1]])
<1> DEFINE S == {q \in Requests : a \in Reached(q[1])}
<1>1. <<a, k>> \in S
  BY ReachedSelf DEF Requests
<1>2. ClosedUpstream(S)
  <2> SUFFICES ASSUME NEW q \in S, NEW i \in DOMAIN producers[q[1]]
               PROVE  <<producers[q[1]][i], MapRequest(q[1], i, q[2])>> \in S
    BY DEF ClosedUpstream
  <2>1. q \in Requests /\ q[1] \in Algorithms /\ a \in Reached(q[1])
    BY DEF Requests
  <2>2. <<producers[q[1]][i], MapRequest(q[1], i, q[2])>> \in Requests
    BY <2>1, RequestOfProducer
  <2>3. q[1] \in Reached(producers[q[1]][i])
    BY <2>1, ProducerConsumed, ReachedSelf, ReachedClosed
  <2>4. a \in Reached(producers[q[1]][i])
    BY <2>1, <2>3, ReachedWithin
  <2> QED BY <2>2, <2>4
<1>3. r \in S
  BY <1>1, <1>2, RequestedLeast
<1>4. r[1] \in Algorithms
  BY <1>3 DEF Requests
<1>5. r[1] \in Consumers(direct[r[1]])
  BY <1>4 DEF Consumers
<1>6. r[1] \in Reached(direct[r[1]])
  BY <1>5, ReachedSelf, ReachedClosed
<1> QED BY <1>3, <1>6, ReachedWithin

\* What a request leads to depends on the graph where it leads only.
LEMMA RequestedSame ==
    ASSUME Types, NEW a \in Algorithms, NEW k \in Keys,
           \A r \in Requested(a, k) : producers'[r[1]] = producers[r[1]]
    PROVE  Requested(a, k)' = Requested(a, k)
<1>0. PICK R : R = Requested(a, k)
  OBVIOUS
<1>1. R \in SUBSET Requests /\ <<a, k>> \in R /\ ClosedUpstream(R)
  BY <1>0, RequestedIn, RequestedSelf, RequestedClosed
<1>2. \A r \in R : \A i \in DOMAIN producers'[r[1]] :
         <<producers'[r[1]][i], MapRequest(r[1], i, r[2])>> \in R
  BY <1>0, <1>1 DEF ClosedUpstream
<1>3. ASSUME NEW r \in Requested(a, k)' PROVE r \in R
  <2>1. r \in Requests /\ \A S \in SUBSET (Requests \ {r}) : <<a, k>> \in S => ~ClosedUpstream(S)'
    BY DEF Requested, Requests, Keys
  <2>2. ClosedUpstream(R)'
    BY <1>2 DEF ClosedUpstream, MapRequest
  <2>3. ASSUME r \notin R PROVE FALSE
    <3>1. R \in SUBSET (Requests \ {r})
      BY <1>1, <2>3
    <3> QED BY <3>1, <2>1, <2>2, <1>1
  <2> QED BY <2>3
<1>4. ASSUME NEW r \in R PROVE r \in Requested(a, k)'
  <2>0. r \in Requests
    BY <1>1
  <2> SUFFICES ASSUME NEW S \in SUBSET (Requests \ {r}), <<a, k>> \in S, ClosedUpstream(S)'
               PROVE  FALSE
    BY <2>0 DEF Requested, Requests, Keys
  <2>1. ClosedUpstream(S \cap R)
    <3> SUFFICES ASSUME NEW q \in S \cap R, NEW i \in DOMAIN producers[q[1]]
                 PROVE  <<producers[q[1]][i], MapRequest(q[1], i, q[2])>> \in S \cap R
      BY DEF ClosedUpstream
    <3>1. producers'[q[1]] = producers[q[1]]
      BY <1>0
    <3>2. \A j \in DOMAIN producers'[q[1]] :
             <<producers'[q[1]][j], MapRequest(q[1], j, q[2])>> \in S
      BY DEF ClosedUpstream, MapRequest
    <3> QED BY <3>1, <3>2, <1>2
  <2>2. S \cap R \in SUBSET (Requests \ {r}) /\ <<a, k>> \in S \cap R
    BY <1>1
  <2>3. r \in Requested(a, k)
    BY <1>0
  <2> QED BY <2>1, <2>2, <2>3 DEF Requested
<1> QED BY <1>0, <1>3, <1>4

\* And so does what a computation from scratch gives.
LEMMA FreshSame ==
    ASSUME Types, NEW a \in Algorithms, NEW k \in Keys,
           \A r \in Requested(a, k) :
               /\ producers'[r[1]] = producers[r[1]] /\ direct'[r[1]] = direct[r[1]]
               /\ edits'[r[1]] = edits[r[1]]
               /\ direct[r[1]] # None => edits'[direct[r[1]]] = edits[direct[r[1]]]
    PROVE  Fresh(a, k)' = Fresh(a, k)
<1>1. Requested(a, k)' = Requested(a, k)
  BY RequestedSame
<1>2. ASSUME NEW r \in Requested(a, k) PROVE Added(r[1], r[2])' = Added(r[1], r[2])
  BY DEF Added
<1>3. Fresh(a, k)' = UNION {Added(r[1], r[2])' : r \in Requested(a, k)'}
  BY DEF Fresh
<1> QED BY <1>1, <1>2, <1>3 DEF Fresh

LEMMA FreshStays ==
    ASSUME Types, NEW a \in Algorithms, NEW k \in Keys, UNCHANGED <<producers, direct, edits>>
    PROVE  Fresh(a, k)' = Fresh(a, k)
BY FreshSame

-----------------------------------------------------------------------------
(* The stack of frames *)

LEMMA TopIs ==
    ASSUME Types, ~Idle
    PROVE  /\ Len(stack) \in Nat \ {0} /\ DOMAIN stack = 1..Len(stack)
           /\ Len(stack) \in DOMAIN stack /\ 1 \in DOMAIN stack
           /\ Top = stack[Len(stack)] /\ Top \in FrameRecord
<1>1. stack \in Seq(FrameRecord) /\ stack # <<>>
  BY DEF Types, Idle
<1>2. Len(stack) \in Nat \ {0} /\ DOMAIN stack = 1..Len(stack)
  BY <1>1
<1>3. stack[Len(stack)] \in FrameRecord
  BY <1>1, <1>2
<1> QED BY <1>2, <1>3 DEF Top, Last

LEMMA FrameFields ==
    ASSUME NEW f \in FrameRecord
    PROVE  /\ f.alg \in Algorithms /\ f.key \in Keys /\ f.input \in Nat /\ f.mtime \in Nat
           /\ f.next \in Nat \ {0} /\ f.phase \in Phases /\ f.read \in Nat
BY DEF FrameRecord

LEMMA FrameAt ==
    ASSUME Types, NEW i \in DOMAIN stack
    PROVE  stack[i] \in FrameRecord /\ stack[i].alg \in Algorithms /\ stack[i].key \in Keys
<1>1. stack \in Seq(FrameRecord)
  BY DEF Types
<1>2. stack[i] \in FrameRecord
  BY <1>1
<1> QED BY <1>2, FrameFields

\* The last frame changes.
LEMMA ReplacedStack ==
    ASSUME Types, ~Idle, NEW f \in FrameRecord, stack' = Replace(f)
    PROVE  /\ stack' \in Seq(FrameRecord) /\ Len(stack') = Len(stack)
           /\ DOMAIN stack' = DOMAIN stack
           /\ stack'[Len(stack)] = f
           /\ \A i \in DOMAIN stack : i # Len(stack) => stack'[i] = stack[i]
           /\ Top' = f /\ ~Idle'
<1>1. stack \in Seq(FrameRecord) /\ Len(stack) \in DOMAIN stack
  BY TopIs DEF Types
<1>2. stack' = [stack EXCEPT ![Len(stack)] = f]
  BY DEF Replace
<1>3. stack' \in Seq(FrameRecord) /\ Len(stack') = Len(stack) /\ DOMAIN stack' = DOMAIN stack
  BY <1>1, <1>2
<1>4. stack'[Len(stack)] = f /\ \A i \in DOMAIN stack : i # Len(stack) => stack'[i] = stack[i]
  BY <1>1, <1>2
<1>5. stack' # <<>>
  BY <1>1, <1>3
<1> QED BY <1>3, <1>4, <1>5 DEF Top, Last, Idle

\* The last frame is left.
LEMMA PoppedStack ==
    ASSUME Types, ~Idle, stack' = Front(stack)
    PROVE  /\ stack' \in Seq(FrameRecord) /\ Len(stack') = Len(stack) - 1
           /\ DOMAIN stack' = 1..(Len(stack) - 1)
           /\ \A i \in DOMAIN stack' : i \in DOMAIN stack /\ stack'[i] = stack[i]
           /\ Idle' <=> Len(stack) = 1
           /\ ~Idle' => /\ Len(stack) - 1 \in DOMAIN stack'
                        /\ Top' = stack[Len(stack) - 1]
<1>1. stack \in Seq(FrameRecord) /\ Len(stack) \in Nat \ {0} /\ DOMAIN stack = 1..Len(stack)
  BY TopIs DEF Types
<1>2. stack' = SubSeq(stack, 1, Len(stack) - 1)
  BY DEF Front
<1>3. stack' \in Seq(FrameRecord) /\ Len(stack') = Len(stack) - 1
  BY <1>1, <1>2
<1>4. DOMAIN stack' = 1..(Len(stack) - 1)
  BY <1>3, <1>1
<1>5. \A i \in DOMAIN stack' : i \in DOMAIN stack /\ stack'[i] = stack[i]
  BY <1>1, <1>2, <1>4
<1>6. stack' = <<>> <=> Len(stack) = 1
  BY <1>1, <1>3
<1>7. stack' # <<>> => Len(stack) - 1 \in DOMAIN stack'
  BY <1>1, <1>4, <1>6
<1> QED BY <1>3, <1>4, <1>5, <1>6, <1>7 DEF Top, Last, Idle

\* The last frame waits for a new one.
LEMMA PushedStack ==
    ASSUME Types, ~Idle, NEW f \in FrameRecord, NEW g \in FrameRecord,
           stack' = Append(Replace(f), g)
    PROVE  /\ stack' \in Seq(FrameRecord) /\ Len(stack') = Len(stack) + 1
           /\ DOMAIN stack' = 1..(Len(stack) + 1)
           /\ stack'[Len(stack) + 1] = g /\ stack'[Len(stack)] = f
           /\ \A i \in DOMAIN stack : i # Len(stack) => stack'[i] = stack[i]
           /\ Top' = g /\ ~Idle'
<1>1. stack \in Seq(FrameRecord) /\ Len(stack) \in Nat \ {0} /\ DOMAIN stack = 1..Len(stack)
  BY TopIs DEF Types
<1>2. PICK s : s = [stack EXCEPT ![Len(stack)] = f]
  OBVIOUS
<1>3. s \in Seq(FrameRecord) /\ Len(s) = Len(stack)
  BY <1>1, <1>2
<1>4. s[Len(stack)] = f /\ \A i \in DOMAIN stack : i # Len(stack) => s[i] = stack[i]
  BY <1>1, <1>2
<1>5. stack' = Append(s, g)
  BY <1>2 DEF Replace
<1>6. stack' \in Seq(FrameRecord) /\ Len(stack') = Len(stack) + 1
  BY <1>3, <1>5
<1>7. \A i \in 1..Len(stack) : stack'[i] = s[i]
  BY <1>3, <1>5
<1>8. stack'[Len(stack) + 1] = g
  BY <1>3, <1>5
<1>9. DOMAIN stack' = 1..(Len(stack) + 1) /\ stack' # <<>>
  BY <1>1, <1>6
<1>10. stack'[Len(stack)] = f /\ \A i \in DOMAIN stack : i # Len(stack) => stack'[i] = stack[i]
  <2>1. Len(stack) \in 1..Len(stack)
    BY <1>1
  <2> QED BY <1>1, <1>4, <1>7, <2>1
<1>11. Top' = g
  <2>1. stack'[Len(stack')] = g
    BY <1>6, <1>8
  <2> QED BY <2>1 DEF Top, Last
<1>12. ~Idle'
  BY <1>9 DEF Idle
<1> QED BY <1>6, <1>8, <1>9, <1>10, <1>11, <1>12

\* The frame of a request that begins.
LEMMA FirstFrame ==
    ASSUME NEW a \in Algorithms, NEW k \in Keys
    PROVE  /\ Frame(a, k) \in FrameRecord
           /\ Frame(a, k).alg = a /\ Frame(a, k).key = k /\ Frame(a, k).phase = "enter"
           /\ Frame(a, k).next = 1 /\ Frame(a, k).read = 0
BY DEF Frame, FrameRecord, Phases

-----------------------------------------------------------------------------
(* What a step does to the frames *)

LEMMA TimesAreNat ==
    ASSUME Types, NEW a \in Algorithms PROVE MTime(a) \in Nat
BY DEF Types, MTime, Objects

LEMMA ModifiedTimes ==
    ASSUME Types, NEW x \in Objects
    PROVE  /\ Modified(x) \in [Objects -> Nat]
           /\ \A y \in Objects : Modified(x)[y] = IF y \in Reached(x) THEN clock + 1 ELSE stamp[y]
<1>1. clock + 1 \in Nat /\ stamp \in [Objects -> Nat]
  BY DEF Types
<1> QED BY <1>1 DEF Modified

LEMMA InputTimeIsNat ==
    ASSUME Types, NEW a \in Algorithms
    PROVE  (IF direct[a] = None THEN 0 ELSE stamp[direct[a]]) \in Nat
BY DEF Types, Objects

LEMMA InputTimeNat ==
    ASSUME Types, NEW a \in Algorithms, NEW i \in Nat \ {0}, Resolves(a, i)
    PROVE  InputTime(a, i) \in Nat
<1>1. CASE direct[a] # None
  <2>1. direct[a] \in Objects
    BY <1>1 DEF Types, Objects
  <2> QED BY <1>1, <2>1 DEF InputTime, Types
<1>2. CASE direct[a] = None
  <2>1. producers[a] \in Seq(Algorithms) /\ i <= Len(producers[a])
    BY <1>2 DEF Types, Resolves
  <2>2. producers[a][i] \in Algorithms
    BY <2>1
  <2>3. out[producers[a][i]] \in Output
    BY <2>2 DEF Types
  <2> QED BY <1>2, <2>3 DEF InputTime, Output
<1> QED BY <1>1, <1>2

-----------------------------------------------------------------------------
(* How a step of the walk moves *)

TopRequest == <<Top.alg, Top.key>>

\* The last frame goes on.
Goes(f) ==
    /\ stack' = Replace(f) /\ f.alg = Top.alg /\ f.key = Top.key
    /\ f.mtime = (IF Top.phase = "enter" THEN MTime(Top.alg) ELSE Top.mtime)
    /\ f.read = (IF f.phase = "data" THEN MTime(Top.alg) ELSE Top.read)
    /\ f.next = (IF Top.phase = "child" THEN Top.next + 1 ELSE Top.next)
    /\ \/ f.phase = "inputs" /\ Top.phase \in {"enter", "child"}
       \/ f.phase = "started" /\ InputsDone(Top)
       \/ f.phase = "data" /\ Top.phase = "started"
       \/ f.phase = "ended" /\ Top.phase \in {"started", "data"}
    /\ outcome'.root = outcome.root /\ outcome'.key = outcome.key
    /\ \/ f.phase # "ended" /\ outcome' = outcome /\ Handled' = Handled
       \/ f.phase = "ended" /\ outcome'.result \in Failures /\ Handled' = Handled
       \/ /\ f.phase = "ended" /\ outcome' = outcome /\ Handled' = Handled \cup {TopRequest}
          /\ Execute \/ Published(Top, MTime(Top.alg))
    /\ asked' = (IF Top.phase = "enter" THEN asked \cup {TopRequest} ELSE asked)
    /\ Top.phase = "enter" => ~Cached(Top)
    /\ updating' \subseteq updating \cup {Top.alg}

\* The last frame waits for one of its producer.
Descends(f, g) ==
    /\ stack' = Append(Replace(f), g) /\ f.alg = Top.alg /\ f.key = Top.key
    /\ f.mtime = Top.mtime /\ f.read = Top.read /\ f.next = Top.next /\ f.phase = "child"
    /\ g.alg = ProducerOf(Top, Top.next) /\ g.key = RequestOf(Top, Top.next)
    /\ g.phase = "enter" /\ g.next = 1 /\ g.read = 0
    /\ Top.phase = "inputs" /\ Top.next \in DOMAIN producers[Top.alg]
    /\ UNCHANGED <<asked, visited, outcome, updating, out, masked>>

\* The last frame is left: its request has been served.
Leaves ==
    /\ Pop
    /\ \/ /\ Top.phase = "enter" /\ Valid(Top.alg) /\ out[Top.alg].key = Top.key
          /\ Handled' = Handled \cup {TopRequest} /\ asked' = asked \cup {TopRequest}
          /\ updating' = updating
       \/ /\ Top.phase = "inputs"
          /\ TopRequest \in Handled \/ Published(Top, Top.mtime)
          /\ Handled' = Handled \cup {TopRequest} /\ asked' = asked
          /\ updating' = updating \ {Top.alg}
       \/ /\ Top.phase = "ended" /\ outcome.result = "none"
          /\ Handled' = Handled /\ asked' = asked
          /\ updating' = updating \ {Top.alg}
    /\ out' = out

\* The update ends.
Ends ==
    /\ stack' = <<>>
    /\ updating' = updating \ {stack[i].alg : i \in DOMAIN stack}
    /\ outcome' \in Outcomes
    /\ outcome'.result \in Failures \/ outcome'.result = outcome.result
    /\ UNCHANGED <<visited, asked, masked, out>>

\* What the walk leaves alone.
Keeps == UNCHANGED <<stamp, parameter, edits, direct, producers, suspended, calm, cancelled>>

LEMMA HandledMore ==
    ASSUME NEW a, NEW t, NEW m, NEW k, visited' = visited \cup {Visit(a, t, m, k)}
    PROVE  Handled' = Handled \cup {<<a, k>>}
<1>1. PICK v : v = Visit(a, t, m, k)
  OBVIOUS
<1>2. v[1] = a /\ v[4] = k
  BY <1>1 DEF Visit
<1>3. ASSUME NEW q PROVE q \in Handled' <=> q \in Handled \/ q = <<a, k>>
  BY <1>1, <1>2 DEF Handled, HandledIn
<1> QED BY <1>3

LEMMA HandledSame == ASSUME visited' = visited PROVE Handled' = Handled
BY DEF Handled, HandledIn

LEMMA GoesEnter == ASSUME Types, ~Idle, Enter PROVE \E f \in FrameRecord : Goes(f)
<1>1. PICK t \in FrameRecord : t = Top /\ t.alg \in Algorithms
  BY TopIs, FrameFields
<1>2. PICK m : m = MTime(Top.alg) /\ m \in Nat
  BY <1>1, TimesAreNat
<1>3. PICK u : u = (IF direct[Top.alg] = None THEN 0 ELSE stamp[direct[Top.alg]]) /\ u \in Nat
  BY <1>1, InputTimeIsNat
<1>4. PICK f : f = [t EXCEPT !.phase = "inputs", !.mtime = m, !.input = u]
  OBVIOUS
<1>5. stack' = Replace(f)
  BY <1>1, <1>2, <1>3, <1>4 DEF Enter
<1>6. f \in FrameRecord
  BY <1>1, <1>2, <1>3, <1>4 DEF FrameRecord, Phases
<1>7. /\ f.alg = t.alg /\ f.key = t.key /\ f.phase = "inputs" /\ f.next = t.next
      /\ f.read = t.read /\ f.mtime = m
  BY <1>1, <1>4 DEF FrameRecord
<1>8. /\ Top.phase = "enter" /\ ~Cached(Top) /\ UNCHANGED <<visited, outcome>>
      /\ asked' = asked \cup {TopRequest} /\ updating' \subseteq updating \cup {Top.alg}
  BY DEF Enter, MayEnter, Ask, TopRequest
<1>9. Handled' = Handled
  BY <1>8, HandledSame
<1> QED BY <1>1, <1>2, <1>5, <1>6, <1>7, <1>8, <1>9 DEF Goes

LEMMA GoesAfterChild == ASSUME Types, ~Idle, AfterChild PROVE \E f \in FrameRecord : Goes(f)
<1>1. PICK t \in FrameRecord : /\ t = Top /\ t.alg \in Algorithms /\ t.next \in Nat \ {0}
                               /\ t.input \in Nat
  BY TopIs, FrameFields
<1>2. PICK time : time = InputTime(Top.alg, Top.next) /\ time \in Nat
  BY <1>1, InputTimeNat DEF AfterChild
<1>3. PICK u : u = (IF time > t.input THEN time ELSE t.input) /\ u \in Nat
  BY <1>1, <1>2
<1>4. PICK n : n = t.next + 1 /\ n \in Nat \ {0}
  BY <1>1
<1>5. PICK f : f = [t EXCEPT !.phase = "inputs", !.next = n, !.input = u]
  OBVIOUS
<1>6. f \in FrameRecord
  BY <1>1, <1>3, <1>4, <1>5 DEF FrameRecord, Phases
<1>7. /\ f.alg = t.alg /\ f.key = t.key /\ f.phase = "inputs" /\ f.next = n
      /\ f.read = t.read /\ f.mtime = t.mtime
  BY <1>1, <1>5 DEF FrameRecord
<1>8. f = [Top EXCEPT !.phase = "inputs", !.next = @ + 1,
                      !.input = IF time > @ THEN time ELSE @]
  BY <1>1, <1>3, <1>4, <1>5
<1>9. stack' = Replace(f)
  BY <1>2, <1>8 DEF AfterChild
<1>10. /\ Top.phase = "child" /\ UNCHANGED <<visited, outcome, asked, updating>>
  BY DEF AfterChild
<1>11. Handled' = Handled
  BY <1>10, HandledSame
<1> QED BY <1>1, <1>4, <1>6, <1>7, <1>9, <1>10, <1>11 DEF Goes

LEMMA GoesStart == ASSUME Types, ~Idle, Start PROVE \E f \in FrameRecord : Goes(f)
<1>1. PICK t \in FrameRecord : t = Top
  BY TopIs
<1>2. PICK f : f = [t EXCEPT !.phase = "started"]
  OBVIOUS
<1>3. /\ f \in FrameRecord /\ f.alg = t.alg /\ f.key = t.key /\ f.phase = "started"
      /\ f.next = t.next /\ f.read = t.read /\ f.mtime = t.mtime
  BY <1>1, <1>2 DEF FrameRecord, Phases
<1>4. stack' = Replace(f)
  BY <1>1, <1>2 DEF Start
<1>5. /\ InputsDone(Top) /\ Top.phase = "inputs" /\ UNCHANGED <<visited, outcome, asked, updating>>
  BY DEF Start, InputsDone
<1>6. Handled' = Handled
  BY <1>5, HandledSame
<1> QED BY <1>1, <1>3, <1>4, <1>5, <1>6 DEF Goes

LEMMA GoesStage == ASSUME Types, ~Idle, Stage PROVE \E f \in FrameRecord : Goes(f)
<1>1. PICK t \in FrameRecord : t = Top /\ t.alg \in Algorithms
  BY TopIs, FrameFields
<1>2. PICK m : m = MTime(Top.alg) /\ m \in Nat
  BY <1>1, TimesAreNat
<1>3. PICK f : f = [t EXCEPT !.phase = "data", !.read = m]
  OBVIOUS
<1>4. /\ f \in FrameRecord /\ f.alg = t.alg /\ f.key = t.key /\ f.phase = "data"
      /\ f.next = t.next /\ f.read = m /\ f.mtime = t.mtime
  BY <1>1, <1>2, <1>3 DEF FrameRecord, Phases
<1>5. stack' = Replace(f)
  BY <1>1, <1>2, <1>3 DEF Stage, TimeRead
<1>6. /\ Top.phase = "started" /\ UNCHANGED <<visited, outcome, asked, updating>>
  BY DEF Stage
<1>7. Handled' = Handled
  BY <1>6, HandledSame
<1> QED BY <1>1, <1>2, <1>4, <1>5, <1>6, <1>7 DEF Goes

\* Those that end an algorithm that has started.
LEMMA EndedFrame ==
    ASSUME Types, ~Idle
    PROVE  \E f \in FrameRecord :
               /\ f = [Top EXCEPT !.phase = "ended"] /\ f.alg = Top.alg /\ f.key = Top.key
               /\ f.phase = "ended" /\ f.next = Top.next /\ f.read = Top.read
               /\ f.mtime = Top.mtime
<1>1. PICK t \in FrameRecord : t = Top
  BY TopIs
<1>2. PICK f : f = [t EXCEPT !.phase = "ended"]
  OBVIOUS
<1>3. /\ f \in FrameRecord /\ f.alg = t.alg /\ f.key = t.key /\ f.phase = "ended"
      /\ f.next = t.next /\ f.read = t.read /\ f.mtime = t.mtime
  BY <1>1, <1>2 DEF FrameRecord, Phases
<1> QED BY <1>1, <1>2, <1>3

LEMMA StopResult ==
    ASSUME Types, NEW result \in {"ok"} \cup Failures, outcome' = [outcome EXCEPT !.result = result]
    PROVE  outcome' \in Outcomes /\ outcome'.root = outcome.root /\ outcome'.key = outcome.key
           /\ outcome'.result = result
BY DEF Types, Outcomes

LEMMA GoesStop ==
    ASSUME Types, ~Idle, NEW result \in Failures, Stop(result), Top.phase \in {"started", "data"},
           asked' = asked
    PROVE  \E f \in FrameRecord : Goes(f)
<1>1. PICK f \in FrameRecord :
               /\ f = [Top EXCEPT !.phase = "ended"] /\ f.alg = Top.alg /\ f.key = Top.key
               /\ f.phase = "ended" /\ f.next = Top.next /\ f.read = Top.read
               /\ f.mtime = Top.mtime
  BY EndedFrame
<1>2. stack' = Replace(f) /\ UNCHANGED <<updating, visited>>
  BY <1>1 DEF Stop
<1>3. outcome' \in Outcomes /\ outcome'.root = outcome.root /\ outcome'.key = outcome.key
      /\ outcome'.result \in Failures
  BY StopResult DEF Stop
<1>4. Handled' = Handled
  BY <1>2, HandledSame
<1> QED BY <1>1, <1>2, <1>3, <1>4 DEF Goes

LEMMA GoesEnded ==
    ASSUME Types, ~Idle, Visiting(Top), stack' = Replace([Top EXCEPT !.phase = "ended"]),
           Top.phase \in {"started", "data"}, Execute \/ Published(Top, MTime(Top.alg)),
           UNCHANGED <<asked, outcome, updating>>
    PROVE  \E f \in FrameRecord : Goes(f)
<1>1. PICK f \in FrameRecord :
               /\ f = [Top EXCEPT !.phase = "ended"] /\ f.alg = Top.alg /\ f.key = Top.key
               /\ f.phase = "ended" /\ f.next = Top.next /\ f.read = Top.read
               /\ f.mtime = Top.mtime
  BY EndedFrame
<1>2. Handled' = Handled \cup {TopRequest}
  BY HandledMore DEF Visiting, TopRequest
<1> QED BY <1>1, <1>2 DEF Goes

LEMMA GoesDescend ==
    ASSUME Types, ~Idle, Descend PROVE \E f, g \in FrameRecord : Descends(f, g)
<1>1. PICK t \in FrameRecord : /\ t = Top /\ t.alg \in Algorithms /\ t.next \in Nat \ {0}
                               /\ t.key \in Keys
  BY TopIs, FrameFields
<1>2. producers[Top.alg] \in Seq(Algorithms) /\ Top.next <= Len(producers[Top.alg])
  BY <1>1 DEF Descend, Types
<1>3. Top.next \in DOMAIN producers[Top.alg] /\ producers[Top.alg][Top.next] \in Algorithms
  BY <1>1, <1>2
<1>4. MapRequest(Top.alg, Top.next, Top.key) \in Keys
  BY <1>1, MapRequestIsKey
<1>5. PICK f : f = [t EXCEPT !.phase = "child"]
  OBVIOUS
<1>6. f \in FrameRecord /\ f.alg = t.alg /\ f.key = t.key /\ f.phase = "child"
      /\ f.next = t.next /\ f.read = t.read /\ f.mtime = t.mtime
  BY <1>1, <1>5 DEF FrameRecord, Phases
<1>7. PICK g : g = Frame(producers[Top.alg][Top.next], MapRequest(Top.alg, Top.next, Top.key))
  OBVIOUS
<1>8. /\ g \in FrameRecord /\ g.alg = ProducerOf(Top, Top.next)
      /\ g.key = RequestOf(Top, Top.next) /\ g.phase = "enter" /\ g.next = 1 /\ g.read = 0
  BY <1>3, <1>4, <1>7, FirstFrame DEF ProducerOf, RequestOf
<1>9. stack' = Append(Replace(f), g)
  BY <1>1, <1>5, <1>7 DEF Descend
<1>10. Top.phase = "inputs" /\ UNCHANGED <<asked, visited, outcome, updating, out, masked>>
  BY DEF Descend
<1> QED BY <1>1, <1>3, <1>6, <1>8, <1>9, <1>10 DEF Descends

LEMMA LeavesCached == ASSUME EnterCached PROVE Leaves
<1>1. /\ Pop /\ Top.phase = "enter" /\ asked' = asked \cup {TopRequest}
      /\ UNCHANGED <<out, updating>> /\ Valid(Top.alg) /\ out[Top.alg].key = Top.key
  BY DEF EnterCached, MayEnter, Cached, Valid, HasData, Ask, TopRequest
<1>2. Handled' = Handled \cup {TopRequest}
  BY HandledMore DEF EnterCached, TopRequest
<1> QED BY <1>1, <1>2 DEF Leaves

LEMMA LeavesSkip == ASSUME Skip PROVE Leaves
<1>1. /\ Pop /\ Top.phase = "inputs" /\ UNCHANGED <<out, asked>>
      /\ updating' = updating \ {Top.alg} /\ Unneeded(Top)
  BY DEF Skip, InputsDone, Leave
<1>2. Handled' = Handled \cup {TopRequest}
  BY HandledMore DEF Skip, Visiting, TopRequest
<1>3. ASSUME Skips(Top) PROVE TopRequest \in Handled
  <2>1. PICK v : v = Visit(Top.alg, Top.input, Top.mtime, Top.key) /\ v \in visited
    BY <1>3 DEF Skips
  <2>2. v[1] = Top.alg /\ v[4] = Top.key
    BY <2>1 DEF Visit
  <2> QED BY <2>1, <2>2 DEF Handled, HandledIn, TopRequest
<1> QED BY <1>1, <1>2, <1>3 DEF Leaves, Unneeded

LEMMA LeavesEnd == ASSUME End PROVE Leaves
<1>1. /\ Pop /\ Top.phase = "ended" /\ outcome.result = "none" /\ UNCHANGED <<out, asked, visited>>
      /\ updating' = updating \ {Top.alg}
  BY DEF End, Leave
<1>2. Handled' = Handled
  BY <1>1, HandledSame
<1> QED BY <1>1, <1>2 DEF Leaves

LEMMA EndsFail ==
    ASSUME Types, NEW result, result \in Failures \/ result = outcome.result, Fail(result)
    PROVE  Ends
<1>1. /\ stack' = <<>> /\ updating' = updating \ {stack[i].alg : i \in DOMAIN stack}
      /\ outcome' = [outcome EXCEPT !.result = result]
      /\ UNCHANGED <<visited, asked, masked, out>>
  BY DEF Fail
<1>2. outcome' \in Outcomes /\ outcome'.result = result
  BY <1>1 DEF Types, Outcomes
<1> QED BY <1>1, <1>2 DEF Ends

Moves ==
    \/ \E f \in FrameRecord : Goes(f)
    \/ \E f, g \in FrameRecord : Descends(f, g)
    \/ Leaves
    \/ Ends

LEMMA WalkMoves == ASSUME Types, Walk PROVE ~Idle /\ Moves
<1>0. ~Idle
  BY DEF Walk
<1>1. ASSUME EnterRefused \/ EnterReentrant \/ InputMissing \/ NothingProduced \/ EndFailed
      PROVE  Ends
  <2>1. \E result : (result \in Failures \/ result = outcome.result) /\ Fail(result)
    BY <1>1 DEF EnterRefused, EnterReentrant, InputMissing, NothingProduced, EndFailed, Failures
  <2> QED BY <2>1, EndsFail
<1>2. ASSUME EnterCached \/ Skip \/ End PROVE Leaves
  BY <1>2, LeavesCached, LeavesSkip, LeavesEnd
<1>3. ASSUME Enter \/ AfterChild \/ Start \/ Stage PROVE \E f \in FrameRecord : Goes(f)
  BY <1>0, <1>3, GoesEnter, GoesAfterChild, GoesStart, GoesStage
<1>4. CASE Descend
  BY <1>0, <1>4, GoesDescend DEF Moves
<1>5. ASSUME StageRefused \/ ExecuteFails PROVE \E f \in FrameRecord : Goes(f)
  <2>1. \E result \in Failures : Stop(result)
    BY <1>5 DEF StageRefused, ExecuteFails, Failures
  <2>2. Top.phase \in {"started", "data"} /\ asked' = asked
    BY <1>5 DEF StageRefused, ExecuteFails
  <2> QED BY <1>0, <2>1, <2>2, GoesStop
<1>6. ASSUME StagePublished PROVE \E f \in FrameRecord : Goes(f)
  <2>1. /\ Visiting(Top) /\ stack' = Replace([Top EXCEPT !.phase = "ended"])
        /\ Top.phase = "started" /\ Published(Top, MTime(Top.alg))
        /\ UNCHANGED <<asked, outcome, updating>>
    BY <1>6 DEF StagePublished, TimeRead
  <2> QED BY <1>0, <2>1, GoesEnded
<1>7. ASSUME Execute PROVE \E f \in FrameRecord : Goes(f)
  <2>1. Top.phase = "data" /\ asked' = asked
    BY <1>7 DEF Execute
  <2>2. CASE Top.alg \in aborted
    <3>1. Stop("busy") /\ "busy" \in Failures
      BY <1>7, <2>2 DEF Execute, Failures
    <3> QED BY <1>0, <2>1, <3>1, GoesStop
  <2>3. CASE Top.alg \notin aborted
    <3>1. /\ Visiting(Top) /\ stack' = Replace([Top EXCEPT !.phase = "ended"])
          /\ UNCHANGED <<updating, outcome>>
      BY <1>7, <2>3 DEF Execute
    <3> QED BY <1>0, <1>7, <2>1, <3>1, GoesEnded
  <2> QED BY <2>2, <2>3
<1> QED BY <1>0, <1>1, <1>2, <1>3, <1>4, <1>5, <1>6, <1>7 DEF Walk, Moves

\* What the walk leaves alone.
LEMMA WalkKeeps ==
    ASSUME Walk
    PROVE  Keeps /\ (masked => masked') /\ (clock' = clock \/ Execute) /\ (out' = out \/ Execute)
<1>1. ASSUME NEW result, Fail(result)
      PROVE  Keeps /\ UNCHANGED <<masked, clock, out>>
  BY <1>1 DEF Fail, Keeps, walkUnchanged, graphVars
<1>2. ASSUME EnterRefused \/ EnterReentrant \/ InputMissing \/ NothingProduced \/ EndFailed
      PROVE  Keeps /\ UNCHANGED <<masked, clock, out>>
  BY <1>1, <1>2 DEF EnterRefused, EnterReentrant, InputMissing, NothingProduced, EndFailed
<1>3. ASSUME Enter \/ EnterCached
      PROVE  Keeps /\ (masked => masked') /\ UNCHANGED <<clock, out>>
  BY <1>3 DEF Enter, EnterCached, Ask, Keeps, walkUnchanged, graphVars
<1>4. ASSUME Descend \/ AfterChild \/ Skip \/ Start \/ StageRefused
      PROVE  Keeps /\ UNCHANGED <<masked, clock, out>>
  BY <1>4 DEF Descend, AfterChild, Skip, Start, StageRefused, Keeps, walkUnchanged, graphVars
<1>5. ASSUME Stage \/ StagePublished \/ ExecuteFails \/ End
      PROVE  Keeps /\ UNCHANGED <<masked, clock, out>>
  BY <1>5 DEF Stage, StagePublished, ExecuteFails, End, Keeps, walkUnchanged, graphVars
<1>6. ASSUME Execute PROVE Keeps /\ UNCHANGED masked
  BY <1>6 DEF Execute, Keeps, graphVars
<1> QED BY <1>2, <1>3, <1>4, <1>5, <1>6 DEF Walk

LEMMA AskedMore == ASSUME Walk PROVE asked \subseteq asked'
BY DEF Walk, EnterRefused, EnterReentrant, EnterCached, Enter, InputMissing, Descend, AfterChild,
       NothingProduced, Skip, Start, StageRefused, Stage, StagePublished, ExecuteFails, Execute,
       End, EndFailed, Fail, Ask

LEMMA WalkAsks == ASSUME Walk PROVE asked' = asked \/ Ask(Top.alg, Top.key)
BY DEF Walk, EnterRefused, EnterReentrant, EnterCached, Enter, InputMissing, Descend, AfterChild,
       NothingProduced, Skip, Start, StageRefused, Stage, StagePublished, ExecuteFails, Execute,
       End, EndFailed, Fail

-----------------------------------------------------------------------------
(* The frames of an update stay in order *)

LEMMA GraphStays ==
    ASSUME UNCHANGED <<direct, producers>>
    PROVE  /\ \A x : Consumers(x)' = Consumers(x)
           /\ \A x : Reached(x)' = Reached(x)
           /\ \A x : Below(x)' = Below(x)
<1>1. \A x : Consumers(x)' = Consumers(x)
  BY DEF Consumers
<1>2. \A S : ClosedDownstream(S)' = ClosedDownstream(S)
  BY <1>1 DEF ClosedDownstream
<1>3. \A x : Reached(x)' = Reached(x)
  BY <1>1, <1>2 DEF Reached
<1> QED BY <1>1, <1>3 DEF Below

\* The parts of the invariant of the frames of the walk in progress.
LEMMA StackParts ==
    ASSUME StackInv, ~Idle
    PROVE  /\ \A i \in DOMAIN stack : Placed(stack[i])
           /\ \A i \in DOMAIN stack : i < Len(stack) => Waits(stack, i)
           /\ Ordered(stack) /\ Rooted(stack, outcome)
BY DEF StackInv, StackOK, Idle

\* An algorithm has one frame.
LEMMA FramesApart ==
    ASSUME Types, PipelineGiven, NoCycles, StackInv,
           NEW i \in DOMAIN stack, NEW j \in DOMAIN stack, stack[i].alg = stack[j].alg
    PROVE  i = j
<1>1. i \in Nat /\ j \in Nat /\ ~Idle
  BY DEF Types, Idle
<1>2. stack[i].alg \in Algorithms /\ stack[j].alg \in Algorithms
  BY FrameAt
<1>3. ~(i < j)
  BY <1>1, <1>2, NotBelowItself, StackParts DEF Ordered
<1>4. ~(j < i)
  BY <1>1, <1>2, NotBelowItself, StackParts DEF Ordered
<1> QED BY <1>1, <1>3, <1>4

LEMMA StackGoes ==
    ASSUME Types, StackInv, ~Idle, NEW f \in FrameRecord, Goes(f), Keeps
    PROVE  StackInv'
<1>1. PICK n : n = Len(stack) /\ n \in Nat \ {0} /\ DOMAIN stack = 1..n /\ Top = stack[n]
  BY TopIs
<1>2. /\ Len(stack') = n /\ DOMAIN stack' = 1..n /\ stack'[n] = f
      /\ \A i \in 1..n : i # n => stack'[i] = stack[i]
  BY <1>1, ReplacedStack DEF Goes
<1>3. \A i \in 1..n : stack'[i].alg = stack[i].alg /\ stack'[i].key = stack[i].key
  BY <1>1, <1>2 DEF Goes
<1>4. UNCHANGED <<direct, producers>>
  BY DEF Keeps
<1>5. n \in 1..n
  BY <1>1
<1>6. Placed(f)
  <2>1. Placed(Top) /\ Top.next \in Nat \ {0} /\ Top.alg \in Algorithms
    BY <1>1, <1>5, StackParts, TopIs, FrameFields
  <2>2. producers[Top.alg] \in Seq(Algorithms) /\ Len(producers[Top.alg]) \in Nat
    <3>1. producers[Top.alg] \in Seq(Algorithms)
      BY <2>1 DEF Types
    <3> QED BY <3>1
  <2>3. f.alg = Top.alg
    BY DEF Goes
  <2>4. CASE f.phase = "inputs"
    BY <2>1, <2>2, <2>3, <2>4 DEF Goes, Placed
  <2>5. CASE f.phase = "started"
    BY <2>1, <2>2, <2>3, <2>5 DEF Goes, Placed, InputsDone
  <2>6. CASE f.phase = "data" \/ f.phase = "ended"
    BY <2>1, <2>2, <2>3, <2>6 DEF Goes, Placed
  <2> QED BY <2>4, <2>5, <2>6 DEF Goes
<1>7. (\A i \in DOMAIN stack : Placed(stack[i]))'
  <2>1. ASSUME NEW i \in 1..n PROVE Placed(stack'[i])
    BY <1>1, <1>2, <1>6, StackParts
  <2> QED BY <2>1, <1>2, <1>4 DEF Placed
<1>8. (\A i \in DOMAIN stack : i < Len(stack) => Waits(stack, i))'
  <2> SUFFICES ASSUME NEW i \in 1..n, i < n PROVE Waits(stack, i)'
    BY <1>2
  <2>1. stack'[i] = stack[i] /\ i + 1 \in 1..n /\ Waits(stack, i)
    BY <1>1, <1>2, StackParts
  <2> QED BY <2>1, <1>3, <1>4 DEF Waits, ProducerOf, RequestOf, MapRequest
<1>9. Ordered(stack)'
  <2>1. \A x : Below(x)' = Below(x)
    BY <1>4, GraphStays
  <2> QED BY <2>1, <1>1, <1>2, <1>3, StackParts DEF Ordered
<1>10. Rooted(stack, outcome)'
  <2>1. 1 \in 1..n
    BY <1>1
  <2>2. outcome'.root = outcome.root /\ outcome'.key = outcome.key
        /\ (outcome'.result # "none" => f.phase = "ended") /\ outcome'.result # "ok"
    <3>1. Rooted(stack, outcome)
      BY StackParts
    <3>2. outcome.result # "none" => Top.phase = "ended"
      BY <3>1, <1>1 DEF Rooted
    <3>3. outcome.result # "ok"
      BY <3>1 DEF Rooted
    <3> QED BY <3>2, <3>3 DEF Goes, Failures, InputsDone
  <2>3. stack'[1].alg = outcome'.root /\ stack'[1].key = outcome'.key
    BY <2>1, <2>2, <1>3, StackParts DEF Rooted
  <2> QED BY <2>2, <2>3, <1>2 DEF Rooted
<1> QED BY <1>7, <1>8, <1>9, <1>10 DEF StackInv, StackOK

LEMMA StackDescends ==
    ASSUME Types, StackInv, ~Idle, NEW f \in FrameRecord, NEW g \in FrameRecord, Descends(f, g), Keeps
    PROVE  StackInv'
<1>1. PICK n : n = Len(stack) /\ n \in Nat \ {0} /\ DOMAIN stack = 1..n /\ Top = stack[n]
  BY TopIs
<1>2. /\ Len(stack') = n + 1 /\ DOMAIN stack' = 1..(n + 1)
      /\ stack'[n + 1] = g /\ stack'[n] = f
      /\ \A i \in 1..n : i # n => stack'[i] = stack[i]
  BY <1>1, PushedStack DEF Descends
<1>3. \A i \in 1..n : stack'[i].alg = stack[i].alg /\ stack'[i].key = stack[i].key
  BY <1>1, <1>2 DEF Descends
<1>4. UNCHANGED <<direct, producers>>
  BY DEF Keeps
<1>5. \A i \in 1..(n + 1) : i = n + 1 \/ i \in 1..n
  BY <1>1
<1>6. /\ f.alg = Top.alg /\ f.key = Top.key /\ f.phase = "child" /\ f.next = Top.next
      /\ g.alg = ProducerOf(Top, Top.next) /\ g.key = RequestOf(Top, Top.next)
      /\ g.phase = "enter" /\ g.next = 1 /\ Top.next \in DOMAIN producers[Top.alg]
  BY DEF Descends
<1>7. (\A i \in DOMAIN stack : Placed(stack[i]))'
  <2>1. producers[Top.alg] \in Seq(Algorithms) /\ Top.next <= Len(producers[Top.alg])
    <3>1. Top.alg \in Algorithms
      BY TopIs, FrameFields
    <3>2. producers[Top.alg] \in Seq(Algorithms)
      BY <3>1 DEF Types
    <3> QED BY <3>2, <1>6
  <2>2. Placed(f) /\ Placed(g)
    BY <2>1, <1>6 DEF Placed
  <2>3. ASSUME NEW i \in 1..(n + 1) PROVE Placed(stack'[i])
    <3>1. CASE i = n + 1
      BY <3>1, <2>2, <1>2
    <3>2. CASE i = n
      BY <3>2, <2>2, <1>2
    <3>3. CASE i # n + 1 /\ i # n
      BY <3>3, <1>1, <1>2, <1>5, StackParts
    <3> QED BY <3>1, <3>2, <3>3
  <2> QED BY <2>3, <1>2, <1>4 DEF Placed
<1>8. (\A i \in DOMAIN stack : i < Len(stack) => Waits(stack, i))'
  <2> SUFFICES ASSUME NEW i \in 1..(n + 1), i < n + 1 PROVE Waits(stack, i)'
    BY <1>2
  <2>1. CASE i = n
    <3>1. ProducerOf(Top, Top.next) = producers[f.alg][f.next]
      BY <1>6 DEF ProducerOf
    <3>2. RequestOf(Top, Top.next) = MapRequest(f.alg, f.next, f.key)
      BY <1>6 DEF RequestOf
    <3> QED BY <2>1, <3>1, <3>2, <1>2, <1>4, <1>6 DEF Waits, ProducerOf, RequestOf, MapRequest
  <2>2. CASE i # n
    <3>1. i \in 1..n /\ i + 1 \in 1..n /\ i < n
      BY <2>2, <1>1
    <3>2. stack'[i] = stack[i] /\ Waits(stack, i)
      BY <2>2, <3>1, <1>1, <1>2, StackParts
    <3>3. stack'[i + 1].alg = stack[i + 1].alg /\ stack'[i + 1].key = stack[i + 1].key
      BY <3>1, <1>3
    <3> QED BY <3>2, <3>3, <1>4 DEF Waits, ProducerOf, RequestOf, MapRequest
  <2> QED BY <2>1, <2>2
<1>9. Ordered(stack)'
  <2>1. \A x : Below(x)' = Below(x)
    BY <1>4, GraphStays
  <2>2. Top.alg \in Algorithms
    BY TopIs, FrameFields
  <2>3. Top.alg \in Consumers(g.alg)
    BY <2>2, <1>6, ProducerConsumed DEF ProducerOf
  <2>4. Reached(Top.alg) \subseteq Below(g.alg)
    BY <2>3, BelowConsumer
  <2>5. ASSUME NEW i \in 1..n PROVE stack[i].alg \in Reached(Top.alg)
    <3>1. CASE i = n
      BY <3>1, <1>1, ReachedSelf
    <3>2. CASE i # n
      <4>1. i < n /\ n \in 1..n
        BY <3>2, <1>1
      <4>2. stack[i].alg \in Below(Top.alg)
        BY <4>1, <1>1, StackParts DEF Ordered
      <4> QED BY <4>2, ReachedUnfold
    <3> QED BY <3>1, <3>2
  <2>6. ASSUME NEW i \in 1..(n + 1), NEW j \in 1..(n + 1), i < j
        PROVE  stack'[i].alg \in Below(stack'[j].alg)
    <3>1. i \in 1..n
      BY <2>6, <1>1
    <3>2. CASE j = n + 1
      BY <3>1, <3>2, <2>4, <2>5, <1>2, <1>3
    <3>3. CASE j # n + 1
      <4>1. j \in 1..n
        BY <3>3, <1>5
      <4>2. stack[i].alg \in Below(stack[j].alg)
        BY <4>1, <3>1, <2>6, <1>1, StackParts DEF Ordered
      <4> QED BY <4>1, <4>2, <3>1, <1>3
    <3> QED BY <3>2, <3>3
  <2> QED BY <2>1, <2>6, <1>2 DEF Ordered
<1>10. Rooted(stack, outcome)'
  <2>1. 1 \in 1..n
    BY <1>1
  <2>2. outcome' = outcome /\ Top.phase = "inputs"
    BY DEF Descends
  <2>3. outcome.result = "none"
    BY <2>2, <1>1, StackParts DEF Rooted
  <2>4. stack'[1].alg = outcome.root /\ stack'[1].key = outcome.key
    BY <2>1, <1>3, StackParts DEF Rooted
  <2> QED BY <2>2, <2>3, <2>4 DEF Rooted
<1> QED BY <1>7, <1>8, <1>9, <1>10 DEF StackInv, StackOK

\* A request that is served leaves an update that has not failed.
LEMMA NoneFailed ==
    ASSUME Types, StackInv, ~Idle, Top.phase = "ended" => outcome.result = "none"
    PROVE  outcome.result = "none"
<1>1. Top = stack[Len(stack)]
  BY TopIs
<1> QED BY <1>1, StackParts DEF Rooted

LEMMA StackLeaves ==
    ASSUME Types, StackInv, ~Idle, Leaves, Keeps
    PROVE  StackInv'
<1> SUFFICES ASSUME ~Idle' PROVE StackInv'
  BY DEF StackInv, StackOK, Idle
<1>1. PICK n : n = Len(stack) /\ n \in Nat \ {0} /\ DOMAIN stack = 1..n /\ Top = stack[n]
  BY TopIs
<1>2. /\ Len(stack') = n - 1 /\ DOMAIN stack' = 1..(n - 1)
      /\ \A i \in 1..(n - 1) : i \in 1..n /\ stack'[i] = stack[i]
      /\ n # 1
  BY <1>1, PoppedStack DEF Leaves, Pop
<1>3. UNCHANGED <<direct, producers, outcome>>
  BY <1>1, <1>2 DEF Keeps, Leaves, Pop
<1>4. (\A i \in DOMAIN stack : Placed(stack[i]))'
  <2>1. ASSUME NEW i \in 1..(n - 1) PROVE Placed(stack'[i])
    BY <1>1, <1>2, StackParts
  <2> QED BY <2>1, <1>2, <1>3 DEF Placed
<1>5. (\A i \in DOMAIN stack : i < Len(stack) => Waits(stack, i))'
  <2> SUFFICES ASSUME NEW i \in 1..(n - 1), i < n - 1 PROVE Waits(stack, i)'
    BY <1>2
  <2>1. stack'[i] = stack[i] /\ i + 1 \in 1..(n - 1) /\ i \in DOMAIN stack /\ i < Len(stack)
    BY <1>1, <1>2
  <2>2. Waits(stack, i) /\ stack'[i + 1] = stack[i + 1]
    BY <2>1, <1>2, StackParts
  <2> QED BY <2>1, <2>2, <1>3 DEF Waits, ProducerOf, RequestOf, MapRequest
<1>6. Ordered(stack)'
  <2>1. \A x : Below(x)' = Below(x)
    BY <1>3, GraphStays
  <2>2. \A i, j \in 1..(n - 1) : i < j => stack'[i].alg \in Below(stack'[j].alg)
    BY <1>1, <1>2, StackParts DEF Ordered
  <2> QED BY <2>1, <2>2, <1>2 DEF Ordered
<1>7. Rooted(stack, outcome)'
  <2>1. 1 \in 1..(n - 1)
    BY <1>1, <1>2
  <2>2. outcome.result = "none"
    BY NoneFailed DEF Leaves
  <2>3. stack'[1].alg = outcome.root /\ stack'[1].key = outcome.key
    BY <2>1, <1>1, <1>2, StackParts DEF Rooted
  <2> QED BY <2>2, <2>3, <1>3 DEF Rooted
<1> QED BY <1>4, <1>5, <1>6, <1>7 DEF StackInv, StackOK

LEMMA WalkStack == ASSUME Types, StackInv, Walk PROVE StackInv'
<1>1. ~Idle /\ Moves /\ Keeps
  BY WalkMoves, WalkKeeps
<1>2. ASSUME NEW f \in FrameRecord, Goes(f) PROVE StackInv'
  BY <1>1, <1>2, StackGoes
<1>3. ASSUME NEW f \in FrameRecord, NEW g \in FrameRecord, Descends(f, g) PROVE StackInv'
  BY <1>1, <1>3, StackDescends
<1>4. CASE Leaves
  BY <1>1, <1>4, StackLeaves
<1>5. CASE Ends
  BY <1>5 DEF Ends, StackInv, StackOK
<1> QED BY <1>1, <1>2, <1>3, <1>4, <1>5 DEF Moves

\* A frame that ends leaves to the one that waits for it.
LEMMA Leaving ==
    ASSUME Types, StackInv, ~Idle, Pop, ~Idle', UNCHANGED <<direct, producers>>
    PROVE  /\ outcome' = outcome
           /\ Top'.phase = "child"
           /\ ProducerOf(Top', Top'.next) = Top.alg
           /\ RequestOf(Top', Top'.next) = Top.key
           /\ stack'[Len(stack')] = Top'
<1>1. PICK n : n = Len(stack) /\ n \in Nat \ {0} /\ DOMAIN stack = 1..n /\ Top = stack[n]
  BY TopIs
<1>2. n # 1 /\ Top' = stack[n - 1] /\ stack'[Len(stack')] = Top'
  <2>1. stack' = Front(stack)
    BY DEF Pop
  <2>2. n # 1 /\ n - 1 \in DOMAIN stack' /\ Top' = stack'[n - 1] /\ Len(stack') = n - 1
    BY <2>1, <1>1, PoppedStack DEF Top, Last
  <2> QED BY <2>1, <2>2, <1>1, PoppedStack
<1>3. n - 1 \in 1..n /\ n - 1 < n /\ (n - 1) + 1 = n
  BY <1>1, <1>2
<1>4. Waits(stack, n - 1)
  BY <1>1, <1>3, StackParts
<1>5. /\ stack[n - 1].phase = "child"
      /\ stack[n].alg = ProducerOf(stack[n - 1], stack[n - 1].next)
      /\ stack[n].key = RequestOf(stack[n - 1], stack[n - 1].next)
  BY <1>3, <1>4 DEF Waits
<1> QED BY <1>1, <1>2, <1>5 DEF Pop

\* What a frame is of leads to the root of the update.
LEMMA RootReached ==
    ASSUME Types, StackInv, ~Idle, NEW i \in DOMAIN stack
    PROVE  outcome.root \in Algorithms /\ outcome.root \in Reached(stack[i].alg)
<1>1. 1 \in DOMAIN stack /\ stack[1].alg = outcome.root /\ DOMAIN stack = 1..Len(stack)
  BY TopIs, StackParts DEF Rooted
<1>2. outcome.root \in Algorithms
  BY <1>1, FrameAt
<1>3. CASE i = 1
  BY <1>1, <1>2, <1>3, ReachedSelf
<1>4. CASE i # 1
  <2>1. 1 < i
    BY <1>1, <1>4
  <2>2. stack[1].alg \in Below(stack[i].alg)
    BY <1>1, <2>1, StackParts DEF Ordered
  <2> QED BY <1>1, <1>2, <2>2, ReachedUnfold
<1> QED BY <1>3, <1>4

-----------------------------------------------------------------------------
(* What was asked for *)

LEMMA HandledTyped ==
    ASSUME Types PROVE \A q \in Handled : q = <<q[1], q[2]>> /\ q[1] \in Algorithms /\ q[2] \in Keys
BY DEF Types, Handled, HandledIn, Visits

LEMMA AskedTyped ==
    ASSUME Types PROVE \A q \in asked : q = <<q[1], q[2]>> /\ q[1] \in Algorithms /\ q[2] \in Keys
BY DEF Types

LEMMA AskedParts ==
    ASSUME AskedInv, ~Idle
    PROVE  /\ \A q \in Handled : outcome.root \in Reached(q[1])
           /\ Handled \subseteq asked
           /\ \A i \in DOMAIN stack : Entered(stack[i]) => <<stack[i].alg, stack[i].key>> \in asked
           /\ \A i \in DOMAIN stack : stack[i].phase = "ended" /\ outcome.result = "none" =>
                  <<stack[i].alg, stack[i].key>> \in Handled
BY DEF AskedInv, AskedOK, Idle, Handled

\* A frame that has been entered has asked.
LEMMA TopAsked ==
    ASSUME Types, AskedInv, ~Idle
    PROVE  /\ Entered(Top) => TopRequest \in asked
           /\ Top.phase = "ended" /\ outcome.result = "none" => TopRequest \in Handled
BY TopIs, AskedParts DEF TopRequest

\* The request of a frame that is left has been processed.
LEMMA LeavesHandled ==
    ASSUME Types, AskedInv, ~Idle, Leaves
    PROVE  /\ Handled' = Handled \cup {TopRequest} /\ asked \subseteq asked' /\ TopRequest \in asked'
           /\ Pop /\ out' = out
BY TopAsked DEF Leaves, Entered

LEMMA AskedGoes ==
    ASSUME Types, StackInv, AskedInv, ~Idle, NEW f \in FrameRecord, Goes(f), Keeps
    PROVE  AskedInv'
<1>1. PICK n : n = Len(stack) /\ n \in DOMAIN stack /\ Top = stack[n]
  BY TopIs
<1>2. stack' = Replace(f) /\ f.alg = Top.alg /\ f.key = Top.key /\ outcome'.root = outcome.root
      /\ UNCHANGED <<direct, producers>>
  BY DEF Goes, Keeps
<1>3. /\ DOMAIN stack' = DOMAIN stack /\ stack'[n] = f
      /\ \A i \in DOMAIN stack : i # n => stack'[i] = stack[i]
  BY <1>1, <1>2, ReplacedStack
<1>4. outcome.root \in Reached(Top.alg) /\ TopRequest[1] = Top.alg
  BY <1>1, RootReached DEF TopRequest
<1>5. /\ TopRequest \in asked' /\ asked \subseteq asked'
      /\ Handled \subseteq Handled' /\ Handled' \subseteq Handled \cup {TopRequest}
  BY TopAsked DEF Goes, Entered
<1>6. \A x : Reached(x)' = Reached(x)
  BY <1>2, GraphStays
<1>7. \A q \in Handled' : outcome'.root \in Reached(q[1])'
  BY <1>2, <1>4, <1>5, <1>6, AskedParts
<1>8. Handled' \subseteq asked'
  BY <1>5, AskedParts
<1>9. \A i \in DOMAIN stack' : Entered(stack'[i]) => <<stack'[i].alg, stack'[i].key>> \in asked'
  BY <1>2, <1>3, <1>5, AskedParts DEF TopRequest
<1>10. ASSUME NEW i \in DOMAIN stack', stack'[i].phase = "ended", outcome'.result = "none"
       PROVE  <<stack'[i].alg, stack'[i].key>> \in Handled'
  <2>1. CASE i = n
    <3>1. f.phase = "ended" /\ "none" \notin Failures
      BY <2>1, <1>3, <1>10 DEF Failures
    <3>2. TopRequest \in Handled'
      BY <3>1, <1>10 DEF Goes
    <3> QED BY <3>2, <2>1, <1>2, <1>3 DEF TopRequest
  <2>2. CASE i # n
    <3>1. i < Len(stack) /\ i \in DOMAIN stack
      BY <2>2, <1>1, <1>3, TopIs
    <3>2. stack[i].phase = "child"
      BY <3>1, StackParts DEF Waits
    <3> QED BY <3>1, <3>2, <2>2, <1>3, <1>10
  <2> QED BY <2>1, <2>2
<1> QED BY <1>7, <1>8, <1>9, <1>10 DEF AskedInv, AskedOK, Entered, Handled

LEMMA AskedLeaves ==
    ASSUME Types, StackInv, AskedInv, ~Idle, Leaves, Keeps
    PROVE  AskedInv'
<1> SUFFICES ASSUME ~Idle' PROVE AskedInv'
  BY DEF AskedInv, AskedOK, Idle
<1>1. PICK n : n = Len(stack) /\ n \in DOMAIN stack /\ Top = stack[n]
  BY TopIs
<1>2. /\ Handled' = Handled \cup {TopRequest} /\ asked \subseteq asked' /\ TopRequest \in asked'
      /\ Pop /\ UNCHANGED <<direct, producers>>
  BY LeavesHandled DEF Keeps
<1>3. \A i \in DOMAIN stack' : i \in DOMAIN stack /\ stack'[i] = stack[i]
  BY <1>2, PoppedStack DEF Pop
<1>4. outcome' = outcome
  BY <1>2, Leaving
<1>5. outcome.root \in Reached(Top.alg) /\ TopRequest[1] = Top.alg
  BY <1>1, RootReached DEF TopRequest
<1>6. \A x : Reached(x)' = Reached(x)
  BY <1>2, GraphStays
<1>7. \A q \in Handled' : outcome'.root \in Reached(q[1])'
  BY <1>2, <1>4, <1>5, <1>6, AskedParts
<1>8. Handled' \subseteq asked'
  BY <1>2, AskedParts
<1>9. \A i \in DOMAIN stack' : Entered(stack'[i]) => <<stack'[i].alg, stack'[i].key>> \in asked'
  BY <1>2, <1>3, AskedParts
<1>10. \A i \in DOMAIN stack' : stack'[i].phase = "ended" /\ outcome'.result = "none" =>
           <<stack'[i].alg, stack'[i].key>> \in Handled'
  BY <1>2, <1>3, <1>4, AskedParts
<1> QED BY <1>7, <1>8, <1>9, <1>10 DEF AskedInv, AskedOK, Entered, Handled

LEMMA AskedDescends ==
    ASSUME Types, StackInv, AskedInv, ~Idle, NEW f \in FrameRecord, NEW g \in FrameRecord,
           Descends(f, g), Keeps
    PROVE  AskedInv'
<1>1. PICK n : n = Len(stack) /\ n \in Nat \ {0} /\ DOMAIN stack = 1..n /\ Top = stack[n]
  BY TopIs
<1>2. /\ Len(stack') = n + 1 /\ DOMAIN stack' = 1..(n + 1)
      /\ stack'[n + 1] = g /\ stack'[n] = f
      /\ \A i \in 1..n : i # n => stack'[i] = stack[i]
  BY <1>1, PushedStack DEF Descends
<1>3. /\ UNCHANGED <<asked, visited, outcome, direct, producers>> /\ Top.phase = "inputs"
      /\ f.alg = Top.alg /\ f.key = Top.key /\ f.phase = "child" /\ g.phase = "enter"
  BY DEF Descends, Keeps
<1>4. Handled' = Handled /\ \A x : Reached(x)' = Reached(x)
  BY <1>3, GraphStays, HandledSame
<1>5. TopRequest \in asked
  BY <1>3, TopAsked DEF Entered
<1>6. ASSUME NEW i \in DOMAIN stack', Entered(stack'[i])
      PROVE  <<stack'[i].alg, stack'[i].key>> \in asked
  <2>1. i \in 1..n
    BY <1>1, <1>2, <1>3, <1>6 DEF Entered
  <2>2. CASE i = n
    BY <2>2, <1>2, <1>3, <1>5 DEF TopRequest
  <2>3. CASE i # n
    BY <2>1, <2>3, <1>1, <1>2, <1>6, AskedParts
  <2> QED BY <2>2, <2>3
<1>7. ASSUME NEW i \in DOMAIN stack', stack'[i].phase = "ended", outcome.result = "none"
      PROVE  <<stack'[i].alg, stack'[i].key>> \in Handled
  <2>1. i \in 1..n /\ i # n
    BY <1>1, <1>2, <1>3, <1>7
  <2> QED BY <2>1, <1>1, <1>2, <1>7, AskedParts
<1>8. \A q \in Handled' : outcome'.root \in Reached(q[1])'
  BY <1>3, <1>4, AskedParts
<1>9. Handled' \subseteq asked'
  BY <1>3, <1>4, AskedParts
<1>10. \A i \in DOMAIN stack' : Entered(stack'[i]) => <<stack'[i].alg, stack'[i].key>> \in asked'
  BY <1>3, <1>6
<1>11. \A i \in DOMAIN stack' : stack'[i].phase = "ended" /\ outcome'.result = "none" =>
           <<stack'[i].alg, stack'[i].key>> \in Handled'
  BY <1>3, <1>4, <1>7
<1> QED BY <1>8, <1>9, <1>10, <1>11 DEF AskedInv, AskedOK, Entered, Handled

LEMMA WalkAsked == ASSUME Types, StackInv, AskedInv, Walk PROVE AskedInv'
<1>1. ~Idle /\ Moves /\ Keeps
  BY WalkMoves, WalkKeeps
<1>2. CASE Ends
  BY <1>2 DEF Ends, AskedInv, AskedOK
<1> QED BY <1>1, <1>2, AskedGoes, AskedDescends, AskedLeaves DEF Moves

-----------------------------------------------------------------------------
(* Outputs that are kept *)

\* What an execution publishes: from the outputs of the producers, at the time it read.
LEMMA ExecutePublishes ==
    ASSUME Types, ~Idle, Execute
    PROVE  /\ out' \in [Algorithms -> Output]
           /\ \A b \in Algorithms : b # Top.alg => out'[b] = out[b]
           /\ out'[Top.alg].content = Computed(Top.alg, Top.key)
           /\ out'[Top.alg].mtime = Top.read /\ out'[Top.alg].key = Top.key
           /\ Computed(Top.alg, Top.key) # {}
<1>1. Top \in FrameRecord /\ Top.alg \in Algorithms /\ Top.key \in Keys /\ Top.input \in Nat
      /\ Top.read \in Nat
  BY TopIs, FrameFields
<1>2. PICK c : c = Computed(Top.alg, Top.key)
  OBVIOUS
<1>3. c \in SUBSET Items
  <2>1. edits \in [Objects -> Nat] /\ direct \in [Algorithms -> Data \cup {None}]
        /\ producers[Top.alg] \in Seq(Algorithms) /\ out \in [Algorithms -> Output]
    BY <1>1 DEF Types
  <2>2. edits[Top.alg] \in Nat /\ (direct[Top.alg] # None => edits[direct[Top.alg]] \in Nat)
    BY <1>1, <2>1 DEF Objects
  <2>3. direct[Top.alg] # None => direct[Top.alg] \in Objects
    BY <1>1, <2>1 DEF Objects
  <2>4. <<Top.alg, edits[Top.alg], Top.key>> \in Items
    BY <1>1, <2>2 DEF Items, Objects, Keys
  <2>5. direct[Top.alg] # None => <<direct[Top.alg], edits[direct[Top.alg]], 0>> \in Items
    BY <2>2, <2>3 DEF Items
  <2>6. Added(Top.alg, Top.key) \subseteq Items
    BY <2>4, <2>5 DEF Added
  <2>7. ASSUME NEW p \in ToSet(producers[Top.alg]) PROVE out[p].content \subseteq Items
    <3>1. p \in Algorithms
      BY <2>1 DEF ToSet
    <3>2. out[p] \in Output
      BY <2>1, <3>1
    <3> QED BY <3>2 DEF Output
  <2> QED BY <1>2, <2>6, <2>7 DEF Computed
<1>4. c # {}
  BY <1>2 DEF Computed, Added
<1>5. PICK o : o = [content |-> c, time |-> clock + 1, input |-> Top.input, mtime |-> Top.read,
                    key |-> Top.key]
  OBVIOUS
<1>6. o \in Output
  <2>1. clock + 1 \in Nat
    BY DEF Types
  <2>2. Top.key \in {0, 1, 2}
    BY <1>1 DEF Keys
  <2> QED BY <1>1, <1>3, <1>5, <2>1, <2>2 DEF Output
<1>7. out' = [out EXCEPT ![Top.alg] = o]
  BY <1>2, <1>5 DEF Execute
<1>8. out \in [Algorithms -> Output]
  BY DEF Types
<1>9. out'[Top.alg] = o /\ out' \in [Algorithms -> Output]
      /\ \A b \in Algorithms : b # Top.alg => out'[b] = out[b]
  BY <1>1, <1>6, <1>7, <1>8
<1>10. o.content = c /\ o.mtime = Top.read /\ o.key = Top.key
  BY <1>5
<1> QED BY <1>2, <1>4, <1>9, <1>10

\* No output is lost by the walk.
DataStays == \A b \in Algorithms : HasData(b) => HasData(b)'

LEMMA WalkData == ASSUME Types, Walk PROVE DataStays
<1>1. ~Idle
  BY DEF Walk
<1>2. CASE out' = out
  BY <1>2 DEF DataStays, HasData
<1>3. CASE Execute
  BY <1>1, <1>3, ExecutePublishes DEF DataStays, HasData
<1> QED BY <1>2, <1>3, WalkKeeps

LEMMA KeptParts ==
    ASSUME KeptInv, ~Idle
    PROVE  /\ \A q \in Handled : HasData(q[1])
           /\ stack[Len(stack)].phase = "child" =>
                  HasData(ProducerOf(stack[Len(stack)], stack[Len(stack)].next))
BY DEF KeptInv, KeptOK, Idle, Handled

LEMMA LastFrame == ASSUME stack # <<>> PROVE stack[Len(stack)] = Top
BY DEF Top, Last

LEMMA WalkKept == ASSUME Types, StackInv, AskedInv, KeptInv, Walk PROVE KeptInv'
<1> SUFFICES ASSUME ~Idle' PROVE KeptInv'
  BY DEF KeptInv, KeptOK, Idle
<1>0. ~Idle /\ Moves /\ Keeps /\ TopRequest[1] = Top.alg /\ UNCHANGED <<direct, producers>>
  BY WalkMoves, WalkKeeps DEF TopRequest, Keeps
<1>1. ASSUME NEW q \in Handled PROVE HasData(q[1])'
  BY <1>0, KeptParts, HandledTyped, WalkData DEF DataStays
<1>2. CASE \E f \in FrameRecord : Goes(f)
  <2>1. PICK f \in FrameRecord : Goes(f)
    BY <1>2
  <2>2. stack'[Len(stack')] = f /\ f.phase # "child"
    BY <1>0, <2>1, ReplacedStack DEF Goes
  <2>0. PICK a \in Algorithms : a = Top.alg
    BY <1>0, TopIs, FrameFields
  <2>3. ASSUME Execute \/ Published(Top, MTime(Top.alg)) PROVE HasData(a)'
    <3>1. CASE Execute
      BY <3>1, <2>0, <1>0, ExecutePublishes DEF HasData
    <3>2. CASE Published(Top, MTime(Top.alg))
      <4>1. HasData(a)
        BY <3>2, <2>0 DEF Published, HasData
      <4> QED BY <4>1, WalkData DEF DataStays
    <3> QED BY <2>3, <3>1, <3>2
  <2>4. ASSUME NEW q \in Handled' PROVE HasData(q[1])'
    <3>1. CASE q \in Handled
      BY <3>1, <1>1
    <3>2. CASE q \notin Handled
      <4>1. Handled' = Handled \cup {TopRequest} /\ (Execute \/ Published(Top, MTime(Top.alg)))
        BY <3>2, <2>1, <2>4 DEF Goes
      <4>2. q[1] = a
        BY <4>1, <3>2, <2>0, <1>0
      <4>3. HasData(a)'
        BY <4>1, <2>3
      <4> QED BY <4>2, <4>3 DEF HasData
    <3> QED BY <3>1, <3>2
  <2> QED BY <2>2, <2>4 DEF KeptInv, KeptOK, Handled
<1>3. CASE \E f, g \in FrameRecord : Descends(f, g)
  <2>1. PICK f \in FrameRecord, g \in FrameRecord : Descends(f, g)
    BY <1>3
  <2>2. stack'[Len(stack')].phase = "enter" /\ Handled' = Handled
    BY <1>0, <2>1, PushedStack, HandledSame DEF Descends
  <2> QED BY <2>2, <1>1 DEF KeptInv, KeptOK, Handled
<1>4. CASE Leaves
  <2>1. Handled' = Handled \cup {TopRequest} /\ Pop /\ out' = out
    BY <1>0, <1>4, LeavesHandled
  <2>2. HasData(Top.alg)
    <3>1. CASE Top.phase = "ended"
      <4>1. TopRequest \in Handled
        BY <3>1, <1>0, <1>4, TopAsked DEF Leaves
      <4> QED BY <4>1, <1>0, KeptParts
    <3>2. CASE TopRequest \in Handled
      BY <3>2, <1>0, KeptParts
    <3>3. CASE Top.phase # "ended" /\ TopRequest \notin Handled
      BY <3>3, <1>4 DEF Leaves, Valid, Published, HasData
    <3> QED BY <3>1, <3>2, <3>3
  <2>3. \A q \in Handled' : HasData(q[1])'
    BY <1>0, <1>1, <2>1, <2>2 DEF HasData
  <2>4. ProducerOf(Top', Top'.next) = Top.alg /\ stack'[Len(stack')] = Top'
    BY <1>0, <2>1, Leaving
  <2>5. HasData(ProducerOf(stack[Len(stack)], stack[Len(stack)].next))'
    BY <1>0, <2>1, <2>2, <2>4 DEF HasData, ProducerOf
  <2> QED BY <2>3, <2>5 DEF KeptInv, KeptOK, Handled
<1>5. CASE Ends
  BY <1>5 DEF Ends, Idle
<1> QED BY <1>0, <1>2, <1>3, <1>4, <1>5 DEF Moves

-----------------------------------------------------------------------------
(* One request of every algorithm *)

LEMMA WalkOne == ASSUME Types, Walk, OneRequest, ~masked' PROVE OneRequest'
<1>1. CASE asked' = asked
  BY <1>1 DEF OneRequest
<1>2. CASE Ask(Top.alg, Top.key)
  <2>1. asked' = asked \cup {TopRequest} /\ \A q \in asked : ~(q[1] = Top.alg /\ q[2] # Top.key)
    BY <1>2 DEF Ask, TopRequest
  <2>2. ASSUME NEW q \in asked, q[1] = TopRequest[1] PROVE q = TopRequest
    <3>1. q[1] = Top.alg /\ q[2] = Top.key
      BY <2>1, <2>2 DEF TopRequest
    <3> QED BY <3>1, AskedTyped DEF TopRequest
  <2> QED BY <2>1, <2>2 DEF OneRequest
<1> QED BY <1>1, <1>2, WalkAsks

-----------------------------------------------------------------------------
(* The times that frames took *)

LEMMA MTimeStays == ASSUME UNCHANGED <<stamp, parameter>> PROVE \A a : MTime(a)' = MTime(a)
BY DEF MTime

LEMMA TimesParts ==
    ASSUME TimesInv, ~Idle
    PROVE  \A i \in DOMAIN stack :
               Entered(stack[i]) /\ (stack[i].alg # outcome.root \/ calm)
                   => stack[i].mtime = MTime(stack[i].alg)
BY DEF TimesInv, TimesOK, Idle

LEMMA WalkTimes == ASSUME Types, StackInv, TimesInv, Walk PROVE TimesInv'
<1> SUFFICES ASSUME ~Idle' PROVE TimesInv'
  BY DEF TimesInv, TimesOK, Idle
<1>0. ~Idle /\ Moves /\ Keeps /\ UNCHANGED <<stamp, parameter, direct, producers, calm>>
  BY WalkMoves, WalkKeeps DEF Keeps
<1>1. PICK n : n = Len(stack) /\ n \in Nat \ {0} /\ DOMAIN stack = 1..n /\ Top = stack[n]
               /\ n \in DOMAIN stack
  BY <1>0, TopIs
<1>2. PICK r : r = outcome.root
  OBVIOUS
<1> DEFINE Timely(f) == Entered(f) /\ (f.alg # r \/ calm) => f.mtime = MTime(f.alg)
<1>3. \A i \in DOMAIN stack : Timely(stack[i])
  BY <1>0, <1>2, TimesParts
<1>4. ASSUME outcome'.root = r, \A i \in DOMAIN stack' : Timely(stack'[i]) PROVE TimesInv'
  <2>1. \A a : MTime(a)' = MTime(a)
    BY <1>0, MTimeStays
  <2> QED BY <1>0, <1>4, <2>1 DEF TimesInv, TimesOK, Entered
<1> HIDE DEF Timely
<1>5. CASE \E f \in FrameRecord : Goes(f)
  <2>1. PICK f \in FrameRecord : Goes(f)
    BY <1>5
  <2>2. DOMAIN stack' = DOMAIN stack /\ stack'[n] = f
        /\ \A i \in DOMAIN stack : i # n => stack'[i] = stack[i]
    BY <1>0, <1>1, <2>1, ReplacedStack DEF Goes
  <2>3. Timely(f)
    <3>1. Timely(Top)
      BY <1>1, <1>3
    <3> QED BY <2>1, <3>1 DEF Timely, Goes, Entered
  <2>4. outcome'.root = r
    BY <2>1, <1>2 DEF Goes
  <2> QED BY <1>3, <1>4, <2>2, <2>3, <2>4
<1>6. CASE \E f, g \in FrameRecord : Descends(f, g)
  <2>1. PICK f \in FrameRecord, g \in FrameRecord : Descends(f, g)
    BY <1>6
  <2>2. /\ DOMAIN stack' = 1..(n + 1) /\ stack'[n + 1] = g /\ stack'[n] = f
        /\ \A i \in 1..n : i # n => stack'[i] = stack[i]
    BY <1>0, <1>1, <2>1, PushedStack DEF Descends
  <2>3. Timely(f) /\ Timely(g)
    <3>1. Timely(Top)
      BY <1>1, <1>3
    <3> QED BY <2>1, <3>1 DEF Timely, Descends, Entered
  <2>4. outcome'.root = r
    BY <2>1, <1>2 DEF Descends
  <2>5. ASSUME NEW i \in DOMAIN stack' PROVE Timely(stack'[i])
    <3>1. i = n + 1 \/ i = n \/ (i \in 1..n /\ i # n)
      BY <1>1, <2>2
    <3> QED BY <3>1, <2>2, <2>3, <1>1, <1>3
  <2> QED BY <1>4, <2>4, <2>5
<1>7. CASE Leaves
  <2>1. Pop
    BY <1>7 DEF Leaves
  <2>2. \A i \in DOMAIN stack' : i \in DOMAIN stack /\ stack'[i] = stack[i]
    BY <1>0, <2>1, PoppedStack DEF Pop
  <2>3. outcome' = outcome
    BY <1>0, <2>1, Leaving
  <2> QED BY <1>2, <1>3, <1>4, <2>2, <2>3
<1>8. CASE Ends
  BY <1>8 DEF Ends, Idle
<1> QED BY <1>0, <1>5, <1>6, <1>7, <1>8 DEF Moves

-----------------------------------------------------------------------------
(* What happens once *)

HandledValid == \A q \in Handled : Valid(q[1]) /\ out[q[1]].key = q[2]

FrameOnce(f) ==
    /\ f.phase = "data" => f.read = MTime(f.alg)
    /\ Executing(f) => <<f.alg, f.key>> \notin Handled

LEMMA OnceParts ==
    OnceInv <=> ((~Idle /\ calm) => HandledValid /\ \A i \in DOMAIN stack : FrameOnce(stack[i]))
BY DEF OnceInv, OnceOK, HandledValid, FrameOnce, Idle, Handled

\* A valid output of a request that was asked for stays so.
ValidStays ==
    \A q \in asked : Valid(q[1]) /\ out[q[1]].key = q[2] => Valid(q[1])' /\ out'[q[1]].key = q[2]

LEMMA WalkValidStays ==
    ASSUME Types, StackInv, AskedInv, OneRequest, OnceInv, calm, Walk
    PROVE  ValidStays
<1>0. ~Idle /\ UNCHANGED <<stamp, parameter>> /\ \A a : MTime(a)' = MTime(a)
  BY WalkMoves, WalkKeeps, MTimeStays DEF Keeps
<1> SUFFICES ASSUME NEW a, NEW k, <<a, k>> \in asked, Valid(a), out[a].key = k
             PROVE  Valid(a)' /\ out'[a].key = k
  BY AskedTyped DEF ValidStays, Valid, HasData
<1>1. CASE ~Execute
  BY <1>0, <1>1, WalkKeeps DEF Valid, HasData
<1>2. CASE Execute /\ a # Top.alg
  <2>1. a \in Algorithms
    BY DEF Types
  <2>2. out'[a] = out[a]
    BY <1>0, <1>2, <2>1, ExecutePublishes
  <2> QED BY <1>0, <2>2 DEF Valid, HasData
<1>3. CASE Execute /\ a = Top.alg
  <2>0. Top.phase = "data"
    BY <1>3 DEF Execute
  <2>1. TopRequest \in asked
    BY <1>0, <2>0, TopAsked DEF Entered
  <2>2. <<a, k>> = TopRequest
    BY <2>1, <1>3 DEF OneRequest, TopRequest
  <2>3. FrameOnce(Top)
    BY <1>0, OnceParts, TopIs
  <2>4. Top.read = MTime(a)
    BY <2>0, <2>3, <1>3 DEF FrameOnce
  <2>5. out'[a].content # {} /\ out'[a].mtime = MTime(a) /\ out'[a].key = k
    BY <1>0, <1>3, <2>2, <2>4, ExecutePublishes DEF TopRequest
  <2> QED BY <1>0, <2>5 DEF Valid, HasData
<1> QED BY <1>1, <1>2, <1>3

\* The frames that are not the last one.
LEMMA OtherFramesOnce ==
    ASSUME Types, PipelineGiven, NoCycles, StackInv, ~Idle, UNCHANGED <<stamp, parameter>>,
           Handled' \subseteq Handled \cup {TopRequest},
           NEW i \in DOMAIN stack, i # Len(stack), FrameOnce(stack[i]), NEW f, f = stack[i]
    PROVE  FrameOnce(f)'
<1>1. f.alg # Top.alg
  BY TopIs, FramesApart
<1>2. <<f.alg, f.key>> # TopRequest
  BY <1>1 DEF TopRequest
<1>3. Executing(f) => <<f.alg, f.key>> \notin Handled'
  BY <1>2 DEF FrameOnce
<1>4. f.phase = "data" => f.read = MTime(f.alg)'
  BY DEF FrameOnce, MTime
<1> QED BY <1>3, <1>4 DEF FrameOnce, MTime, Executing

LEMMA WalkOnce ==
    ASSUME Types, PipelineGiven, NoCycles, StackInv, AskedInv, TimesInv, OneRequest, OnceInv, Walk
    PROVE  OnceInv'
<1> SUFFICES ASSUME ~Idle', calm'
             PROVE  HandledValid' /\ (\A i \in DOMAIN stack : FrameOnce(stack[i]))'
  BY DEF OnceInv, OnceOK, HandledValid, FrameOnce, Idle, Handled
<1>0. /\ ~Idle /\ Moves /\ Keeps /\ UNCHANGED <<stamp, parameter, direct, producers, calm>> /\ calm
      /\ \A a : MTime(a)' = MTime(a)
  BY WalkMoves, WalkKeeps, MTimeStays DEF Keeps
<1>1. PICK n : n = Len(stack) /\ n \in Nat \ {0} /\ DOMAIN stack = 1..n /\ Top = stack[n]
               /\ n \in DOMAIN stack
  BY <1>0, TopIs
<1>2. PICK a \in Algorithms, k \in Keys : a = Top.alg /\ k = Top.key /\ TopRequest = <<a, k>>
  BY <1>0, TopIs, FrameFields DEF TopRequest
<1>3. HandledValid /\ \A i \in DOMAIN stack : FrameOnce(stack[i])
  BY <1>0, OnceParts
<1>4. FrameOnce(Top)
  BY <1>1, <1>3
<1>5. ASSUME NEW q \in Handled PROVE Valid(q[1])' /\ out'[q[1]].key = q[2]
  <2>1. q \in asked /\ Valid(q[1]) /\ out[q[1]].key = q[2]
    BY <1>0, <1>3, AskedParts DEF HandledValid
  <2> QED BY <2>1, <1>0, WalkValidStays DEF ValidStays
<1>6. ASSUME Handled' \subseteq Handled \cup {TopRequest},
             TopRequest \in Handled' \ Handled => Valid(a)' /\ out'[a].key = k
      PROVE  HandledValid'
  <2>1. ASSUME NEW q \in Handled' PROVE Valid(q[1])' /\ out'[q[1]].key = q[2]
    <3>1. CASE q \in Handled
      BY <3>1, <1>5
    <3>2. CASE q \notin Handled
      <4>1. q = TopRequest /\ q[1] = a /\ q[2] = k
        BY <3>2, <1>2, <1>6
      <4>2. Valid(a)' /\ out'[a].key = k
        BY <4>1, <3>2, <1>6
      <4> QED BY <4>1, <4>2 DEF Valid, HasData, MTime
    <3> QED BY <3>1, <3>2
  <2> QED BY <2>1 DEF HandledValid
<1>7. ASSUME Handled' \subseteq Handled \cup {TopRequest}, NEW i \in DOMAIN stack, i # n,
             NEW g, g = stack[i]
      PROVE  FrameOnce(g)'
  BY <1>0, <1>1, <1>3, <1>7, OtherFramesOnce
<1>8. CASE \E f \in FrameRecord : Goes(f)
  <2>1. PICK f \in FrameRecord : Goes(f)
    BY <1>8
  <2>2. DOMAIN stack' = DOMAIN stack /\ stack'[n] = f
        /\ \A i \in DOMAIN stack : i # n => stack'[i] = stack[i]
    BY <1>0, <1>1, <2>1, ReplacedStack DEF Goes
  <2>3. Handled' \subseteq Handled \cup {TopRequest}
    BY <2>1 DEF Goes
  <2>4. ASSUME TopRequest \in Handled' \ Handled PROVE Valid(a)' /\ out'[a].key = k
    <3>1. Execute \/ Published(Top, MTime(Top.alg))
      BY <2>1, <2>4 DEF Goes
    <3>2. CASE Execute
      <4>1. Top.read = MTime(a)
        BY <3>2, <1>2, <1>4 DEF Execute, FrameOnce
      <4>2. out'[a].content # {} /\ out'[a].mtime = MTime(a) /\ out'[a].key = k
        BY <1>0, <1>2, <3>2, <4>1, ExecutePublishes
      <4> QED BY <4>2, <1>0 DEF Valid, HasData
    <3>3. CASE ~Execute
      <4>1. out' = out /\ Published(Top, MTime(Top.alg))
        BY <3>1, <3>3, WalkKeeps
      <4> QED BY <4>1, <1>0, <1>2 DEF Published, Valid, HasData
    <3> QED BY <3>2, <3>3
  <2>5. HandledValid'
    BY <1>6, <2>3, <2>4
  <2>6. Executing(f) => TopRequest \notin Handled'
    <3> SUFFICES ASSUME Executing(f), TopRequest \in Handled' PROVE FALSE
      OBVIOUS
    <3>1. Handled' = Handled /\ f.phase # "ended"
      BY <2>1 DEF Goes, Executing
    <3>2. CASE Top.phase = "enter"
      <4>1. Valid(a) /\ out[a].key = k
        BY <3>1, <1>2, <1>3 DEF HandledValid
      <4>2. Cached(Top)
        BY <4>1, <1>2 DEF Cached, Valid, HasData
      <4> QED BY <4>2, <3>2, <2>1 DEF Goes
    <3>3. CASE Top.phase # "enter"
      <4>1. Executing(Top)
        BY <3>1, <3>3, <2>1 DEF Goes, Executing, InputsDone
      <4> QED BY <4>1, <3>1, <1>4 DEF FrameOnce, TopRequest
    <3> QED BY <3>2, <3>3
  <2>7. FrameOnce(f)'
    <3>1. f.phase = "data" => f.read = MTime(f.alg)'
      BY <2>1, <1>0 DEF Goes
    <3>2. <<f.alg, f.key>> = TopRequest
      BY <2>1 DEF Goes, TopRequest
    <3> QED BY <2>6, <3>1, <3>2 DEF FrameOnce, Executing, MTime
  <2>8. ASSUME NEW i \in DOMAIN stack' PROVE FrameOnce(stack[i])'
    <3>1. PICK g : g = stack'[i]
      OBVIOUS
    <3>2. FrameOnce(g)'
      BY <3>1, <2>2, <2>3, <2>7, <1>7
    <3> QED BY <3>1, <3>2 DEF FrameOnce, Executing, MTime
  <2> QED BY <2>5, <2>8
<1>9. CASE \E f, g \in FrameRecord : Descends(f, g)
  <2>1. PICK f \in FrameRecord, g \in FrameRecord : Descends(f, g)
    BY <1>9
  <2>2. /\ DOMAIN stack' = 1..(n + 1) /\ stack'[n + 1] = g /\ stack'[n] = f
        /\ \A i \in 1..n : i # n => stack'[i] = stack[i]
    BY <1>0, <1>1, <2>1, PushedStack DEF Descends
  <2>3. Handled' = Handled
    BY <2>1, HandledSame DEF Descends
  <2>4. HandledValid'
    BY <1>6, <2>3
  <2>5. FrameOnce(f)' /\ FrameOnce(g)'
    <3>1. Executing(Top) /\ <<f.alg, f.key>> = TopRequest /\ f.phase = "child" /\ g.phase = "enter"
      BY <2>1 DEF Descends, Executing, TopRequest
    <3>2. TopRequest \notin Handled'
      BY <3>1, <2>3, <1>4 DEF FrameOnce, TopRequest
    <3> QED BY <3>1, <3>2 DEF FrameOnce, Executing, MTime
  <2>6. ASSUME NEW i \in DOMAIN stack' PROVE FrameOnce(stack[i])'
    <3>1. PICK h : h = stack'[i]
      OBVIOUS
    <3>2. i = n + 1 \/ i = n \/ (i \in 1..n /\ i # n)
      BY <1>1, <2>2
    <3>3. FrameOnce(h)'
      BY <3>1, <3>2, <2>2, <2>3, <2>5, <1>1, <1>7
    <3> QED BY <3>1, <3>3 DEF FrameOnce, Executing, MTime
  <2> QED BY <2>4, <2>6
<1>10. CASE Leaves
  <2>1. Handled' = Handled \cup {TopRequest} /\ Pop /\ out' = out
    BY <1>0, <1>10, LeavesHandled
  <2>2. ASSUME TopRequest \in Handled' \ Handled PROVE Valid(a)' /\ out'[a].key = k
    <3>1. Valid(a) /\ out[a].key = k
      <4>1. CASE Top.phase = "enter"
        BY <4>1, <1>2, <1>10 DEF Leaves
      <4>2. CASE Top.phase = "inputs"
        <5>1. Published(Top, Top.mtime)
          BY <4>2, <2>2, <1>10 DEF Leaves
        <5>2. Top.mtime = MTime(a)
          BY <4>2, <1>0, <1>1, <1>2, TimesParts DEF Entered
        <5> QED BY <5>1, <5>2, <1>2 DEF Published, Valid, HasData
      <4>3. CASE Top.phase = "ended"
        <5>1. TopRequest \in Handled
          BY <4>3, <1>0, <1>10, TopAsked DEF Leaves
        <5> QED BY <5>1, <2>2
      <4> QED BY <4>1, <4>2, <4>3, <1>10 DEF Leaves
    <3> QED BY <3>1, <2>1, <1>0 DEF Valid, HasData
  <2>3. HandledValid'
    BY <1>6, <2>1, <2>2
  <2>4. \A i \in DOMAIN stack' : i # n /\ i \in DOMAIN stack /\ stack'[i] = stack[i]
    <3>1. DOMAIN stack' = 1..(n - 1)
      BY <1>0, <1>1, <2>1, PoppedStack DEF Pop
    <3>2. \A i \in 1..(n - 1) : i # n
      BY <1>1
    <3> QED BY <1>0, <2>1, <3>1, <3>2, PoppedStack DEF Pop
  <2>5. ASSUME NEW i \in DOMAIN stack' PROVE FrameOnce(stack[i])'
    <3>1. PICK g : g = stack'[i] /\ g = stack[i] /\ i \in DOMAIN stack /\ i # n
      BY <2>4
    <3>2. FrameOnce(g)'
      BY <3>1, <2>1, <1>7
    <3> QED BY <3>1, <3>2 DEF FrameOnce, Executing, MTime
  <2> QED BY <2>3, <2>5
<1>11. CASE Ends
  BY <1>11 DEF Ends, Idle
<1> QED BY <1>0, <1>8, <1>9, <1>10, <1>11 DEF Moves

-----------------------------------------------------------------------------
(* The types, and what needs nothing else *)

\* What a call of the program does: it starts an update, or it leaves the walks alone.
Starts == \E r \in Algorithms, k \in Keys : Update(r, k)
Rewires == \E a \in Algorithms : Rewired(a)
Changes == \E x \in Objects : Edit(x)
Sets == \E a \in Algorithms : EditParameter(a)
Releases == \E a \in Algorithms : ReleaseOutput(a)
Signals == UNCHANGED <<clock, stamp, parameter, edits, direct, producers, out, updating, stack,
                       suspended, visited, outcome, asked, calm, masked>>

\* The inputs that an operation gives to a.
NewInputs ==
    \E a \in Algorithms, s \in Seq(Algorithms), d \in Data \cup {None} :
        /\ Rewired(a)
        /\ producers' = [producers EXCEPT ![a] = s]
        /\ direct' = [direct EXCEPT ![a] = d]

LEMMA ProgramInputs ==
    ASSUME Types, NEW a \in Algorithms,
           \/ ClearInput(a)
           \/ \E b \in Algorithms : SetConnection(a, b) \/ AddConnection(a, b)
           \/ \E i \in DOMAIN producers[a] : RemoveConnection(a, i)
           \/ \E d \in Data : SetData(a, d)
    PROVE  NewInputs
<1>0. <<>> \in Seq(Algorithms) /\ producers[a] \in Seq(Algorithms)
      /\ direct \in [Algorithms -> Data \cup {None}] /\ None \in Data \cup {None}
  BY DEF Types
<1>1. CASE ClearInput(a)
  BY <1>0, <1>1 DEF ClearInput, NewInputs
<1>2. CASE \E b \in Algorithms : SetConnection(a, b) \/ AddConnection(a, b)
  <2>1. PICK b \in Algorithms, kept \in Seq(Algorithms) : Connect(a, b, kept)
    BY <1>0, <1>2 DEF SetConnection, AddConnection
  <2>2. Append(kept, b) \in Seq(Algorithms)
    OBVIOUS
  <2> QED BY <1>0, <2>1, <2>2 DEF Connect, NewInputs
<1>3. CASE \E i \in DOMAIN producers[a] : RemoveConnection(a, i)
  <2>1. PICK i \in DOMAIN producers[a] : RemoveConnection(a, i)
    BY <1>3
  <2>2. RemoveAt(producers[a], i) \in Seq(Algorithms)
    BY <1>0 DEF RemoveAt
  <2>3. producers' = [producers EXCEPT ![a] = RemoveAt(producers[a], i)]
    BY <2>1 DEF RemoveConnection
  <2>4. direct' = [direct EXCEPT ![a] = direct[a]] /\ direct[a] \in Data \cup {None} /\ Rewired(a)
    BY <1>0, <2>1 DEF RemoveConnection
  <2> QED BY <2>2, <2>3, <2>4 DEF NewInputs
<1>4. CASE \E d \in Data : SetData(a, d)
  BY <1>0, <1>4 DEF SetData, NewInputs
<1> QED BY <1>1, <1>2, <1>3, <1>4

LEMMA ProgramCases ==
    ASSUME Types, Program
    PROVE  Changes \/ Sets \/ NewInputs \/ Releases \/ Signals \/ Starts
<1>1. ASSUME NEW a \in Algorithms, Abort(a) PROVE Signals
  BY <1>1 DEF Abort, Signals, graphVars
<1>2. ASSUME ClearAbort PROVE Signals
  BY <1>2 DEF ClearAbort, Signals, graphVars
<1>3. ASSUME Cancel PROVE Signals
  BY <1>3 DEF Cancel, Signals, graphVars
<1> QED BY <1>1, <1>2, <1>3, ProgramInputs DEF Program, Changes, Sets, Releases, Starts

\* Every call that starts no update leaves the walks as they are.
LEMMA ProgramWalks ==
    ASSUME Changes \/ Sets \/ NewInputs \/ Releases \/ Signals
    PROVE  UNCHANGED <<updating, stack, suspended, visited, outcome, asked>>
BY DEF Changes, Sets, NewInputs, Releases, Signals, Edit, EditParameter, Rewired, ReleaseOutput,
       walkVars

LEMMA FirstWalk ==
    ASSUME Types, NEW r \in Algorithms, NEW k \in Keys, Update(r, k)
    PROVE  /\ stack' \in Seq(FrameRecord) /\ stack' = <<Frame(r, k)>> /\ ~Idle'
           /\ suspended' \in Seq(WalkRecord) /\ Suspension \in WalkRecord
           /\ outcome' \in Outcomes
           /\ outcome'.result = "none" /\ outcome'.root = r /\ outcome'.key = k
<1>1. stack' = <<Frame(r, k)>> /\ Frame(r, k) \in FrameRecord
  BY FirstFrame DEF Update
<1>2. Suspension \in WalkRecord
  BY DEF Types, Suspension, WalkRecord
<1>3. suspended' = suspended \/ suspended' = Append(suspended, Suspension)
  BY DEF Update
<1>4. suspended' \in Seq(WalkRecord)
  <2>1. suspended \in Seq(WalkRecord)
    BY DEF Types
  <2>2. PICK w \in WalkRecord : w = Suspension
    BY <1>2
  <2>3. Append(suspended, w) \in Seq(WalkRecord)
    BY <2>1
  <2> QED BY <1>3, <2>1, <2>2, <2>3
<1>5. outcome' = [result |-> "none", root |-> r, key |-> k]
  BY DEF Update
<1>6. outcome' \in Outcomes
  BY <1>5 DEF Outcomes
<1> QED BY <1>1, <1>2, <1>4, <1>5, <1>6 DEF Idle

LEMMA ProgramTypes == ASSUME Types, Program PROVE Types'
<1>0. clock + 1 \in Nat /\ FALSE \in BOOLEAN
  BY DEF Types
<1>1. aborted' \subseteq Algorithms /\ cancelled' \in BOOLEAN
  <2>1. ASSUME NEW a, Rewired(a) PROVE UNCHANGED <<aborted, cancelled>>
    BY <2>1 DEF Rewired, walkVars
  <2>2. aborted \subseteq Algorithms /\ cancelled \in BOOLEAN
    BY DEF Types
  <2> QED BY <2>1, <2>2 DEF Program, Edit, EditParameter, ClearInput, ReleaseOutput, Abort,
                 SetConnection, AddConnection, Connect, RemoveConnection, SetData, Update,
                 ClearAbort, Cancel, walkVars
<1>2. CASE Changes
  <2>1. PICK x \in Objects : Edit(x)
    BY <1>2 DEF Changes
  <2>2. stamp' \in [Objects -> Nat]
    BY <2>1, ModifiedTimes DEF Edit
  <2>3. edits' \in [Objects -> Nat]
    BY <2>1 DEF Edit, Types
  <2>4. masked' \in BOOLEAN /\ calm' \in BOOLEAN /\ clock' \in Nat
    BY <2>1, <1>0 DEF Edit, Touch, Types
  <2>5. UNCHANGED <<parameter, direct, producers, out>>
    BY <2>1 DEF Edit, graphVars
  <2> QED BY <1>1, <1>2, <2>2, <2>3, <2>4, <2>5, ProgramWalks DEF Types
<1>3. CASE Sets
  <2>1. PICK a \in Algorithms : EditParameter(a)
    BY <1>3 DEF Sets
  <2>2. parameter' \in [Algorithms -> Nat]
    BY <2>1, <1>0 DEF EditParameter, Types
  <2>3. edits' \in [Objects -> Nat]
    BY <2>1 DEF EditParameter, Types, Objects
  <2>4. masked' \in BOOLEAN /\ calm' \in BOOLEAN /\ clock' \in Nat
    BY <2>1, <1>0 DEF EditParameter, Touch, Types
  <2>5. UNCHANGED <<stamp, direct, producers, out>>
    BY <2>1 DEF EditParameter, graphVars
  <2> QED BY <1>1, <1>3, <2>2, <2>3, <2>4, <2>5, ProgramWalks DEF Types
<1>4. CASE NewInputs
  <2>1. PICK a \in Algorithms, s \in Seq(Algorithms), d \in Data \cup {None} :
            /\ Rewired(a)
            /\ producers' = [producers EXCEPT ![a] = s]
            /\ direct' = [direct EXCEPT ![a] = d]
    BY <1>4 DEF NewInputs
  <2>2. stamp' \in [Objects -> Nat]
    BY <2>1, ModifiedTimes DEF Rewired, Objects
  <2>3. producers' \in [Algorithms -> Seq(Algorithms)]
        /\ direct' \in [Algorithms -> Data \cup {None}]
    BY <2>1 DEF Types
  <2>4. masked' \in BOOLEAN /\ calm' \in BOOLEAN /\ clock' \in Nat
    BY <2>1, <1>0 DEF Rewired, Disturb, Types
  <2>5. UNCHANGED <<parameter, edits, out>>
    BY <2>1 DEF Rewired
  <2> QED BY <1>1, <1>4, <2>1, <2>2, <2>3, <2>4, <2>5, ProgramWalks DEF Types
<1>5. CASE Releases
  <2>1. PICK a \in Algorithms : ReleaseOutput(a)
    BY <1>5 DEF Releases
  <2>2. Empty \in Output
    BY DEF Empty, Output
  <2>3. out' \in [Algorithms -> Output]
    BY <2>1, <2>2 DEF ReleaseOutput, Types
  <2>4. masked' \in BOOLEAN /\ calm' \in BOOLEAN
    BY <2>1, <1>0 DEF ReleaseOutput, Disturb, Types
  <2>5. UNCHANGED <<clock, stamp, parameter, edits, direct, producers>>
    BY <2>1 DEF ReleaseOutput, graphVars
  <2> QED BY <1>1, <1>5, <2>3, <2>4, <2>5, ProgramWalks DEF Types
<1>6. CASE Signals
  BY <1>1, <1>6 DEF Signals, Types
<1>7. CASE Starts
  <2>1. PICK r \in Algorithms, k \in Keys : Update(r, k)
    BY <1>7 DEF Starts
  <2>2. stack' \in Seq(FrameRecord) /\ suspended' \in Seq(WalkRecord) /\ outcome' \in Outcomes
    BY <2>1, FirstWalk
  <2>3. visited' = {} /\ calm' = TRUE /\ (asked' = {} \/ asked' = asked)
        /\ UNCHANGED <<clock, stamp, parameter, edits, direct, producers, out, updating, masked>>
    BY <2>1 DEF Update, graphVars
  <2> QED BY <1>1, <2>2, <2>3 DEF Types
<1> QED BY <1>2, <1>3, <1>4, <1>5, <1>6, <1>7, ProgramCases

LEMMA WalkVisits == ASSUME Types, Walk PROVE visited' \in SUBSET Visits
<1>0. ~Idle /\ Top.alg \in Algorithms /\ Top.key \in Keys /\ Top.input \in Nat /\ Top.mtime \in Nat
  BY TopIs, FrameFields DEF Walk
<1>1. ASSUME NEW t \in Nat, NEW m \in Nat, visited' = visited \cup {Visit(Top.alg, t, m, Top.key)}
      PROVE  visited' \in SUBSET Visits
  BY <1>0, <1>1 DEF Visit, Visits, Types
<1>2. CASE EnterCached
  <2>1. PICK t : t = out[Top.alg].input /\ t \in Nat
    BY <1>0 DEF Types, Output
  <2>2. PICK m : m = MTime(Top.alg) /\ m \in Nat
    BY <1>0, TimesAreNat
  <2> QED BY <1>1, <1>2, <2>1, <2>2 DEF EnterCached
<1>3. CASE Visiting(Top)
  BY <1>0, <1>1, <1>3 DEF Visiting
<1>4. CASE visited' = visited
  BY <1>4 DEF Types
<1>5. EnterCached \/ Visiting(Top) \/ visited' = visited
  BY DEF Walk, EnterRefused, EnterReentrant, Enter, InputMissing, Descend, AfterChild,
         NothingProduced, Skip, Start, StageRefused, Stage, StagePublished, ExecuteFails, Execute,
         Stop, End, EndFailed, Fail
<1> QED BY <1>2, <1>3, <1>4, <1>5

LEMMA WalkOutcome == ASSUME Types, Walk PROVE outcome' \in Outcomes
<1>0. ~Idle
  BY DEF Walk
<1>1. ASSUME NEW result, result \in Failures \/ result = outcome.result,
             outcome' = [outcome EXCEPT !.result = result]
      PROVE  outcome' \in Outcomes
  BY <1>1 DEF Types, Outcomes
<1>2. outcome \in Outcomes
  BY DEF Types
<1>3. CASE EnterRefused \/ EnterReentrant \/ InputMissing \/ NothingProduced \/ EndFailed
  <2>1. \E result : (result \in Failures \/ result = outcome.result) /\ Fail(result)
    BY <1>3 DEF EnterRefused, EnterReentrant, InputMissing, NothingProduced, EndFailed, Failures
  <2> QED BY <1>1, <2>1 DEF Fail
<1>4. CASE StageRefused \/ ExecuteFails \/ Execute
  <2>1. (\E result \in Failures : Stop(result)) \/ outcome' = outcome
    BY <1>4 DEF StageRefused, ExecuteFails, Execute, Failures
  <2> QED BY <1>1, <1>2, <2>1 DEF Stop
<1>5. CASE EnterCached \/ Skip \/ End
  <2>1. Pop
    BY <1>5 DEF EnterCached, Skip, End
  <2>2. "ok" \in {"ok"} \cup Failures
    OBVIOUS
  <2> QED BY <1>2, <2>1, <2>2, StopResult DEF Pop
<1>6. CASE Enter \/ Descend \/ AfterChild \/ Start \/ Stage \/ StagePublished
  BY <1>2, <1>6 DEF Enter, Descend, AfterChild, Start, Stage, StagePublished
<1> QED BY <1>3, <1>4, <1>5, <1>6 DEF Walk

LEMMA WalkTypes == ASSUME Types, Walk PROVE Types'
<1>0. ~Idle /\ Moves /\ Keeps /\ Top.alg \in Algorithms /\ Top.key \in Keys
  BY WalkMoves, WalkKeeps, TopIs, FrameFields
<1>1. UNCHANGED <<stamp, parameter, edits, direct, producers, suspended, calm, cancelled>>
  BY <1>0 DEF Keeps
<1>2. aborted' = aborted
  BY DEF Walk, EnterRefused, EnterReentrant, EnterCached, Enter, InputMissing, Descend, AfterChild,
         NothingProduced, Skip, Start, StageRefused, Stage, StagePublished, ExecuteFails, Execute,
         End, EndFailed, Fail
<1>3. asked' \subseteq Algorithms \X Keys
  BY <1>0, WalkAsks DEF Ask, Types
<1>4. masked' \in BOOLEAN
  <2>1. masked' = masked \/ Ask(Top.alg, Top.key)
    BY DEF Walk, EnterRefused, EnterReentrant, EnterCached, Enter, InputMissing, Descend,
           AfterChild, NothingProduced, Skip, Start, StageRefused, Stage, StagePublished,
           ExecuteFails, Execute, End, EndFailed, Fail
  <2> QED BY <2>1 DEF Ask, Types
<1>5. clock' \in Nat
  <2>1. Execute => clock' = clock + 1
    BY DEF Execute
  <2> QED BY <2>1, WalkKeeps DEF Types
<1>6. out' \in [Algorithms -> Output]
  BY <1>0, ExecutePublishes, WalkKeeps DEF Types
<1>7. stack' \in Seq(FrameRecord)
  <2>1. <<>> \in Seq(FrameRecord)
    OBVIOUS
  <2> QED BY <1>0, <2>1, ReplacedStack, PushedStack, PoppedStack
          DEF Moves, Goes, Descends, Leaves, Pop, Ends
<1>8. updating' \subseteq Algorithms
  <2>1. updating \subseteq Algorithms
    BY DEF Types
  <2>2. updating' \subseteq updating \cup {Top.alg}
    BY <1>0 DEF Moves, Goes, Descends, Leaves, Ends
  <2> QED BY <1>0, <2>1, <2>2
<1> QED BY <1>1, <1>2, <1>3, <1>4, <1>5, <1>6, <1>7, <1>8, WalkVisits, WalkOutcome DEF Types

\* The walk that waited longest goes on last.
LEMMA LastSuspended ==
    ASSUME Types, suspended # <<>>
    PROVE  /\ Len(suspended) \in Nat \ {0} /\ DOMAIN suspended = 1..Len(suspended)
           /\ Len(suspended) \in DOMAIN suspended
           /\ Last(suspended) = suspended[Len(suspended)] /\ Last(suspended) \in WalkRecord
           /\ Front(suspended) \in Seq(WalkRecord)
           /\ DOMAIN Front(suspended) = 1..(Len(suspended) - 1)
           /\ \A j \in DOMAIN Front(suspended) :
                  j \in DOMAIN suspended /\ Front(suspended)[j] = suspended[j]
<1>1. suspended \in Seq(WalkRecord)
  BY DEF Types
<1>2. PICK n : n = Len(suspended) /\ n \in Nat \ {0} /\ DOMAIN suspended = 1..n
  BY <1>1
<1>3. Last(suspended) = suspended[n] /\ suspended[n] \in WalkRecord
  BY <1>1, <1>2 DEF Last
<1>4. Front(suspended) = [j \in 1..(n - 1) |-> suspended[j]]
  BY <1>2 DEF Front
<1>5. \A j \in 1..(n - 1) : j \in 1..n /\ suspended[j] \in WalkRecord
  BY <1>1, <1>2
<1>6. n - 1 \in Nat
  BY <1>2
<1>7. Front(suspended) \in Seq(WalkRecord)
  BY <1>4, <1>5, <1>6
<1> QED BY <1>2, <1>3, <1>4, <1>5, <1>7

LEMMA ReturnTypes == ASSUME Types, Return PROVE Types'
<1>1. suspended # <<>>
  BY DEF Return
<1>2. PICK w \in WalkRecord : w = Last(suspended)
  BY <1>1, LastSuspended
<1>3. /\ stack' = w.stack /\ visited' = w.visited /\ outcome' = w.outcome
      /\ cancelled' = w.cancelled /\ calm' = (calm /\ w.calm) /\ suspended' = Front(suspended)
  BY <1>2 DEF Return
<1>4. /\ w.stack \in Seq(FrameRecord) /\ w.visited \in SUBSET Visits /\ w.outcome \in Outcomes
      /\ w.cancelled \in BOOLEAN /\ w.calm \in BOOLEAN
  BY DEF WalkRecord
<1>5. suspended' \in Seq(WalkRecord)
  BY <1>1, <1>3, LastSuspended
<1>6. UNCHANGED <<clock, stamp, parameter, edits, direct, producers, out, aborted, updating, asked,
                  masked>>
  BY DEF Return, graphVars
<1>7. calm' \in BOOLEAN
  BY <1>3
<1> QED BY <1>3, <1>4, <1>5, <1>6, <1>7 DEF Types

LEMMA StutterTypes == ASSUME Types, UNCHANGED vars PROVE Types'
BY DEF Types, vars, graphVars

LEMMA TypesNext == Types /\ [Next]_vars => Types'
BY ProgramTypes, WalkTypes, ReturnTypes, StutterTypes DEF Next

-----------------------------------------------------------------------------
(* No time is later than the counter *)

ReadBy(s, t) == \A i \in DOMAIN s : s[i].read <= t
WaitingReads(t) == \A j \in DOMAIN suspended : ReadBy(suspended[j].stack, t)

LEMMA ReadLater ==
    ASSUME NEW s \in Seq(FrameRecord), NEW t \in Nat, NEW u \in Nat, t <= u, ReadBy(s, t)
    PROVE  ReadBy(s, u)
<1>1. \A i \in DOMAIN s : s[i].read \in Nat
  BY FrameFields
<1> QED BY <1>1 DEF ReadBy

LEMMA StampsClocked ==
    ASSUME Types, Clocked, NEW x \in Objects, stamp' = Modified(x), clock' = clock + 1
    PROVE  \A y \in Objects : stamp'[y] <= clock'
<1>1. clock \in Nat /\ stamp \in [Objects -> Nat]
  BY DEF Types
<1>2. ASSUME NEW y \in Objects PROVE stamp'[y] <= clock + 1
  <2>1. stamp'[y] = clock + 1 \/ stamp'[y] = stamp[y]
    BY ModifiedTimes
  <2>2. stamp[y] \in Nat /\ stamp[y] <= clock
    BY <1>1 DEF Clocked
  <2> QED BY <2>1, <2>2, <1>1
<1> QED BY <1>2

\* Later times, none of which is later than the counter.
LEMMA ClockedLater ==
    ASSUME Types, Types', Clocked, clock' \in {clock, clock + 1},
           stamp' = stamp \/ \A y \in Objects : stamp'[y] <= clock',
           parameter' = parameter \/ \A a \in Algorithms : parameter'[a] <= clock',
           out' = out \/ \A a \in Algorithms : out'[a].mtime <= clock',
           ReadBy(stack', clock), \A j \in DOMAIN suspended' : ReadBy(suspended'[j].stack, clock)
    PROVE  Clocked'
<1>1. clock \in Nat /\ clock' \in Nat /\ clock <= clock'
  BY DEF Types
<1>2. /\ \A x \in Objects : stamp[x] \in Nat /\ stamp[x] <= clock
      /\ \A a \in Algorithms : parameter[a] \in Nat /\ parameter[a] <= clock
      /\ \A a \in Algorithms : out[a].mtime \in Nat /\ out[a].mtime <= clock
  BY DEF Types, Clocked, Output
<1>3. \A x \in Objects : stamp'[x] <= clock'
  BY <1>1, <1>2
<1>4. \A a \in Algorithms : parameter'[a] <= clock'
  BY <1>1, <1>2
<1>5. \A a \in Algorithms : out'[a].mtime <= clock'
  BY <1>1, <1>2
<1>6. ReadBy(stack', clock')
  <2>1. stack' \in Seq(FrameRecord)
    BY DEF Types
  <2> QED BY <2>1, <1>1, ReadLater
<1>7. ASSUME NEW j \in DOMAIN suspended' PROVE ReadBy(suspended'[j].stack, clock')
  <2>1. suspended' \in Seq(WalkRecord)
    BY DEF Types
  <2>2. suspended'[j] \in WalkRecord
    BY <2>1
  <2>3. suspended'[j].stack \in Seq(FrameRecord)
    BY <2>2 DEF WalkRecord
  <2> QED BY <2>3, <1>1, <1>7, ReadLater
<1> QED BY <1>3, <1>4, <1>5, <1>6, <1>7 DEF Clocked, ReadBy

LEMMA ClockedReads == ASSUME Clocked PROVE ReadBy(stack, clock) /\ WaitingReads(clock)
BY DEF Clocked, ReadBy, WaitingReads

LEMMA ProgramClocked == ASSUME Types, Types', Clocked, Program PROVE Clocked'
<1>0. clock \in Nat /\ ReadBy(stack, clock) /\ WaitingReads(clock)
  BY ClockedReads DEF Types
<1>1. ASSUME Changes \/ Sets \/ NewInputs \/ Releases \/ Signals
      PROVE  ReadBy(stack', clock) /\ \A j \in DOMAIN suspended' : ReadBy(suspended'[j].stack, clock)
  BY <1>0, <1>1, ProgramWalks DEF WaitingReads
<1>2. CASE Changes
  <2>1. PICK x \in Objects : Edit(x)
    BY <1>2 DEF Changes
  <2>2. clock' = clock + 1 /\ stamp' = Modified(x) /\ parameter' = parameter /\ out' = out
    BY <2>1 DEF Edit
  <2> QED BY <2>2, <1>1, <1>2, StampsClocked, ClockedLater
<1>3. CASE Sets
  <2>0. PICK a \in Algorithms : EditParameter(a)
    BY <1>3 DEF Sets
  <2>1. /\ clock' = clock + 1 /\ stamp' = stamp /\ out' = out
        /\ parameter' = [parameter EXCEPT ![a] = clock + 1]
    BY <2>0 DEF EditParameter
  <2>2. ASSUME NEW b \in Algorithms PROVE parameter'[b] <= clock'
    <3>1. parameter[b] \in Nat /\ parameter[b] <= clock
      BY DEF Types, Clocked
    <3>2. parameter'[b] = clock + 1 \/ parameter'[b] = parameter[b]
      BY <2>1 DEF Types
    <3> QED BY <3>1, <3>2, <2>1, <1>0
  <2> QED BY <2>1, <2>2, <1>1, <1>3, ClockedLater
<1>4. CASE NewInputs
  <2>1. PICK a \in Algorithms : Rewired(a) /\ a \in Objects
    BY <1>4 DEF NewInputs, Objects
  <2>2. clock' = clock + 1 /\ stamp' = Modified(a) /\ parameter' = parameter /\ out' = out
    BY <2>1 DEF Rewired
  <2> QED BY <2>1, <2>2, <1>1, <1>4, StampsClocked, ClockedLater
<1>5. CASE Releases
  <2>0. PICK a \in Algorithms : ReleaseOutput(a)
    BY <1>5 DEF Releases
  <2>1. clock' = clock /\ stamp' = stamp /\ parameter' = parameter
        /\ out' = [out EXCEPT ![a] = Empty]
    BY <2>0 DEF ReleaseOutput
  <2>2. ASSUME NEW b \in Algorithms PROVE out'[b].mtime <= clock'
    <3>1. out[b].mtime \in Nat /\ out[b].mtime <= clock /\ Empty.mtime = 0
      BY DEF Types, Clocked, Output, Empty
    <3>2. out'[b] = Empty \/ out'[b] = out[b]
      BY <2>1 DEF Types
    <3> QED BY <3>1, <3>2, <2>1, <1>0
  <2> QED BY <2>1, <2>2, <1>1, <1>5, ClockedLater
<1>6. CASE Signals
  BY <1>1, <1>6, ClockedLater DEF Signals
<1>7. CASE Starts
  <2>1. PICK r \in Algorithms, k \in Keys : Update(r, k)
    BY <1>7 DEF Starts
  <2>2. UNCHANGED <<clock, stamp, parameter, out>>
    BY <2>1 DEF Update
  <2>3. ReadBy(stack', clock)
    <3>1. stack' = <<Frame(r, k)>> /\ Frame(r, k).read = 0
      BY <2>1, FirstWalk, FirstFrame
    <3> QED BY <3>1, <1>0 DEF ReadBy
  <2>4. ASSUME NEW j \in DOMAIN suspended' PROVE ReadBy(suspended'[j].stack, clock)
    <3>1. CASE suspended' = suspended
      BY <3>1, <1>0, <2>4 DEF WaitingReads
    <3>2. CASE suspended' = Append(suspended, Suspension)
      <4>1. suspended \in Seq(WalkRecord)
        BY DEF Types
      <4>2. (j \in DOMAIN suspended /\ suspended'[j] = suspended[j]) \/ suspended'[j] = Suspension
        BY <4>1, <3>2, <2>4
      <4>3. Suspension.stack = stack
        BY DEF Suspension
      <4> QED BY <4>2, <4>3, <1>0 DEF WaitingReads
    <3> QED BY <3>1, <3>2, <2>1 DEF Update
  <2> QED BY <2>2, <2>3, <2>4, ClockedLater
<1> QED BY <1>2, <1>3, <1>4, <1>5, <1>6, <1>7, ProgramCases

LEMMA WalkReads == ASSUME Types, Clocked, Walk PROVE ReadBy(stack', clock)
<1>0. ~Idle /\ Moves /\ clock \in Nat /\ ReadBy(stack, clock)
  BY WalkMoves, ClockedReads DEF Types
<1>1. PICK n : n = Len(stack) /\ n \in Nat \ {0} /\ DOMAIN stack = 1..n /\ n \in DOMAIN stack
               /\ Top = stack[n]
  BY <1>0, TopIs
<1>2. Top.read <= clock /\ MTime(Top.alg) <= clock
  <2>1. Top.alg \in Algorithms
    BY <1>0, TopIs, FrameFields
  <2> QED BY <2>1, <1>0, <1>1 DEF ReadBy, MTime, Clocked, Objects
<1>3. CASE \E f \in FrameRecord : Goes(f)
  <2>1. PICK f \in FrameRecord : Goes(f)
    BY <1>3
  <2>2. f.read <= clock
    BY <2>1, <1>2 DEF Goes
  <2>3. DOMAIN stack' = DOMAIN stack /\ stack'[n] = f
        /\ \A i \in DOMAIN stack : i # n => stack'[i] = stack[i]
    BY <1>0, <1>1, <2>1, ReplacedStack DEF Goes
  <2> QED BY <2>2, <2>3, <1>0 DEF ReadBy
<1>4. CASE \E f, g \in FrameRecord : Descends(f, g)
  <2>1. PICK f \in FrameRecord, g \in FrameRecord : Descends(f, g)
    BY <1>4
  <2>2. f.read <= clock /\ g.read <= clock
    BY <2>1, <1>0, <1>2 DEF Descends
  <2>3. /\ DOMAIN stack' = 1..(n + 1) /\ stack'[n + 1] = g /\ stack'[n] = f
        /\ \A i \in 1..n : i # n => stack'[i] = stack[i]
    BY <1>0, <1>1, <2>1, PushedStack DEF Descends
  <2>4. ASSUME NEW i \in DOMAIN stack' PROVE stack'[i].read <= clock
    <3>1. i = n + 1 \/ i = n \/ (i \in 1..n /\ i # n)
      BY <1>1, <2>3
    <3> QED BY <3>1, <2>2, <2>3, <1>0, <1>1 DEF ReadBy
  <2> QED BY <2>4 DEF ReadBy
<1>5. CASE Leaves
  BY <1>0, <1>5, PoppedStack DEF Leaves, Pop, ReadBy
<1>6. CASE Ends
  BY <1>6 DEF Ends, ReadBy
<1> QED BY <1>0, <1>3, <1>4, <1>5, <1>6 DEF Moves

LEMMA WalkClocked == ASSUME Types, Types', Clocked, Walk PROVE Clocked'
<1>0. ~Idle /\ Keeps /\ clock \in Nat /\ ReadBy(stack, clock) /\ WaitingReads(clock)
  BY WalkMoves, WalkKeeps, ClockedReads DEF Types
<1>1. UNCHANGED <<stamp, parameter, suspended>> /\ ReadBy(stack', clock)
  BY <1>0, WalkReads DEF Keeps
<1>2. CASE ~Execute
  <2>1. clock' = clock /\ out' = out
    BY <1>2, WalkKeeps
  <2> QED BY <2>1, <1>0, <1>1, ClockedLater DEF WaitingReads
<1>3. CASE Execute
  <2>1. clock' = clock + 1
    BY <1>3 DEF Execute
  <2>2. Top.read \in Nat /\ Top.read <= clock
    <3>1. Top = stack[Len(stack)] /\ Len(stack) \in DOMAIN stack /\ Top \in FrameRecord
      BY <1>0, TopIs
    <3> QED BY <3>1, <1>0, FrameFields DEF ReadBy
  <2>3. ASSUME NEW a \in Algorithms PROVE out'[a].mtime <= clock'
    <3>1. out[a].mtime \in Nat /\ out[a].mtime <= clock
      BY DEF Types, Clocked, Output
    <3>2. out'[a].mtime = Top.read \/ out'[a] = out[a]
      BY <1>0, <1>3, ExecutePublishes
    <3> QED BY <3>1, <3>2, <2>1, <2>2, <1>0
  <2> QED BY <2>1, <2>3, <1>0, <1>1, ClockedLater DEF WaitingReads
<1> QED BY <1>2, <1>3

LEMMA ReturnClocked == ASSUME Types, Types', Clocked, Return PROVE Clocked'
<1>1. suspended # <<>> /\ stack' = Last(suspended).stack /\ suspended' = Front(suspended)
      /\ UNCHANGED <<clock, stamp, parameter, out>>
  BY DEF Return
<1>2. ReadBy(stack', clock) /\ \A j \in DOMAIN suspended' : ReadBy(suspended'[j].stack, clock)
  BY <1>1, ClockedReads, LastSuspended DEF WaitingReads
<1> QED BY <1>1, <1>2, ClockedLater

LEMMA ClockedNext == Types /\ Clocked /\ [Next]_vars => Clocked'
<1> SUFFICES ASSUME Types, Clocked, [Next]_vars PROVE Clocked'
  OBVIOUS
<1>1. Types'
  BY TypesNext
<1>2. CASE UNCHANGED vars
  BY <1>2 DEF Clocked, vars
<1> QED BY <1>1, <1>2, ProgramClocked, WalkClocked, ReturnClocked DEF Next

-----------------------------------------------------------------------------
(* The graph keeps no cycle *)

LEMMA FewerProducers ==
    ASSUME NoCycles, \A b \in Algorithms : ToSet(producers'[b]) \subseteq ToSet(producers[b])
    PROVE  NoCycles'
BY DEF NoCycles, Acyclic

\* A connection to what a does not reach closes no cycle.
LEMMA ConnectedAcyclic ==
    ASSUME Types, PipelineGiven, NoCycles, NEW a \in Algorithms, NEW b \in Algorithms,
           b \notin Reached(a),
           \A c \in Algorithms : c # a => producers'[c] = producers[c],
           ToSet(producers'[a]) \subseteq ToSet(producers[a]) \cup {b}
    PROVE  NoCycles'
<1> SUFFICES ASSUME NEW S \in SUBSET Algorithms, S # {}
             PROVE  \E s \in S : \A c \in S : s \notin ToSet(producers'[c])
  BY DEF NoCycles, Acyclic
<1>1. CASE a \notin S
  <2>1. PICK s \in S : \A c \in S : s \notin ToSet(producers[c])
    BY DEF NoCycles, Acyclic
  <2> QED BY <2>1, <1>1
<1>2. CASE a \in S
  <2> DEFINE T == S \cap Reached(a)
  <2>1. T \in SUBSET Algorithms /\ a \in T
    BY <1>2, ReachedSelf
  <2>2. PICK s \in T : \A c \in T : s \notin ToSet(producers[c])
    BY <2>1 DEF NoCycles, Acyclic
  <2>3. ASSUME NEW c \in S, s \in ToSet(producers'[c]) PROVE FALSE
    <3>1. CASE c = a
      BY <3>1, <2>1, <2>2, <2>3
    <3>2. CASE c # a
      <4>1. s \in ToSet(producers[c])
        BY <2>3, <3>2
      <4>2. c \in Consumers(s)
        BY <4>1, ConsumersOf
      <4>3. c \in T
        BY <4>2, <2>2, ReachedClosed
      <4> QED BY <4>1, <4>3, <2>2
    <3> QED BY <3>1, <3>2
  <2> QED BY <2>2, <2>3
<1> QED BY <1>1, <1>2

LEMMA AppendedSet ==
    ASSUME NEW s \in Seq(Algorithms), NEW b
    PROVE  ToSet(Append(s, b)) \subseteq ToSet(s) \cup {b}
BY DEF ToSet

LEMMA RemovedSet ==
    ASSUME NEW s \in Seq(Algorithms), NEW i \in DOMAIN s
    PROVE  ToSet(RemoveAt(s, i)) \subseteq ToSet(s)
<1>1. RemoveAt(s, i) = SubSeq(s, 1, i - 1) \o SubSeq(s, i + 1, Len(s))
  BY DEF RemoveAt
<1>2. i \in 1..Len(s) /\ Len(s) \in Nat
  OBVIOUS
<1>3. PICK t : t = SubSeq(s, 1, i - 1)
  OBVIOUS
<1>4. t \in Seq(Algorithms) /\ Len(t) = i - 1 /\ \A j \in 1..(i - 1) : t[j] = s[j]
  BY <1>2, <1>3
<1>5. PICK u : u = SubSeq(s, i + 1, Len(s))
  OBVIOUS
<1>6. /\ u \in Seq(Algorithms) /\ Len(u) = Len(s) - i
      /\ \A j \in 1..(Len(s) - i) : u[j] = s[i + j]
  BY <1>2, <1>5
<1>7. ASSUME NEW j \in DOMAIN (t \o u) PROVE (t \o u)[j] \in ToSet(s)
  <2>1. j \in 1..(Len(s) - 1)
    BY <1>2, <1>4, <1>6
  <2>2. CASE j <= i - 1
    <3>1. (t \o u)[j] = s[j] /\ j \in DOMAIN s
      BY <2>1, <2>2, <1>2, <1>4, <1>6
    <3> QED BY <3>1 DEF ToSet
  <2>3. CASE j > i - 1
    <3>1. (t \o u)[j] = u[j - (i - 1)]
      BY <2>1, <2>3, <1>2, <1>4, <1>6
    <3>2. j - (i - 1) \in 1..(Len(s) - i)
      BY <2>1, <2>3, <1>2
    <3>3. u[j - (i - 1)] = s[i + (j - (i - 1))] /\ i + (j - (i - 1)) \in DOMAIN s
      BY <3>2, <1>2, <1>6
    <3> QED BY <3>1, <3>3 DEF ToSet
  <2> QED BY <2>1, <2>2, <2>3, <1>2
<1> QED BY <1>1, <1>3, <1>5, <1>7 DEF ToSet
LEMMA ProgramAcyclic == ASSUME Types, PipelineGiven, NoCycles, Program PROVE NoCycles'
<1>0. producers \in [Algorithms -> Seq(Algorithms)]
  BY DEF Types
<1>1. ASSUME producers' = producers PROVE NoCycles'
  BY <1>1, FewerProducers
<1>2. ASSUME NEW a \in Algorithms, producers' = [producers EXCEPT ![a] = <<>>] PROVE NoCycles'
  <2>1. \A b \in Algorithms : ToSet(producers'[b]) \subseteq ToSet(producers[b])
    BY <1>0, <1>2 DEF ToSet
  <2> QED BY <2>1, FewerProducers
<1>3. ASSUME NEW a \in Algorithms, NEW i \in DOMAIN producers[a], RemoveConnection(a, i)
      PROVE  NoCycles'
  <2>1. producers' = [producers EXCEPT ![a] = RemoveAt(producers[a], i)]
    BY <1>3 DEF RemoveConnection
  <2>2. producers[a] \in Seq(Algorithms)
    BY <1>0
  <2>3. ToSet(RemoveAt(producers[a], i)) \subseteq ToSet(producers[a])
    BY <2>2, RemovedSet
  <2>4. \A b \in Algorithms : ToSet(producers'[b]) \subseteq ToSet(producers[b])
    BY <1>0, <2>1, <2>3
  <2> QED BY <2>4, FewerProducers
<1>4. ASSUME NEW a \in Algorithms, NEW b \in Algorithms, NEW kept \in Seq(Algorithms),
             ToSet(kept) \subseteq ToSet(producers[a]), Connect(a, b, kept)
      PROVE  NoCycles'
  <2>1. producers' = [producers EXCEPT ![a] = Append(kept, b)] /\ b \notin Reached(a)
    BY <1>4 DEF Connect
  <2>2. producers'[a] = Append(kept, b) /\ \A c \in Algorithms : c # a => producers'[c] = producers[c]
    BY <1>0, <2>1
  <2>3. ToSet(producers'[a]) \subseteq ToSet(producers[a]) \cup {b}
    BY <2>2, <1>4, AppendedSet
  <2> QED BY <2>1, <2>2, <2>3, ConnectedAcyclic
<1>5. ASSUME NEW a \in Algorithms, NEW b \in Algorithms, SetConnection(a, b) \/ AddConnection(a, b)
      PROVE  NoCycles'
  <2>1. <<>> \in Seq(Algorithms) /\ ToSet(<<>>) \subseteq ToSet(producers[a])
    BY DEF ToSet
  <2>2. producers[a] \in Seq(Algorithms)
    BY <1>0
  <2> QED BY <1>4, <1>5, <2>1, <2>2 DEF SetConnection, AddConnection
<1>6. ASSUME NEW x \in Objects, Edit(x) PROVE producers' = producers
  BY <1>6 DEF Edit, graphVars
<1>7. ASSUME NEW a \in Algorithms, EditParameter(a) \/ ReleaseOutput(a) \/ Abort(a)
      PROVE  producers' = producers
  BY <1>7 DEF EditParameter, ReleaseOutput, Abort, graphVars
<1>8. ASSUME NEW a \in Algorithms, NEW k \in Keys, Update(a, k) PROVE producers' = producers
  BY <1>8 DEF Update, graphVars
<1>9. ASSUME ClearAbort \/ Cancel PROVE producers' = producers
  BY <1>9 DEF ClearAbort, Cancel, graphVars
<1>10. ASSUME NEW a \in Algorithms, ClearInput(a) PROVE NoCycles'
  BY <1>10, <1>2 DEF ClearInput
<1>11. ASSUME NEW a \in Algorithms, NEW d \in Data, SetData(a, d) PROVE NoCycles'
  BY <1>11, <1>2 DEF SetData
<1> QED BY <1>1, <1>3, <1>5, <1>6, <1>7, <1>8, <1>9, <1>10, <1>11 DEF Program

LEMMA NoCyclesNext == Types /\ PipelineGiven /\ NoCycles /\ [Next]_vars => NoCycles'
<1> SUFFICES ASSUME Types, PipelineGiven, NoCycles, [Next]_vars PROVE NoCycles'
  OBVIOUS
<1>1. CASE Program
  BY <1>1, ProgramAcyclic
<1>2. CASE producers' = producers
  BY <1>2, FewerProducers
<1>3. Walk \/ Return \/ UNCHANGED vars => producers' = producers
  BY WalkKeeps DEF Keeps, Return, vars, graphVars
<1> QED BY <1>1, <1>2, <1>3 DEF Next

-----------------------------------------------------------------------------
(* The guards *)

\* The frames that are not the last one stay where they are.
LEMMA GuardedGoes ==
    ASSUME Types, ~Idle, NEW f \in FrameRecord, stack' = Replace(f), Entered(f), f.alg = Top.alg,
           NEW a, Under(a, stack) \/ a = Top.alg
    PROVE  Under(a, stack')
<1>1. PICK n : n = Len(stack) /\ n \in DOMAIN stack /\ Top = stack[n]
  BY TopIs
<1>2. DOMAIN stack' = DOMAIN stack /\ stack'[n] = f
      /\ \A i \in DOMAIN stack : i # n => stack'[i] = stack[i]
  BY <1>1, ReplacedStack
<1>3. CASE a = Top.alg
  BY <1>1, <1>2, <1>3 DEF Under
<1>4. CASE a # Top.alg
  <2>1. PICK i \in DOMAIN stack : Entered(stack[i]) /\ stack[i].alg = a
    BY <1>4 DEF Under
  <2> QED BY <2>1, <1>1, <1>2, <1>4 DEF Under
<1> QED BY <1>3, <1>4

LEMMA GuardedDescends ==
    ASSUME Types, ~Idle, NEW f \in FrameRecord, NEW g \in FrameRecord, Descends(f, g),
           NEW a, Under(a, stack)
    PROVE  Under(a, stack')
<1>1. PICK n : n = Len(stack) /\ n \in Nat \ {0} /\ DOMAIN stack = 1..n /\ Top = stack[n]
  BY TopIs
<1>2. /\ DOMAIN stack' = 1..(n + 1) /\ stack'[n] = f
      /\ \A i \in 1..n : i # n => stack'[i] = stack[i]
  BY <1>1, PushedStack DEF Descends
<1>3. PICK i \in 1..n : Entered(stack[i]) /\ stack[i].alg = a
  BY <1>1 DEF Under
<1>4. i \in 1..(n + 1)
  BY <1>1
<1>5. CASE i = n
  BY <1>1, <1>2, <1>3, <1>4, <1>5 DEF Under, Descends, Entered
<1>6. CASE i # n
  BY <1>2, <1>3, <1>4, <1>6 DEF Under
<1> QED BY <1>5, <1>6

LEMMA GuardedLeaves ==
    ASSUME Types, ~Idle, stack' = Front(stack), NEW a, Under(a, stack),
           a # Top.alg \/ ~Entered(Top)
    PROVE  Under(a, stack')
<1>1. PICK n : n = Len(stack) /\ n \in Nat \ {0} /\ DOMAIN stack = 1..n /\ Top = stack[n]
  BY TopIs
<1>2. DOMAIN stack' = 1..(n - 1) /\ \A i \in 1..(n - 1) : stack'[i] = stack[i]
  BY <1>1, PoppedStack
<1>3. PICK i \in 1..n : Entered(stack[i]) /\ stack[i].alg = a
  BY <1>1 DEF Under
<1>4. i # n
  BY <1>1, <1>3
<1>5. i \in 1..(n - 1)
  BY <1>1, <1>4
<1> QED BY <1>2, <1>3, <1>5 DEF Under

LEMMA WalkGuarded == ASSUME Types, Guarded, Walk PROVE Guarded'
<1>0. ~Idle /\ Moves /\ suspended' = suspended
  BY WalkMoves, WalkKeeps DEF Keeps
<1> SUFFICES ASSUME NEW a \in updating',
                    ~\E j \in DOMAIN suspended : Under(a, suspended[j].stack)
             PROVE  Under(a, stack')
  BY <1>0 DEF Guarded, Under, Entered
<1>1. a \in updating => Under(a, stack)
  BY DEF Guarded
<1>2. CASE \E f \in FrameRecord : Goes(f)
  <2>1. PICK f \in FrameRecord : Goes(f)
    BY <1>2
  <2>2. Entered(f) /\ f.alg = Top.alg /\ stack' = Replace(f) /\ (a \in updating \/ a = Top.alg)
    BY <2>1 DEF Goes, Entered, InputsDone
  <2> QED BY <2>2, <1>0, <1>1, GuardedGoes
<1>3. CASE \E f, g \in FrameRecord : Descends(f, g)
  <2>1. PICK f \in FrameRecord, g \in FrameRecord : Descends(f, g)
    BY <1>3
  <2>2. a \in updating
    BY <2>1 DEF Descends
  <2> QED BY <2>1, <2>2, <1>0, <1>1, GuardedDescends
<1>4. CASE Leaves
  BY <1>0, <1>1, <1>4, GuardedLeaves DEF Leaves, Pop, Entered
<1>5. CASE Ends
  BY <1>1, <1>5 DEF Ends, Under
<1> QED BY <1>0, <1>2, <1>3, <1>4, <1>5 DEF Moves

LEMMA UpdateGuarded ==
    ASSUME Types, Guarded, NEW r \in Algorithms, NEW k \in Keys, Update(r, k)
    PROVE  Guarded'
<1>1. updating' = updating
  BY DEF Update
<1>2. suspended \in Seq(WalkRecord)
  BY DEF Types
<1>3. CASE Idle
  <2>1. suspended' = suspended /\ \A a : ~Under(a, stack)
    BY <1>3 DEF Update, Idle, Under
  <2> QED BY <2>1, <1>1 DEF Guarded, Under, Entered
<1>4. CASE ~Idle
  <2>1. suspended' = Append(suspended, Suspension)
    BY <1>4 DEF Update
  <2>2. PICK n : n = Len(suspended) + 1 /\ n \in DOMAIN suspended'
                 /\ suspended'[n] = Suspension
                 /\ \A j \in DOMAIN suspended : j \in DOMAIN suspended' /\ suspended'[j] = suspended[j]
    BY <2>1, <1>2
  <2>3. Suspension.stack = stack
    BY DEF Suspension
  <2>4. ASSUME NEW a \in updating PROVE \E j \in DOMAIN suspended' : Under(a, suspended'[j].stack)
    <3>1. CASE Under(a, stack)
      BY <3>1, <2>2, <2>3
    <3>2. CASE ~Under(a, stack)
      <4>1. PICK j \in DOMAIN suspended : Under(a, suspended[j].stack)
        BY <3>2 DEF Guarded
      <4> QED BY <4>1, <2>2
    <3> QED BY <3>1, <3>2
  <2> QED BY <2>4, <1>1 DEF Guarded, Under, Entered
<1> QED BY <1>3, <1>4

LEMMA ReturnGuarded == ASSUME Types, Guarded, Return PROVE Guarded'
<1>1. Idle /\ suspended # <<>> /\ stack' = Last(suspended).stack /\ suspended' = Front(suspended)
      /\ updating' = updating
  BY DEF Return
<1>2. PICK n : n = Len(suspended) /\ n \in Nat \ {0} /\ DOMAIN suspended = 1..n
               /\ Last(suspended) = suspended[n] /\ DOMAIN suspended' = 1..(n - 1)
               /\ \A j \in 1..(n - 1) : suspended'[j] = suspended[j]
  BY <1>1, LastSuspended
<1>3. ASSUME NEW a \in updating
      PROVE  Under(a, stack') \/ \E j \in DOMAIN suspended' : Under(a, suspended'[j].stack)
  <2>1. ~Under(a, stack)
    BY <1>1 DEF Idle, Under
  <2>2. PICK j \in 1..n : Under(a, suspended[j].stack)
    BY <2>1, <1>2 DEF Guarded
  <2>3. CASE j = n
    BY <2>2, <2>3, <1>1, <1>2
  <2>4. CASE j # n
    <3>1. j \in 1..(n - 1)
      BY <2>4, <1>2
    <3> QED BY <3>1, <2>2, <1>2
  <2> QED BY <2>3, <2>4
<1> QED BY <1>1, <1>3 DEF Guarded, Under, Entered

LEMMA GuardedNext == Types /\ Guarded /\ [Next]_vars => Guarded'
<1> SUFFICES ASSUME Types, Guarded, [Next]_vars PROVE Guarded'
  OBVIOUS
<1>1. ASSUME UNCHANGED <<updating, stack, suspended>> PROVE Guarded'
  BY <1>1 DEF Guarded, Under, Entered
<1>2. CASE Program
  <2>1. CASE Starts
    BY <2>1, UpdateGuarded DEF Starts
  <2>2. CASE ~Starts
    BY <2>2, <1>1, <1>2, ProgramCases, ProgramWalks
  <2> QED BY <2>1, <2>2
<1>3. CASE UNCHANGED vars
  BY <1>1, <1>3 DEF vars
<1> QED BY <1>2, <1>3, WalkGuarded, ReturnGuarded DEF Next

-----------------------------------------------------------------------------
(* What waits has frames *)

LEMMA WaitingNext == Types /\ Waiting /\ [Next]_vars => Waiting'
<1> SUFFICES ASSUME Types, Waiting, [Next]_vars PROVE Waiting'
  OBVIOUS
<1>1. ASSUME suspended' = suspended PROVE Waiting'
  BY <1>1 DEF Waiting
<1>2. ASSUME NEW r \in Algorithms, NEW k \in Keys, Update(r, k) PROVE Waiting'
  <2>1. CASE Idle
    BY <2>1, <1>1, <1>2 DEF Update
  <2>2. CASE ~Idle
    <3>1. suspended' = Append(suspended, Suspension) /\ suspended \in Seq(WalkRecord)
      BY <2>2, <1>2 DEF Update, Types
    <3>2. Suspension.stack # <<>>
      BY <2>2 DEF Suspension, Idle
    <3>3. \A j \in DOMAIN suspended' :
              (j \in DOMAIN suspended /\ suspended'[j] = suspended[j]) \/ suspended'[j] = Suspension
      BY <3>1
    <3> QED BY <3>2, <3>3 DEF Waiting
  <2> QED BY <2>1, <2>2
<1>3. CASE Program
  <2>1. CASE Starts
    BY <2>1, <1>2 DEF Starts
  <2>2. CASE ~Starts
    BY <2>2, <1>1, <1>3, ProgramCases, ProgramWalks
  <2> QED BY <2>1, <2>2
<1>4. CASE Walk
  BY <1>1, <1>4, WalkKeeps DEF Keeps
<1>5. CASE Return
  <2>1. suspended # <<>> /\ suspended' = Front(suspended)
    BY <1>5 DEF Return
  <2> QED BY <2>1, LastSuspended DEF Waiting
<1>6. CASE UNCHANGED vars
  BY <1>1, <1>6 DEF vars
<1> QED BY <1>3, <1>4, <1>5, <1>6 DEF Next

LEMMA TypeNext == PipelineGiven /\ TypeInv /\ [Next]_vars => TypeInv'
BY TypesNext, ClockedNext, NoCyclesNext, GuardedNext, WaitingNext DEF TypeInv

-----------------------------------------------------------------------------
(* A walk that does not move *)

LEMMA StackRigid ==
    ASSUME NEW s, NEW o, StackOK(s, o), UNCHANGED <<direct, producers>>
    PROVE  StackOK(s, o)'
<1>1. \A x : Below(x)' = Below(x)
  BY GraphStays
<1>2. \A i \in DOMAIN s : Placed(s[i]) => Placed(s[i])'
  BY DEF Placed
<1>3. \A i \in DOMAIN s : Waits(s, i) => Waits(s, i)'
  BY DEF Waits, ProducerOf, RequestOf, MapRequest
<1>4. Ordered(s) => Ordered(s)'
  BY <1>1 DEF Ordered
<1>5. Rooted(s, o) => Rooted(s, o)'
  BY DEF Rooted
<1> QED BY <1>2, <1>3, <1>4, <1>5 DEF StackOK

LEMMA AskedRigid ==
    ASSUME NEW s, NEW v, NEW o, AskedOK(s, v, o), UNCHANGED <<direct, producers>>,
           asked \subseteq asked'
    PROVE  AskedOK(s, v, o)'
<1>1. \A x : Reached(x)' = Reached(x)
  BY GraphStays
<1> QED BY <1>1 DEF AskedOK, HandledIn, Entered

\* The producer that a frame waits for.
LEMMA ChildTyped ==
    ASSUME Types, NEW f \in FrameRecord, Placed(f), f.phase = "child"
    PROVE  ProducerOf(f, f.next) \in Algorithms /\ RequestOf(f, f.next) \in Keys
           /\ f.next \in DOMAIN producers[f.alg]
<1>1. f.alg \in Algorithms /\ f.next \in Nat \ {0} /\ f.key \in Keys
  BY FrameFields
<1>2. producers[f.alg] \in Seq(Algorithms) /\ f.next <= Len(producers[f.alg])
  BY <1>1 DEF Types, Placed
<1>3. f.next \in DOMAIN producers[f.alg]
  BY <1>1, <1>2
<1> QED BY <1>1, <1>2, <1>3, MapRequestIsKey DEF ProducerOf, RequestOf

LEMMA LastOf ==
    ASSUME NEW s \in Seq(FrameRecord), s # <<>>
    PROVE  Len(s) \in DOMAIN s /\ s[Len(s)] \in FrameRecord
OBVIOUS

LEMMA KeptRigid ==
    ASSUME Types, NEW s \in Seq(FrameRecord), NEW v \in SUBSET Visits, NEW o, StackOK(s, o),
           KeptOK(s, v), UNCHANGED producers, DataStays
    PROVE  KeptOK(s, v)'
<1> SUFFICES ASSUME s # <<>> PROVE KeptOK(s, v)'
  BY DEF KeptOK
<1>1. \A q \in HandledIn(v) : q[1] \in Algorithms
  BY DEF HandledIn, Visits
<1>2. \A q \in HandledIn(v) : HasData(q[1])'
  BY <1>1 DEF KeptOK, DataStays
<1>3. PICK f \in FrameRecord : f = s[Len(s)] /\ Placed(f)
  BY LastOf DEF StackOK
<1>4. f.phase = "child" => HasData(ProducerOf(f, f.next))
  BY <1>3 DEF KeptOK
<1>5. f.phase = "child" => HasData(ProducerOf(f, f.next))'
  <2> SUFFICES ASSUME f.phase = "child" PROVE HasData(ProducerOf(f, f.next))'
    OBVIOUS
  <2>1. PICK b \in Algorithms : b = ProducerOf(f, f.next)
    BY <1>3, ChildTyped
  <2>2. HasData(b)'
    BY <2>1, <1>4 DEF DataStays
  <2>3. ProducerOf(f, f.next)' = b
    BY <2>1 DEF ProducerOf
  <2> QED BY <2>2, <2>3 DEF HasData
<1> QED BY <1>2, <1>3, <1>5 DEF KeptOK, HandledIn

LEMMA TimesRigid ==
    ASSUME NEW s, NEW o, NEW c, TimesOK(s, o, c), UNCHANGED <<stamp, parameter>>
    PROVE  TimesOK(s, o, c)'
BY DEF TimesOK, Entered, MTime

LEMMA OnceRigid ==
    ASSUME NEW s, NEW v, NEW o, NEW c, OnceOK(s, v, c), AskedOK(s, v, o),
           UNCHANGED <<stamp, parameter>>, ValidStays
    PROVE  OnceOK(s, v, c)'
<1> SUFFICES ASSUME s # <<>>, c PROVE OnceOK(s, v, c)'
  BY DEF OnceOK
<1>1. \A q \in HandledIn(v) : Valid(q[1])' /\ out'[q[1]].key = q[2]
  BY DEF OnceOK, AskedOK, ValidStays
<1>2. \A i \in DOMAIN s :
        /\ s[i].phase = "data" => s[i].read = MTime(s[i].alg)'
        /\ Executing(s[i]) => <<s[i].alg, s[i].key>> \notin HandledIn(v)
  BY DEF OnceOK, MTime
<1> QED BY <1>1, <1>2 DEF OnceOK, HandledIn, Executing

\* What a step leaves to the walks that it does not move.
Bears ==
    /\ UNCHANGED <<direct, producers, stamp, parameter>>
    /\ asked \subseteq asked' /\ DataStays /\ ValidStays

LEMMA OrderRigid ==
    ASSUME Types, NEW w \in WalkRecord, OrderOK(w), Bears
    PROVE  OrderOK(w)'
<1>1. w.stack \in Seq(FrameRecord) /\ w.visited \in SUBSET Visits
      /\ w.outcome \in Outcomes /\ w.calm \in BOOLEAN
  BY DEF WalkRecord
<1>2. PICK s \in Seq(FrameRecord), v \in SUBSET Visits, o \in Outcomes, c \in BOOLEAN :
          s = w.stack /\ v = w.visited /\ o = w.outcome /\ c = w.calm
  BY <1>1
<1>3. StackOK(s, o) /\ AskedOK(s, v, o) /\ KeptOK(s, v) /\ TimesOK(s, o, c) /\ OnceOK(s, v, c)
  BY <1>2 DEF OrderOK
<1>4. StackOK(s, o)'
  BY <1>3, StackRigid DEF Bears
<1>5. AskedOK(s, v, o)'
  BY <1>3, AskedRigid DEF Bears
<1>6. KeptOK(s, v)'
  BY <1>3, KeptRigid DEF Bears
<1>7. TimesOK(s, o, c)'
  BY <1>3, TimesRigid DEF Bears
<1>8. OnceOK(s, v, c)'
  BY <1>3, OnceRigid DEF Bears
<1> QED BY <1>2, <1>4, <1>5, <1>6, <1>7, <1>8 DEF OrderOK

\* The walk in progress, as one that waits.
LEMMA OrderAsWaiting ==
    ASSUME Types, WalkInv PROVE Suspension \in WalkRecord /\ OrderOK(Suspension)
<1>1. Suspension \in WalkRecord
  BY DEF Types, Suspension, WalkRecord
<1>2. /\ Suspension.stack = stack /\ Suspension.visited = visited
      /\ Suspension.outcome = outcome /\ Suspension.calm = calm
  BY DEF Suspension
<1> QED BY <1>1, <1>2 DEF WalkInv, OrderOK, StackInv, AskedInv, KeptInv, TimesInv, OnceInv

\* and back.
LEMMA OrderGoesOn ==
    ASSUME NEW w, OrderOK(w)', stack' = w.stack, visited' = w.visited, outcome' = w.outcome,
           calm' = w.calm
    PROVE  WalkInv'
BY DEF WalkInv, OrderOK, StackInv, AskedInv, KeptInv, TimesInv, OnceInv

LEMMA NothingMoves ==
    ASSUME UNCHANGED <<direct, producers, stamp, parameter, out, asked>>
    PROVE  Bears
BY DEF Bears, DataStays, ValidStays, HasData, Valid, MTime

\* The walk in progress does not move.
LEMMA OrderUnmoved ==
    ASSUME Types, WalkInv, Bears, UNCHANGED <<stack, visited, outcome, calm>>
    PROVE  WalkInv'
<1>1. PICK w \in WalkRecord : w = Suspension /\ OrderOK(w)
  BY OrderAsWaiting
<1>2. OrderOK(w)'
  BY <1>1, OrderRigid
<1>3. w.stack = stack /\ w.visited = visited /\ w.outcome = outcome /\ w.calm = calm
  BY <1>1 DEF Suspension
<1> QED BY <1>2, <1>3, OrderGoesOn

\* No walk that waits moves.
LEMMA SuspendedRigid ==
    ASSUME Types, SuspendedInv, NEW w \in WalkRecord, Suspended(w), Bears
    PROVE  OrderOK(w)'
BY OrderRigid DEF SuspendedInv

LEMMA SuspendedUnmoved ==
    ASSUME Types, SuspendedInv, suspended' = suspended, suspended # <<>> => Bears
    PROVE  SuspendedInv'
<1> SUFFICES ASSUME NEW w \in WalkRecord, Suspended(w)' PROVE OrderOK(w)'
  BY DEF SuspendedInv
<1>1. Suspended(w) /\ suspended # <<>>
  BY DEF Suspended
<1> QED BY <1>1, SuspendedRigid

-----------------------------------------------------------------------------
(* The program, while nothing masks *)

\* A callback of the only update in progress changes its root.
RootTouched ==
    /\ ~Idle /\ suspended = <<>> /\ calm' = FALSE
    /\ Edit(outcome.root) \/ EditParameter(outcome.root)

\* Outside every update there is no walk.
Calls == Outside /\ UNCHANGED <<stack, suspended, visited, outcome, asked>> /\ calm' = FALSE

LEMMA QuietProgram ==
    ASSUME Types, Program, ~masked'
    PROVE  ~masked /\ (Starts \/ Signals \/ Calls \/ RootTouched)
<1>1. ASSUME Disturb, UNCHANGED <<stack, suspended, visited, outcome, asked>> PROVE ~masked /\ Calls
  BY <1>1 DEF Disturb, Calls
<1>2. ASSUME NEW x, Touch(x), UNCHANGED <<stack, suspended, visited, outcome, asked>>,
             Edit(x) \/ EditParameter(x)
      PROVE  ~masked /\ (Calls \/ RootTouched)
  BY <1>2 DEF Touch, Calls, RootTouched, Outside
<1>3. CASE Changes
  BY <1>2, <1>3, ProgramWalks DEF Changes, Edit
<1>4. CASE Sets
  BY <1>2, <1>4, ProgramWalks DEF Sets, EditParameter
<1>5. CASE NewInputs
  BY <1>1, <1>5, ProgramWalks DEF NewInputs, Rewired
<1>6. CASE Releases
  BY <1>1, <1>6, ProgramWalks DEF Releases, ReleaseOutput
<1>7. CASE Signals
  BY <1>7 DEF Signals
<1>8. CASE Starts
  BY <1>8 DEF Starts, Update
<1> QED BY <1>3, <1>4, <1>5, <1>6, <1>7, <1>8, ProgramCases

\* A change of the root does not reach what a later frame is of.
LEMMA RootApart ==
    ASSUME Types, PipelineGiven, NoCycles, StackInv, NEW i \in DOMAIN stack,
           stack[i].alg # outcome.root
    PROVE  stack[i].alg \notin Reached(outcome.root)
<1>1. ~Idle /\ stack[i].alg \in Algorithms
  BY FrameAt DEF Idle
<1>2. 1 \in DOMAIN stack /\ DOMAIN stack = 1..Len(stack) /\ stack[1].alg = outcome.root
  BY <1>1, TopIs, StackParts DEF Rooted
<1>3. 1 < i
  BY <1>2
<1>4. outcome.root \in Below(stack[i].alg)
  BY <1>1, <1>2, <1>3, StackParts DEF Ordered
<1> QED BY <1>1, <1>4, NotBelowEachOther

LEMMA RootTouchedMTime ==
    ASSUME Types, PipelineGiven, NoCycles, StackInv, RootTouched, NEW a \in Algorithms,
           a # outcome.root, a \notin Reached(outcome.root)
    PROVE  MTime(a)' = MTime(a)
<1>1. outcome.root \in Algorithms
  BY TopIs, RootReached DEF RootTouched
<1>2. CASE Edit(outcome.root)
  <2>1. parameter' = parameter /\ stamp'[a] = stamp[a]
    BY <1>1, <1>2, ModifiedTimes DEF Edit, Objects
  <2> QED BY <2>1 DEF MTime
<1>3. CASE EditParameter(outcome.root)
  <2>1. stamp' = stamp /\ parameter'[a] = parameter[a]
    BY <1>1, <1>3 DEF EditParameter, Types
  <2> QED BY <2>1 DEF MTime
<1> QED BY <1>2, <1>3 DEF RootTouched

LEMMA RootTouchedKeeps ==
    ASSUME Types, RootTouched
    PROVE  UNCHANGED <<direct, producers, out, stack, suspended, visited, outcome, asked, masked>>
<1>0. masked \in BOOLEAN
  BY DEF Types
<1>1. CASE Edit(outcome.root)
  <2>1. UNCHANGED <<direct, producers, out, stack, suspended, visited, outcome, asked>>
    BY <1>1 DEF Edit, walkVars, graphVars
  <2>2. masked' = masked
    BY <1>0, <1>1 DEF RootTouched, Edit, Touch
  <2> QED BY <2>1, <2>2
<1>2. CASE EditParameter(outcome.root)
  <2>1. UNCHANGED <<direct, producers, out, stack, suspended, visited, outcome, asked>>
    BY <1>2 DEF EditParameter, walkVars, graphVars
  <2>2. masked' = masked
    BY <1>0, <1>2 DEF RootTouched, EditParameter, Touch
  <2> QED BY <2>1, <2>2
<1> QED BY <1>1, <1>2 DEF RootTouched

LEMMA RootTouchedOrder ==
    ASSUME Types, PipelineGiven, NoCycles, WalkInv, RootTouched
    PROVE  WalkInv'
<1>1. UNCHANGED <<direct, producers, out, stack, suspended, visited, outcome, asked>> /\ calm' = FALSE
  BY RootTouchedKeeps DEF RootTouched
<1>2. PICK s \in Seq(FrameRecord), v \in SUBSET Visits, o \in Outcomes :
          s = stack /\ v = visited /\ o = outcome /\ s = stack' /\ v = visited' /\ o = outcome'
  BY <1>1 DEF Types
<1>3. StackOK(s, o) /\ AskedOK(s, v, o) /\ KeptOK(s, v) /\ StackInv
  BY <1>2 DEF WalkInv, StackInv, AskedInv, KeptInv
<1>4. StackOK(s, o)'
  BY <1>1, <1>3, StackRigid
<1>5. AskedOK(s, v, o)'
  BY <1>1, <1>3, AskedRigid
<1>6. KeptOK(s, v)'
  <2>1. DataStays
    BY <1>1 DEF DataStays, HasData
  <2> QED BY <2>1, <1>1, <1>3, KeptRigid
<1>7. TimesInv'
  <2> SUFFICES ASSUME NEW i \in DOMAIN s, Entered(s[i]), s[i].alg # o.root
               PROVE  s[i].mtime = MTime(s[i].alg)'
    BY <1>1, <1>2 DEF TimesInv, TimesOK, Entered
  <2>1. PICK a \in Algorithms : a = s[i].alg
    BY <1>2, FrameAt
  <2>2. ~Idle
    BY DEF RootTouched
  <2>3. s[i].mtime = MTime(a)
    BY <2>1, <2>2, <1>2, TimesParts DEF WalkInv
  <2>4. MTime(a)' = MTime(a)
    BY <2>1, <1>2, <1>3, RootApart, RootTouchedMTime
  <2> QED BY <2>1, <2>3, <2>4 DEF MTime
<1>8. OnceInv'
  BY <1>1 DEF OnceInv, OnceOK
<1> QED BY <1>2, <1>4, <1>5, <1>6, <1>7, <1>8 DEF WalkInv, StackInv, AskedInv, KeptInv

-----------------------------------------------------------------------------
(* An update begins, and returns to the callback that called it *)

LEMMA UpdateWalk ==
    ASSUME Types, NEW r \in Algorithms, NEW k \in Keys, Update(r, k)
    PROVE  WalkInv'
<1>1. PICK f \in FrameRecord : /\ f = Frame(r, k) /\ f.alg = r /\ f.key = k
                               /\ f.phase = "enter" /\ f.next = 1
  BY FirstFrame
<1>2. /\ stack' = <<f>> /\ visited' = {}
      /\ outcome'.result = "none" /\ outcome'.root = r /\ outcome'.key = k
  BY <1>1, FirstWalk DEF Update
<1>3. DOMAIN stack' = {1} /\ Len(stack') = 1 /\ stack'[1] = f
  BY <1>2
<1>4. HandledIn(visited)' = {} /\ HandledIn(visited') = {}
  BY <1>2 DEF HandledIn
<1>5. StackInv'
  <2>1. (\A i \in DOMAIN stack : Placed(stack[i]))'
    BY <1>1, <1>3 DEF Placed
  <2>2. (\A i \in DOMAIN stack : i < Len(stack) => Waits(stack, i))'
    BY <1>3
  <2>3. Ordered(stack)'
    BY <1>3 DEF Ordered
  <2>4. Rooted(stack, outcome)'
    BY <1>1, <1>2, <1>3 DEF Rooted
  <2> QED BY <2>1, <2>2, <2>3, <2>4 DEF StackInv, StackOK
<1>6. AskedInv'
  BY <1>1, <1>3, <1>4 DEF AskedInv, AskedOK, Entered
<1>7. KeptInv'
  BY <1>1, <1>3, <1>4 DEF KeptInv, KeptOK
<1>8. TimesInv'
  BY <1>1, <1>3 DEF TimesInv, TimesOK, Entered
<1>9. OnceInv'
  BY <1>1, <1>3, <1>4 DEF OnceInv, OnceOK, Executing
<1> QED BY <1>5, <1>6, <1>7, <1>8, <1>9 DEF WalkInv

\* It is called outside every update, or in a callback.
LEMMA UpdateWhere ==
    ASSUME NEW r, NEW k, Update(r, k)
    PROVE  /\ UNCHANGED <<clock, stamp, parameter, edits, direct, producers, out, updating, masked>>
           /\ visited' = {} /\ calm' = TRUE
           /\ \/ Idle /\ suspended = <<>> /\ suspended' = <<>> /\ asked' = {}
              \/ ~Idle /\ suspended' = Append(suspended, Suspension) /\ asked' = asked
BY DEF Update, Call, ProgramRuns, Outside, InCallback, graphVars

\* Who waits then: those that waited before, and the update that it is called in.
LEMMA UpdateSuspends ==
    ASSUME Types, suspended' = Append(suspended, Suspension), NEW w, Suspended(w)'
    PROVE  Suspended(w) \/ w = Suspension
<1>1. suspended \in Seq(WalkRecord)
  BY DEF Types
<1>2. PICK j \in DOMAIN suspended' : suspended'[j] = w
  BY DEF Suspended
<1>3. (j \in DOMAIN suspended /\ suspended'[j] = suspended[j]) \/ suspended'[j] = Suspension
  BY <1>1
<1> QED BY <1>2, <1>3 DEF Suspended

LEMMA UpdateCalm ==
    ASSUME Types, CalmInv, calm' = TRUE, suspended' = Append(suspended, Suspension)
    PROVE  CalmInv'
<1>1. suspended \in Seq(WalkRecord) /\ Suspension.calm = calm
  BY DEF Types, Suspension
<1>2. ASSUME NEW j \in DOMAIN suspended', j > 1 PROVE suspended'[j].calm
  <2>1. CASE j \in DOMAIN suspended
    BY <2>1, <1>1, <1>2 DEF CalmInv
  <2>2. CASE j \notin DOMAIN suspended
    <3>1. j = Len(suspended) + 1 /\ suspended'[j] = Suspension /\ suspended # <<>>
      BY <2>2, <1>1, <1>2
    <3> QED BY <3>1, <1>1 DEF CalmInv
  <2> QED BY <2>1, <2>2
<1> QED BY <1>2 DEF CalmInv

LEMMA UpdateOrder ==
    ASSUME Types, OneRequest, CalmInv, WalkInv, SuspendedInv,
           NEW r \in Algorithms, NEW k \in Keys, Update(r, k)
    PROVE  OneRequest' /\ CalmInv' /\ WalkInv' /\ SuspendedInv'
<1>1. WalkInv'
  BY UpdateWalk
<1>2. CASE Idle
  <2>1. suspended' = <<>> /\ asked' = {}
    BY <1>2, UpdateWhere
  <2> QED BY <2>1, <1>1 DEF OneRequest, CalmInv, SuspendedInv, Suspended
<1>3. CASE ~Idle
  <2>1. /\ suspended' = Append(suspended, Suspension) /\ asked' = asked /\ calm' = TRUE
        /\ UNCHANGED <<direct, producers, stamp, parameter, out>>
    BY <1>3, UpdateWhere
  <2>2. OneRequest' /\ CalmInv'
    BY <2>1, UpdateCalm DEF OneRequest
  <2>3. Bears
    BY <2>1, NothingMoves
  <2>4. ASSUME NEW w \in WalkRecord, Suspended(w)' PROVE OrderOK(w)'
    <3>1. Suspended(w) \/ w = Suspension
      BY <2>1, <2>4, UpdateSuspends
    <3>2. OrderOK(w)
      BY <3>1, OrderAsWaiting DEF SuspendedInv
    <3> QED BY <3>2, <2>3, OrderRigid
  <2> QED BY <1>1, <2>2, <2>4 DEF SuspendedInv
<1> QED BY <1>2, <1>3

LEMMA ReturnWhere ==
    ASSUME Types, Waiting, CalmInv, Return
    PROVE  \E w \in WalkRecord :
               /\ w = Last(suspended) /\ Suspended(w) /\ w.stack # <<>>
               /\ stack' = w.stack /\ visited' = w.visited /\ outcome' = w.outcome
               /\ calm' = w.calm
               /\ \A u : Suspended(u)' => Suspended(u)
               /\ CalmInv'
<1>1. suspended # <<>> /\ suspended' = Front(suspended) /\ calm
  BY DEF Return, CalmInv
<1>2. PICK n : n = Len(suspended) /\ n \in Nat \ {0} /\ DOMAIN suspended = 1..n
               /\ n \in DOMAIN suspended
               /\ Last(suspended) = suspended[n] /\ DOMAIN suspended' = 1..(n - 1)
               /\ \A j \in 1..(n - 1) : j \in DOMAIN suspended /\ suspended'[j] = suspended[j]
  BY <1>1, LastSuspended
<1>3. PICK w \in WalkRecord : w = Last(suspended)
  BY <1>1, LastSuspended
<1>4. Suspended(w) /\ w.stack # <<>>
  BY <1>2, <1>3 DEF Suspended, Waiting
<1>5. calm' = w.calm
  <2>1. calm' = (calm /\ w.calm) /\ w.calm \in BOOLEAN
    BY <1>3 DEF Return, WalkRecord
  <2> QED BY <2>1, <1>1
<1>6. stack' = w.stack /\ visited' = w.visited /\ outcome' = w.outcome
  BY <1>3 DEF Return
<1>7. \A u : Suspended(u)' => Suspended(u)
  BY <1>2 DEF Suspended
<1>8. CalmInv'
  <2>1. \A j \in DOMAIN suspended' : j > 1 => suspended'[j].calm
    BY <1>2 DEF CalmInv
  <2>2. suspended' # <<>> => calm'
    <3> SUFFICES ASSUME suspended' # <<>> PROVE w.calm
      BY <1>5
    <3>1. n > 1
      <4>1. n = 1 => suspended' = <<>>
        BY <1>1, <1>2 DEF Front
      <4> QED BY <4>1, <1>2
    <3> QED BY <3>1, <1>2, <1>3 DEF CalmInv
  <2> QED BY <2>1, <2>2 DEF CalmInv
<1> QED BY <1>3, <1>4, <1>5, <1>6, <1>7, <1>8

LEMMA ReturnOrder ==
    ASSUME Types, Waiting, OneRequest, CalmInv, SuspendedInv, Return
    PROVE  OneRequest' /\ CalmInv' /\ WalkInv' /\ SuspendedInv'
<1>1. PICK w \in WalkRecord :
               /\ Suspended(w)
               /\ stack' = w.stack /\ visited' = w.visited /\ outcome' = w.outcome
               /\ calm' = w.calm
               /\ \A u : Suspended(u)' => Suspended(u)
               /\ CalmInv'
  BY ReturnWhere
<1>2. UNCHANGED <<direct, producers, stamp, parameter, out, asked>>
  BY DEF Return, graphVars
<1>3. Bears
  BY <1>2, NothingMoves
<1>4. OrderOK(w)'
  BY <1>1, <1>3, SuspendedRigid
<1>5. WalkInv'
  BY <1>1, <1>4, OrderGoesOn
<1>6. SuspendedInv'
  BY <1>1, <1>3, SuspendedRigid DEF SuspendedInv
<1>7. OneRequest'
  BY <1>2 DEF OneRequest
<1> QED BY <1>1, <1>5, <1>6, <1>7

-----------------------------------------------------------------------------
(* Every step keeps the order *)

LEMMA ProgramOrder ==
    ASSUME Types, PipelineGiven, NoCycles, Program, ~masked',
           OneRequest, CalmInv, WalkInv, SuspendedInv
    PROVE  OneRequest' /\ CalmInv' /\ WalkInv' /\ SuspendedInv'
<1>1. CASE Starts
  BY <1>1, UpdateOrder DEF Starts
<1>2. CASE Signals
  <2>1. UNCHANGED <<direct, producers, stamp, parameter, out, asked, stack, visited, outcome, calm,
                    suspended>>
    BY <1>2 DEF Signals
  <2>2. Bears
    BY <2>1, NothingMoves
  <2>3. OneRequest' /\ CalmInv'
    BY <2>1 DEF OneRequest, CalmInv
  <2> QED BY <2>1, <2>2, <2>3, OrderUnmoved, SuspendedUnmoved
<1>3. CASE Calls
  <2>1. stack' = <<>> /\ suspended' = <<>> /\ asked' = asked
    BY <1>3 DEF Calls, Outside, Idle
  <2>2. WalkInv'
    BY <2>1 DEF WalkInv, StackInv, StackOK, AskedInv, AskedOK, KeptInv, KeptOK, TimesInv, TimesOK,
                OnceInv, OnceOK
  <2> QED BY <2>1, <2>2 DEF OneRequest, CalmInv, SuspendedInv, Suspended
<1>4. CASE RootTouched
  <2>1. suspended = <<>> /\ suspended' = <<>> /\ asked' = asked
    BY <1>4, RootTouchedKeeps DEF RootTouched
  <2>2. WalkInv'
    BY <1>4, RootTouchedOrder
  <2> QED BY <2>1, <2>2 DEF OneRequest, CalmInv, SuspendedInv, Suspended
<1> QED BY <1>1, <1>2, <1>3, <1>4, QuietProgram

LEMMA WalkBears ==
    ASSUME Types, StackInv, AskedInv, OneRequest, OnceInv, calm, Walk
    PROVE  Bears
BY WalkKeeps, AskedMore, WalkData, WalkValidStays DEF Bears, Keeps

LEMMA WalkOrder ==
    ASSUME Types, PipelineGiven, NoCycles, Walk, ~masked',
           OneRequest, CalmInv, WalkInv, SuspendedInv
    PROVE  OneRequest' /\ CalmInv' /\ WalkInv' /\ SuspendedInv'
<1>1. OneRequest'
  BY WalkOne
<1>2. suspended' = suspended /\ calm' = calm
  BY WalkKeeps DEF Keeps
<1>3. CalmInv'
  BY <1>2 DEF CalmInv
<1>4. WalkInv'
  BY WalkStack, WalkAsked, WalkKept, WalkTimes, WalkOnce DEF WalkInv
<1>5. suspended # <<>> => Bears
  BY WalkBears DEF CalmInv, WalkInv
<1>6. SuspendedInv'
  BY <1>2, <1>5, SuspendedUnmoved
<1> QED BY <1>1, <1>3, <1>4, <1>6

LEMMA MaskedStays == ASSUME Types, [Next]_vars, ~masked' PROVE ~masked
<1>1. CASE Program
  BY <1>1, QuietProgram
<1>2. CASE Walk
  BY <1>2, WalkKeeps
<1>3. CASE Return \/ UNCHANGED vars
  BY <1>3 DEF Return, vars
<1> QED BY <1>1, <1>2, <1>3 DEF Next

LEMMA OrderNext == PipelineGiven /\ OrderInv /\ [Next]_vars => OrderInv'
<1> SUFFICES ASSUME PipelineGiven, OrderInv, [Next]_vars PROVE OrderInv'
  OBVIOUS
<1>1. TypeInv' /\ TypeInv
  BY TypeNext DEF OrderInv
<1> SUFFICES ASSUME ~masked' PROVE OneRequest' /\ CalmInv' /\ WalkInv' /\ SuspendedInv'
  BY <1>1 DEF OrderInv
<1>2. Types /\ NoCycles /\ Waiting /\ OneRequest /\ CalmInv /\ WalkInv /\ SuspendedInv
  BY <1>1, MaskedStays DEF OrderInv, TypeInv
<1>3. CASE Program
  BY <1>2, <1>3, ProgramOrder
<1>4. CASE Walk
  BY <1>2, <1>4, WalkOrder
<1>5. CASE Return
  BY <1>2, <1>5, ReturnOrder
<1>6. CASE UNCHANGED vars
  <2>1. UNCHANGED <<direct, producers, stamp, parameter, out, asked, stack, visited, outcome, calm,
                    suspended>>
    BY <1>6 DEF vars, graphVars
  <2>2. Bears
    BY <2>1, NothingMoves
  <2>3. OneRequest' /\ CalmInv'
    BY <1>2, <2>1 DEF OneRequest, CalmInv
  <2> QED BY <1>2, <2>1, <2>2, <2>3, OrderUnmoved, SuspendedUnmoved
<1> QED BY <1>3, <1>4, <1>5, <1>6 DEF Next

-----------------------------------------------------------------------------
(* Outputs that are valid by their time *)

\* What is valid and what was served stay so.
Unmoved == UNCHANGED <<stamp, parameter, edits, direct, producers, out>> /\ (masked => masked')

LEMMA ServedStays ==
    ASSUME Types, NEW a \in Algorithms, NEW k \in Keys, UNCHANGED <<edits, direct, producers>>,
           out'[a] = out[a], Served(a, k)
    PROVE  Served(a, k)'
<1>1. Fresh(a, k)' = Fresh(a, k)
  BY FreshStays
<1> QED BY <1>1 DEF Served, HasData

LEMMA ValidUnmoved ==
    ASSUME Types, ValidInv, Unmoved PROVE ValidInv'
<1> SUFFICES ASSUME ~masked', NEW a \in Algorithms, Valid(a)'
             PROVE  out'[a].key \in Keys /\ Served(a, out[a].key)'
  BY DEF ValidInv, Keys
<1>1. Valid(a) /\ ~masked
  BY DEF Valid, HasData, MTime, Unmoved
<1>2. PICK k : k = out[a].key /\ k = out'[a].key /\ k \in Keys /\ Served(a, k)
  BY <1>1 DEF ValidInv, Unmoved
<1>3. Served(a, k)'
  BY <1>2, ServedStays DEF Unmoved
<1> QED BY <1>2, <1>3 DEF Served, Fresh, HasData

\* A change that an algorithm did not hear of is none of what its output is computed from.
\* What x is heard of by has a later time than all that was published.
LEMMA HeardOf ==
    ASSUME Types, Clocked, NEW x \in Objects, stamp' = Modified(x), UNCHANGED <<parameter, out>>,
           NEW a \in Algorithms, Valid(a)'
    PROVE  a \notin Reached(x) /\ Valid(a)
<1>1. clock \in Nat /\ out[a].mtime \in Nat /\ out[a].mtime <= clock
      /\ parameter[a] \in Nat /\ stamp[a] \in Nat /\ a \in Objects
  BY DEF Types, Clocked, Output, Objects
<1>2. out[a].mtime = IF parameter[a] > stamp'[a] THEN parameter[a] ELSE stamp'[a]
  BY DEF Valid, MTime
<1>3. a \notin Reached(x)
  <2> SUFFICES ASSUME a \in Reached(x) PROVE FALSE
    OBVIOUS
  <2>1. stamp'[a] = clock + 1
    BY <1>1, ModifiedTimes
  <2> QED BY <2>1, <1>1, <1>2
<1>4. stamp'[a] = stamp[a]
  BY <1>1, <1>3, ModifiedTimes
<1>5. HasData(a)
  BY DEF Valid, HasData
<1> QED BY <1>2, <1>3, <1>4, <1>5 DEF Valid, MTime

\* What does not reach a is not among what a is computed from.
LEMMA NotUpstream ==
    ASSUME Types, NEW x, NEW a \in Algorithms, NEW k \in Keys, a \notin Reached(x)
    PROVE  \A r \in Requested(a, k) : r[1] # x /\ direct[r[1]] # x
BY RequestedUpstream

LEMMA EditKeepsFresh ==
    ASSUME Types, NEW x, NEW a \in Algorithms, NEW k \in Keys, a \notin Reached(x),
           edits' = [edits EXCEPT ![x] = edits[x] + 1], UNCHANGED <<direct, producers>>
    PROVE  Fresh(a, k)' = Fresh(a, k)
<1>1. ASSUME NEW y, y # x, y \in Objects PROVE edits'[y] = edits[y]
  BY <1>1 DEF Types
<1>2. ASSUME NEW r \in Requested(a, k)
      PROVE  /\ edits'[r[1]] = edits[r[1]]
             /\ direct[r[1]] # None => edits'[direct[r[1]]] = edits[direct[r[1]]]
  <2>1. r[1] \in Algorithms
    BY RequestedIn DEF Requests
  <2>2. r[1] \in Objects /\ (direct[r[1]] # None => direct[r[1]] \in Objects)
    BY <2>1 DEF Types, Objects
  <2> QED BY <2>2, <1>1, NotUpstream
<1> QED BY <1>2, FreshSame

LEMMA RewireKeepsFresh ==
    ASSUME Types, NEW x \in Algorithms, NEW a \in Algorithms, NEW k \in Keys, a \notin Reached(x),
           \A b \in Algorithms : b # x => producers'[b] = producers[b] /\ direct'[b] = direct[b],
           UNCHANGED edits
    PROVE  Fresh(a, k)' = Fresh(a, k)
<1>1. ASSUME NEW r \in Requested(a, k)
      PROVE  producers'[r[1]] = producers[r[1]] /\ direct'[r[1]] = direct[r[1]]
  <2>1. r[1] \in Algorithms
    BY RequestedIn DEF Requests
  <2> QED BY <2>1, NotUpstream
<1> QED BY <1>1, FreshSame

\* A change that leaves the valid outputs what they should be.
LEMMA ValidChanged ==
    ASSUME Types, ValidInv, masked => masked', UNCHANGED out,
           \A a \in Algorithms : Valid(a)' =>
               Valid(a) /\ \A k \in Keys : Fresh(a, k)' = Fresh(a, k)
    PROVE  ValidInv'
<1> SUFFICES ASSUME ~masked', NEW a \in Algorithms, Valid(a)'
             PROVE  out'[a].key \in Keys /\ Served(a, out[a].key)'
  BY DEF ValidInv, Keys
<1>1. PICK k : k = out[a].key /\ k = out'[a].key /\ k \in Keys /\ Served(a, k)
  BY DEF ValidInv
<1>2. Fresh(a, k)' = Fresh(a, k)
  BY <1>1
<1>3. /\ out'[a].content # {} /\ out'[a].content = Fresh(a, k)'
  BY <1>1, <1>2 DEF Served, HasData
<1> QED BY <1>1, <1>3 DEF Served, HasData, Fresh
LEMMA RewiredValid ==
    ASSUME Types, Clocked, ValidInv, masked => masked', NEW a \in Algorithms, Rewired(a),
           \A b \in Algorithms : b # a => producers'[b] = producers[b] /\ direct'[b] = direct[b]
    PROVE  ValidInv'
<1>1. stamp' = Modified(a) /\ UNCHANGED <<parameter, out, edits>> /\ a \in Objects
  BY DEF Rewired, Objects
<1>2. ASSUME NEW b \in Algorithms, Valid(b)'
      PROVE  Valid(b) /\ \A k \in Keys : Fresh(b, k)' = Fresh(b, k)
  <2>1. b \notin Reached(a) /\ Valid(b)
    BY <1>1, <1>2, HeardOf
  <2> QED BY <1>1, <2>1, RewireKeepsFresh
<1> QED BY <1>1, <1>2, ValidChanged

LEMMA ProgramMasked == ASSUME Types, Program, masked PROVE masked'
<1>1. Changes \/ Sets \/ NewInputs \/ Releases => masked'
  BY DEF Changes, Sets, NewInputs, Releases, Edit, EditParameter, Rewired, ReleaseOutput, Touch,
         Disturb
<1>2. Signals \/ Starts => masked'
  BY DEF Signals, Starts, Update
<1> QED BY <1>1, <1>2, ProgramCases

\* A parameter that nobody observes changes only while nobody uses the output.
LEMMA SetValid ==
    ASSUME Types, Clocked, ValidInv, ~ParameterWhileConsumed, masked => masked',
           NEW a \in Algorithms, EditParameter(a)
    PROVE  ValidInv'
<1>1. /\ parameter' = [parameter EXCEPT ![a] = clock + 1]
      /\ edits' = [edits EXCEPT ![a] = edits[a] + 1]
      /\ UNCHANGED <<stamp, out, direct, producers>> /\ Consumers(a) = {}
  BY DEF EditParameter, graphVars
<1>2. ASSUME NEW b \in Algorithms, Valid(b)'
      PROVE  Valid(b) /\ \A k \in Keys : Fresh(b, k)' = Fresh(b, k)
  <2>1. /\ clock \in Nat /\ out[b].mtime \in Nat /\ out[b].mtime <= clock
        /\ stamp[b] \in Nat /\ stamp[b] <= clock
    BY DEF Types, Clocked, Output, Objects
  <2>2. out[b].mtime = IF parameter'[b] > stamp[b] THEN parameter'[b] ELSE stamp[b]
    BY <1>1, <1>2 DEF Valid, MTime
  <2>3. b # a
    <3> SUFFICES ASSUME b = a PROVE FALSE
      OBVIOUS
    <3>1. parameter'[b] = clock + 1
      BY <1>1 DEF Types
    <3> QED BY <3>1, <2>1, <2>2
  <2>4. parameter'[b] = parameter[b]
    BY <1>1, <2>3 DEF Types
  <2>5. Valid(b)
    BY <1>1, <1>2, <2>2, <2>4 DEF Valid, HasData, MTime
  <2>6. b \notin Reached(a)
    <3>1. Reached(a) = {a} \cup Below(a)
      BY ReachedUnfold
    <3>2. Below(a) = {}
      BY <1>1 DEF Below
    <3> QED BY <3>1, <3>2, <2>3
  <2> QED BY <1>1, <2>5, <2>6, EditKeepsFresh
<1> QED BY <1>1, <1>2, ValidChanged

LEMMA ReleaseValid ==
    ASSUME Types, ValidInv, masked => masked', NEW a \in Algorithms, ReleaseOutput(a)
    PROVE  ValidInv'
<1>1. out' = [out EXCEPT ![a] = Empty] /\ Empty.content = {}
      /\ UNCHANGED <<stamp, parameter, edits, direct, producers>>
  BY DEF ReleaseOutput, Empty, graphVars
<1> SUFFICES ASSUME ~masked', NEW b \in Algorithms, Valid(b)'
             PROVE  out'[b].key \in Keys /\ Served(b, out[b].key)'
  BY DEF ValidInv, Keys
<1>2. b # a
  BY <1>1 DEF Valid, HasData, Types
<1>3. out'[b] = out[b]
  BY <1>1, <1>2 DEF Types
<1>4. Valid(b)
  BY <1>1, <1>3 DEF Valid, HasData, MTime
<1>5. PICK k : k = out[b].key /\ k = out'[b].key /\ k \in Keys /\ Served(b, k)
  BY <1>3, <1>4 DEF ValidInv
<1>6. Served(b, k)'
  BY <1>1, <1>3, <1>5, ServedStays
<1> QED BY <1>5, <1>6 DEF Served, Fresh, HasData

LEMMA ProgramValid ==
    ASSUME Types, Clocked, ValidInv, ~ParameterWhileConsumed, Program PROVE ValidInv'
<1>0. masked => masked'
  BY ProgramMasked
<1>1. CASE Changes
  <2>1. PICK x \in Objects : Edit(x)
    BY <1>1 DEF Changes
  <2>2. stamp' = Modified(x) /\ UNCHANGED <<parameter, out, direct, producers>>
        /\ edits' = [edits EXCEPT ![x] = edits[x] + 1]
    BY <2>1 DEF Edit, graphVars
  <2>3. ASSUME NEW b \in Algorithms, Valid(b)'
        PROVE  Valid(b) /\ \A k \in Keys : Fresh(b, k)' = Fresh(b, k)
    <3>1. b \notin Reached(x) /\ Valid(b)
      BY <2>2, <2>3, HeardOf
    <3> QED BY <2>2, <3>1, EditKeepsFresh
  <2> QED BY <1>0, <2>2, <2>3, ValidChanged
<1>2. CASE Sets
  BY <1>0, <1>2, SetValid DEF Sets
<1>3. CASE NewInputs
  <2>1. PICK a \in Algorithms, s \in Seq(Algorithms), d \in Data \cup {None} :
            /\ Rewired(a)
            /\ producers' = [producers EXCEPT ![a] = s]
            /\ direct' = [direct EXCEPT ![a] = d]
    BY <1>3 DEF NewInputs
  <2>2. \A b \in Algorithms : b # a => producers'[b] = producers[b] /\ direct'[b] = direct[b]
    BY <2>1 DEF Types
  <2> QED BY <1>0, <2>1, <2>2, RewiredValid
<1>4. CASE Releases
  BY <1>0, <1>4, ReleaseValid DEF Releases
<1>5. CASE Signals
  BY <1>0, <1>5, ValidUnmoved DEF Signals, Unmoved
<1>6. CASE Starts
  BY <1>0, <1>6, UpdateWhere, ValidUnmoved DEF Starts, Unmoved
<1> QED BY <1>1, <1>2, <1>3, <1>4, <1>5, <1>6, ProgramCases

-----------------------------------------------------------------------------
(* What an update asks for is served *)

\* An execution whose inputs are served computes what a computation from scratch would give.
LEMMA ComputedFresh ==
    ASSUME Types, NEW a \in Algorithms, NEW k \in Keys,
           \A i \in DOMAIN producers[a] : Served(producers[a][i], MapRequest(a, i, k))
    PROVE  Computed(a, k) = Fresh(a, k)
<1>1. Fresh(a, k) = Added(a, k) \cup
               UNION {Fresh(producers[a][i], MapRequest(a, i, k)) : i \in DOMAIN producers[a]}
  BY FreshUnfold
<1>2. \A i \in DOMAIN producers[a] :
          out[producers[a][i]].content = Fresh(producers[a][i], MapRequest(a, i, k))
  BY DEF Served
<1>3. UNION {out[p].content : p \in ToSet(producers[a])}
          = UNION {Fresh(producers[a][i], MapRequest(a, i, k)) : i \in DOMAIN producers[a]}
  <2>1. ASSUME NEW e, NEW p \in ToSet(producers[a]), e \in out[p].content
        PROVE  \E i \in DOMAIN producers[a] : e \in Fresh(producers[a][i], MapRequest(a, i, k))
    <3>1. PICK i \in DOMAIN producers[a] : p = producers[a][i]
      BY DEF ToSet
    <3> QED BY <3>1, <2>1, <1>2
  <2>2. ASSUME NEW e, NEW i \in DOMAIN producers[a], e \in Fresh(producers[a][i], MapRequest(a, i, k))
        PROVE  \E p \in ToSet(producers[a]) : e \in out[p].content
    <3>1. producers[a][i] \in ToSet(producers[a])
      BY DEF ToSet
    <3> QED BY <3>1, <2>2, <1>2
  <2> QED BY <2>1, <2>2
<1> QED BY <1>1, <1>3 DEF Computed
LEMMA ServedParts ==
    ASSUME ServedInv, ~Idle
    PROVE  /\ \A i \in DOMAIN stack : \A n \in Nat : Done(stack[i], n) => ServedRequest(stack[i], n)
           /\ Top.phase = "child" => ServedRequest(Top, Top.next)
           /\ \A q \in Handled : q[1] # outcome.root \/ calm => Served(q[1], q[2])
BY LastFrame DEF ServedInv, ServedOK, Idle, Handled

LEMMA ExecuteServes ==
    ASSUME Types, StackInv, ServedInv, ~Idle, Execute,
           NEW a, NEW k, a = Top.alg, k = Top.key
    PROVE  Served(a, k)'
<1>1. a \in Algorithms /\ k \in Keys
  BY TopIs, FrameFields
<1>2. PICK n : n = Len(stack) /\ n \in DOMAIN stack /\ Top = stack[n]
  BY TopIs
<1>3. Top.next = Len(producers[a]) + 1
  <2>1. Placed(Top) /\ Top.phase = "data"
    BY <1>2, StackParts DEF Execute
  <2> QED BY <2>1 DEF Placed
<1>4. ASSUME NEW i \in DOMAIN producers[a]
      PROVE  Served(producers[a][i], MapRequest(a, i, k))
  <2>1. producers[a] \in Seq(Algorithms)
    BY <1>1 DEF Types
  <2>2. i \in Nat /\ i < Top.next
    BY <2>1, <1>3
  <2>3. Done(Top, i)
    BY <2>2 DEF Done
  <2>4. ServedRequest(Top, i)
    BY <1>2, <2>2, <2>3, ServedParts
  <2> QED BY <2>4 DEF ServedRequest, ProducerOf, RequestOf
<1>5. Computed(a, k) = Fresh(a, k)
  BY <1>1, <1>4, ComputedFresh
<1>6. out'[a].content = Computed(a, k) /\ out'[a].key = k /\ Computed(a, k) # {}
  BY ExecutePublishes
<1>7. UNCHANGED <<edits, direct, producers>>
  BY DEF Execute, graphVars
<1>8. Fresh(a, k)' = Fresh(a, k)
  BY <1>1, <1>7, FreshStays
<1> QED BY <1>5, <1>6, <1>8 DEF Served, HasData

LEMMA WalkValid ==
    ASSUME Types, ~masked => StackInv /\ ServedInv, ValidInv, Walk
    PROVE  ValidInv'
<1>0. ~Idle
  BY DEF Walk
<1>1. CASE ~Execute
  BY <1>1, WalkKeeps, ValidUnmoved DEF Unmoved, Keeps
<1>2. CASE Execute
  <2> SUFFICES ASSUME ~masked', NEW b \in Algorithms, Valid(b)'
               PROVE  out'[b].key \in Keys /\ Served(b, out[b].key)'
    BY DEF ValidInv, Keys
  <2>1. ~masked /\ UNCHANGED <<edits, direct, producers, stamp, parameter>>
    BY <1>2 DEF Execute, graphVars
  <2>2. CASE b = Top.alg
    <3>1. PICK k : k = Top.key /\ k \in Keys
      BY <1>0, TopIs, FrameFields
    <3>2. out'[b].key = k
      BY <2>2, <3>1, <1>0, <1>2, ExecutePublishes
    <3>3. Served(b, k)'
      BY <2>1, <2>2, <3>1, <1>0, <1>2, ExecuteServes
    <3> QED BY <3>1, <3>2, <3>3 DEF Served, Fresh, HasData
  <2>3. CASE b # Top.alg
    <3>1. out'[b] = out[b]
      BY <2>3, <1>0, <1>2, ExecutePublishes
    <3>2. Valid(b)
      BY <2>1, <3>1 DEF Valid, HasData, MTime
    <3>3. PICK k : k = out[b].key /\ k = out'[b].key /\ k \in Keys /\ Served(b, k)
      BY <2>1, <3>1, <3>2 DEF ValidInv
    <3>4. Served(b, k)'
      BY <2>1, <3>1, <3>3, ServedStays
    <3> QED BY <3>3, <3>4 DEF Served, Fresh, HasData
  <2> QED BY <2>2, <2>3
<1> QED BY <1>1, <1>2

\* A request that was asked for and is served stays so.
RequestsStay == \A q \in asked : Served(q[1], q[2]) => Served(q[1], q[2])'

LEMMA WalkRequestsStay ==
    ASSUME Types, StackInv, AskedInv, ServedInv, OneRequest, Walk
    PROVE  RequestsStay
<1>0. ~Idle /\ UNCHANGED <<edits, direct, producers>>
  BY WalkMoves, WalkKeeps DEF Keeps
<1> SUFFICES ASSUME NEW a \in Algorithms, NEW k \in Keys, <<a, k>> \in asked, Served(a, k)
             PROVE  Served(a, k)'
  <2> SUFFICES ASSUME NEW q \in asked, Served(q[1], q[2]) PROVE Served(q[1], q[2])'
    BY DEF RequestsStay
  <2>1. q[1] \in Algorithms /\ q[2] \in Keys /\ q = <<q[1], q[2]>>
    BY AskedTyped
  <2> QED BY <2>1
<1>1. CASE Execute /\ a = Top.alg
  <2>1. TopRequest \in asked
    BY <1>0, <1>1, TopAsked DEF Execute, Entered
  <2>2. <<a, k>> = TopRequest
    BY <2>1, <1>1 DEF OneRequest, TopRequest
  <2>3. k = Top.key
    BY <2>2 DEF TopRequest
  <2> QED BY <2>3, <1>0, <1>1, ExecuteServes
<1>2. CASE ~(Execute /\ a = Top.alg)
  <2>1. out'[a] = out[a]
    BY <1>0, <1>2, ExecutePublishes, WalkKeeps
  <2> QED BY <2>1, <1>0, ServedStays
<1> QED BY <1>1, <1>2

\* What is unchanged is served as before.
LEMMA StillServed ==
    ASSUME Types, UNCHANGED <<edits, direct, producers, out>> PROVE RequestsStay
<1> SUFFICES ASSUME NEW q \in asked, Served(q[1], q[2]) PROVE Served(q[1], q[2])'
  BY DEF RequestsStay
<1>1. q[1] \in Algorithms /\ q[2] \in Keys
  BY AskedTyped
<1> QED BY <1>1, ServedStays

LEMMA ServedRequestStays ==
    ASSUME RequestsStay, asked \subseteq asked', UNCHANGED producers, NEW f, NEW n,
           ServedRequest(f, n)
    PROVE  ServedRequest(f, n)'
<1>1. PICK b, k : b = ProducerOf(f, n) /\ k = RequestOf(f, n)
  OBVIOUS
<1>2. Served(b, k) /\ <<b, k>> \in asked
  BY <1>1 DEF ServedRequest
<1>3. Served(b, k)' /\ <<b, k>> \in asked'
  BY <1>2 DEF RequestsStay
<1>4. ProducerOf(f, n)' = b /\ RequestOf(f, n)' = k
  BY <1>1 DEF ProducerOf, RequestOf, MapRequest
<1> QED BY <1>3, <1>4 DEF ServedRequest, Served, HasData, Fresh

\* A walk that does not move.
LEMMA ServedRigid ==
    ASSUME NEW s, NEW v, NEW o, NEW c, ServedOK(s, v, o, c), AskedOK(s, v, o),
           RequestsStay, asked \subseteq asked', UNCHANGED producers
    PROVE  ServedOK(s, v, o, c)'
<1> SUFFICES ASSUME s # <<>> PROVE ServedOK(s, v, o, c)'
  BY DEF ServedOK
<1>1. ASSUME NEW i \in DOMAIN s, NEW n \in Nat, Done(s[i], n)' PROVE ServedRequest(s[i], n)'
  <2>1. PICK f : f = s[i]
    OBVIOUS
  <2>2. ServedRequest(f, n)
    BY <1>1, <2>1 DEF Done, ServedOK
  <2> QED BY <2>1, <2>2, ServedRequestStays DEF ServedRequest
<1>2. ASSUME s[Len(s)].phase = "child" PROVE ServedRequest(s[Len(s)], s[Len(s)].next)'
  <2>1. PICK f, n : f = s[Len(s)] /\ n = s[Len(s)].next
    OBVIOUS
  <2>2. ServedRequest(f, n)
    BY <1>2, <2>1 DEF ServedOK
  <2> QED BY <2>1, <2>2, ServedRequestStays DEF ServedRequest
<1>3. ASSUME NEW q \in HandledIn(v), q[1] # o.root \/ c PROVE Served(q[1], q[2])'
  BY <1>3 DEF ServedOK, AskedOK, RequestsStay
<1> QED BY <1>1, <1>2, <1>3 DEF ServedOK, HandledIn

LEMMA ContentRigid ==
    ASSUME NEW w, ContentOK(w), OrderOK(w), RequestsStay, asked \subseteq asked',
           UNCHANGED producers
    PROVE  ContentOK(w)'
<1>1. PICK s, v, o, c : s = w.stack /\ v = w.visited /\ o = w.outcome /\ c = w.calm
  OBVIOUS
<1>2. ServedOK(s, v, o, c) /\ AskedOK(s, v, o)
  BY <1>1 DEF ContentOK, OrderOK
<1>3. ServedOK(s, v, o, c)'
  BY <1>2, ServedRigid
<1> QED BY <1>1, <1>3 DEF ContentOK

-----------------------------------------------------------------------------
(* The walk asks for what is served *)

\* What is valid by its time is that of its request.
LEMMA ValidServed ==
    ASSUME ValidInv, ~masked, NEW a \in Algorithms, NEW k, Valid(a), out[a].key = k
    PROVE  Served(a, k)
BY DEF ValidInv

\* A request that leaves was served.
LEMMA LeavesServed ==
    ASSUME Types, AskedInv, TimesInv, ServedInv, ValidInv, ~masked, ~Idle, Leaves,
           Top.alg # outcome.root \/ calm,
           NEW a, NEW k, a = Top.alg, k = Top.key
    PROVE  Served(a, k)
<1>1. a \in Algorithms /\ TopRequest[1] = a /\ TopRequest[2] = k
  BY TopIs, FrameFields DEF TopRequest
<1>2. CASE Valid(a) /\ out[a].key = k
  BY <1>1, <1>2, ValidServed
<1>3. CASE TopRequest \in Handled
  <2>1. Served(TopRequest[1], TopRequest[2])
    BY <1>1, <1>3, ServedParts
  <2> QED BY <1>1, <2>1
<1>4. CASE Top.phase = "ended"
  BY <1>3, <1>4, TopAsked DEF Leaves
<1>5. CASE Top.phase = "inputs" /\ Published(Top, Top.mtime)
  <2>1. Top.mtime = MTime(a)
    BY <1>5, TopIs, TimesParts DEF Entered
  <2> QED BY <1>2, <1>5, <2>1 DEF Published, Valid, HasData
<1> QED BY <1>2, <1>3, <1>4, <1>5 DEF Leaves

LEMMA ServedGoes ==
    ASSUME Types, StackInv, AskedInv, ServedInv, ValidInv, RequestsStay, ~masked, ~Idle, Walk,
           Keeps, NEW f \in FrameRecord, Goes(f)
    PROVE  ServedInv'
<1>1. PICK n : n = Len(stack) /\ n \in DOMAIN stack /\ Top = stack[n] /\ Top \in FrameRecord
  BY TopIs
<1>2. /\ DOMAIN stack' = DOMAIN stack /\ stack'[n] = f /\ Len(stack') = n
      /\ \A i \in DOMAIN stack : i # n => stack'[i] = stack[i]
  BY <1>1, ReplacedStack DEF Goes
<1>3. UNCHANGED <<direct, producers, calm>> /\ asked \subseteq asked'
  BY AskedMore DEF Keeps
<1>4. f.phase # "child" /\ f.alg = Top.alg /\ f.key = Top.key /\ outcome'.root = outcome.root
  BY DEF Goes
<1>5. ASSUME NEW m \in Nat, Done(f, m) PROVE ServedRequest(f, m)
  <2>1. ProducerOf(f, m) = ProducerOf(Top, m) /\ RequestOf(f, m) = RequestOf(Top, m)
    BY <1>4 DEF ProducerOf, RequestOf
  <2>2. m \in DOMAIN producers[Top.alg] /\ m < f.next /\ Top.next \in Nat
    BY <1>1, <1>4, <1>5, FrameFields DEF Done
  <2>3. CASE m < Top.next
    <3>1. Done(Top, m)
      BY <2>2, <2>3 DEF Done
    <3>2. ServedRequest(Top, m)
      BY <3>1, <1>1, ServedParts
    <3> QED BY <3>2, <2>1 DEF ServedRequest
  <2>4. CASE ~(m < Top.next)
    <3>1. Top.phase = "child" /\ m = Top.next
      BY <2>2, <2>4 DEF Goes
    <3>2. ServedRequest(Top, m)
      BY <3>1, ServedParts
    <3> QED BY <3>2, <2>1 DEF ServedRequest
  <2> QED BY <2>3, <2>4
<1>6. ASSUME NEW i \in DOMAIN stack', NEW m \in Nat, NEW g, g = stack'[i], Done(g, m)
      PROVE  ServedRequest(g, m)'
  <2>1. ServedRequest(g, m)
    <3>1. CASE i = n
      BY <3>1, <1>2, <1>5, <1>6
    <3>2. CASE i # n
      BY <3>2, <1>2, <1>6, ServedParts
    <3> QED BY <3>1, <3>2
  <2> QED BY <2>1, <1>3, ServedRequestStays
<1>7. ASSUME NEW q \in Handled', q[1] # outcome.root \/ calm PROVE Served(q[1], q[2])'
  <2>1. CASE q \in Handled
    <3>1. Served(q[1], q[2]) /\ q \in asked
      BY <2>1, <1>7, ServedParts, AskedParts
    <3> QED BY <3>1 DEF RequestsStay
  <2>2. CASE q \notin Handled
    <3>1. q = TopRequest /\ (Execute \/ Published(Top, MTime(Top.alg))) /\ Entered(Top)
      BY <2>2, <1>7 DEF Goes, Entered
    <3>2. PICK a \in Algorithms, k \in Keys : a = Top.alg /\ k = Top.key
      BY TopIs, FrameFields
    <3>3. q = <<a, k>> /\ q[1] = a /\ q[2] = k
      BY <3>1, <3>2 DEF TopRequest
    <3>4. CASE Execute
      BY <3>2, <3>3, <3>4, ExecuteServes
    <3>5. CASE Published(Top, MTime(Top.alg))
      <4>1. Valid(a) /\ out[a].key = k
        BY <3>2, <3>5 DEF Published, Valid, HasData
      <4>2. Served(a, k) /\ q \in asked
        BY <4>1, <3>1, ValidServed, TopAsked
      <4> QED BY <4>2, <3>3 DEF RequestsStay
    <3> QED BY <3>1, <3>4, <3>5
  <2> QED BY <2>1, <2>2
<1>8. ASSUME NEW i \in DOMAIN stack', NEW m \in Nat, Done(stack[i], m)'
      PROVE  ServedRequest(stack[i], m)'
  <2>1. PICK g : g = stack'[i]
    OBVIOUS
  <2>2. Done(g, m)
    BY <2>1, <1>3, <1>8 DEF Done
  <2> QED BY <2>1, <2>2, <1>6 DEF ServedRequest
<1>9. stack'[Len(stack')].phase # "child"
  BY <1>2, <1>4
<1> QED BY <1>3, <1>4, <1>7, <1>8, <1>9 DEF ServedInv, ServedOK, Handled

LEMMA ServedDescends ==
    ASSUME Types, AskedInv, ServedInv, RequestsStay, ~Idle, Walk, Keeps,
           NEW f \in FrameRecord, NEW g \in FrameRecord, Descends(f, g)
    PROVE  ServedInv'
<1>1. PICK n : n = Len(stack) /\ n \in Nat \ {0} /\ DOMAIN stack = 1..n /\ Top = stack[n]
  BY TopIs
<1>2. /\ Len(stack') = n + 1 /\ DOMAIN stack' = 1..(n + 1)
      /\ stack'[n + 1] = g /\ stack'[n] = f
      /\ \A i \in 1..n : i # n => stack'[i] = stack[i]
  BY <1>1, PushedStack DEF Descends
<1>3. UNCHANGED <<direct, producers, calm, outcome, visited>> /\ asked \subseteq asked'
  BY AskedMore DEF Keeps, Descends
<1>4. ASSUME NEW m \in Nat, Done(f, m) PROVE ServedRequest(f, m)
  <2>1. f.alg = Top.alg /\ f.key = Top.key /\ f.next = Top.next
    BY DEF Descends
  <2>2. Done(Top, m)
    BY <2>1, <1>4 DEF Done
  <2>3. ServedRequest(Top, m)
    BY <2>2, <1>1, ServedParts
  <2> QED BY <2>1, <2>3 DEF ServedRequest, ProducerOf, RequestOf
<1>5. ASSUME NEW m \in Nat, Done(g, m) PROVE FALSE
  <2>1. g.next = 1 /\ g.alg \in Algorithms
    BY FrameFields DEF Descends
  <2>2. producers[g.alg] \in Seq(Algorithms)
    BY <2>1 DEF Types
  <2>3. m \in DOMAIN producers[g.alg] /\ m < 1
    BY <2>1, <1>5 DEF Done
  <2> QED BY <2>2, <2>3
<1>6. ASSUME NEW i \in DOMAIN stack', NEW m \in Nat, NEW h, h = stack'[i], Done(h, m)
      PROVE  ServedRequest(h, m)'
  <2>1. ServedRequest(h, m)
    <3>1. i = n + 1 \/ i = n \/ (i \in 1..n /\ i # n)
      BY <1>1, <1>2
    <3>2. CASE i = n + 1
      BY <3>2, <1>2, <1>5, <1>6
    <3>3. CASE i = n
      BY <3>3, <1>2, <1>4, <1>6
    <3>4. CASE i \in 1..n /\ i # n
      BY <3>4, <1>1, <1>2, <1>6, ServedParts
    <3> QED BY <3>1, <3>2, <3>3, <3>4
  <2> QED BY <2>1, <1>3, ServedRequestStays
<1>7. ASSUME NEW q \in Handled', q[1] # outcome.root \/ calm PROVE Served(q[1], q[2])'
  <2>1. q \in Handled
    BY <1>3, <1>7, HandledSame
  <2>2. Served(q[1], q[2]) /\ q \in asked
    BY <2>1, <1>7, ServedParts, AskedParts
  <2> QED BY <2>2 DEF RequestsStay
<1>8. ASSUME NEW i \in DOMAIN stack', NEW m \in Nat, Done(stack[i], m)'
      PROVE  ServedRequest(stack[i], m)'
  <2>1. PICK h : h = stack'[i]
    OBVIOUS
  <2>2. Done(h, m)
    BY <2>1, <1>3, <1>8 DEF Done
  <2> QED BY <2>1, <2>2, <1>6 DEF ServedRequest
<1>9. stack'[Len(stack')].phase = "enter"
  BY <1>2 DEF Descends
<1> QED BY <1>3, <1>7, <1>8, <1>9 DEF ServedInv, ServedOK, Handled

\* The root has the first frame only.
LEMMA RootLast ==
    ASSUME Types, PipelineGiven, NoCycles, StackInv, ~Idle, Top.alg = outcome.root
    PROVE  Len(stack) = 1
<1>1. Len(stack) \in DOMAIN stack /\ 1 \in DOMAIN stack /\ Top = stack[Len(stack)]
  BY TopIs
<1>2. stack[1].alg = outcome.root
  BY StackParts DEF Rooted
<1> QED BY <1>1, <1>2, FramesApart

LEMMA ServedLeaves ==
    ASSUME Types, PipelineGiven, NoCycles, StackInv, AskedInv, TimesInv, ServedInv, ValidInv,
           RequestsStay, ~masked, ~Idle, Keeps, Leaves
    PROVE  ServedInv'
<1> SUFFICES ASSUME ~Idle' PROVE ServedInv'
  BY DEF ServedInv, ServedOK, Idle
<1>1. /\ Handled' = Handled \cup {TopRequest} /\ asked \subseteq asked' /\ TopRequest \in asked'
      /\ Pop /\ out' = out /\ UNCHANGED <<edits, direct, producers, calm>>
  BY LeavesHandled DEF Keeps
<1>2. \A i \in DOMAIN stack' : i \in DOMAIN stack /\ stack'[i] = stack[i]
  BY <1>1, PoppedStack DEF Pop
<1>3. PICK a \in Algorithms, k \in Keys : a = Top.alg /\ k = Top.key /\ TopRequest = <<a, k>>
  BY TopIs, FrameFields DEF TopRequest
<1>4. Top.alg # outcome.root
  <2>1. Len(stack) # 1
    BY <1>1, PoppedStack DEF Pop
  <2> QED BY <2>1, RootLast
<1>5. Served(a, k)'
  <2>1. Served(a, k)
    BY <1>3, <1>4, LeavesServed
  <2> QED BY <2>1, <1>1, ServedStays
<1>6. outcome' = outcome
  BY <1>1, Leaving
<1>7. ServedRequest(stack[Len(stack)], stack[Len(stack)].next)'
  <2>1. /\ ProducerOf(Top', Top'.next) = a /\ RequestOf(Top', Top'.next) = k
        /\ stack'[Len(stack')] = Top'
    BY <1>1, <1>3, Leaving
  <2>2. PICK f, m : f = stack'[Len(stack')] /\ m = f.next
    OBVIOUS
  <2>3. ProducerOf(f, m) = a /\ RequestOf(f, m) = k
    BY <2>1, <2>2
  <2>4. ProducerOf(f, m)' = a /\ RequestOf(f, m)' = k
    BY <2>3, <1>1 DEF ProducerOf, RequestOf, MapRequest
  <2>5. ServedRequest(f, m)'
    BY <2>4, <1>1, <1>3, <1>5 DEF ServedRequest, Served, HasData, Fresh
  <2> QED BY <2>2, <2>5 DEF ServedRequest
<1>8. ASSUME NEW i \in DOMAIN stack', NEW m \in Nat, Done(stack[i], m)'
      PROVE  ServedRequest(stack[i], m)'
  <2>1. PICK h : h = stack'[i] /\ h = stack[i] /\ i \in DOMAIN stack
    BY <1>2
  <2>2. Done(h, m)
    BY <2>1, <1>1, <1>8 DEF Done
  <2>3. ServedRequest(h, m)
    BY <2>1, <2>2, ServedParts
  <2>4. ServedRequest(h, m)'
    BY <2>3, <1>1, ServedRequestStays
  <2> QED BY <2>1, <2>4 DEF ServedRequest
<1>9. ASSUME NEW q \in Handled', q[1] # outcome.root \/ calm PROVE Served(q[1], q[2])'
  <2>1. CASE q \in Handled
    <3>1. Served(q[1], q[2]) /\ q \in asked
      BY <2>1, <1>9, ServedParts, AskedParts
    <3> QED BY <3>1 DEF RequestsStay
  <2>2. CASE q \notin Handled
    <3>1. q[1] = a /\ q[2] = k
      BY <2>2, <1>1, <1>3
    <3> QED BY <3>1, <1>5 DEF Served, HasData, Fresh
  <2> QED BY <2>1, <2>2
<1> QED BY <1>1, <1>6, <1>7, <1>8, <1>9 DEF ServedInv, ServedOK, Handled

LEMMA WalkServed ==
    ASSUME Types, PipelineGiven, NoCycles, WalkInv, ServedInv, ValidInv, OneRequest, ~masked, Walk
    PROVE  ServedInv'
<1>1. ~Idle /\ Moves /\ Keeps /\ RequestsStay
      /\ StackInv /\ AskedInv /\ TimesInv
  BY WalkMoves, WalkKeeps, WalkRequestsStay DEF WalkInv
<1>2. ASSUME NEW f \in FrameRecord, Goes(f) PROVE ServedInv'
  BY <1>1, <1>2, ServedGoes
<1>3. ASSUME NEW f \in FrameRecord, NEW g \in FrameRecord, Descends(f, g) PROVE ServedInv'
  BY <1>1, <1>3, ServedDescends
<1>4. CASE Leaves
  BY <1>1, <1>4, ServedLeaves
<1>5. CASE Ends
  BY <1>5 DEF Ends, ServedInv, ServedOK
<1> QED BY <1>1, <1>2, <1>3, <1>4, <1>5 DEF Moves

\* An update that succeeds has served its request.
LEMMA WalkSucceeds ==
    ASSUME Types, PipelineGiven, NoCycles, WalkInv, ServedInv, ValidInv, ~masked, Walk
    PROVE  OutcomeInv'
<1>1. ~Idle /\ Moves /\ Keeps /\ StackInv /\ AskedInv /\ TimesInv
  BY WalkMoves, WalkKeeps DEF WalkInv
<1> SUFFICES ASSUME outcome'.result = "ok", Idle', calm'
             PROVE  outcome'.root \in Algorithms /\ Served(outcome.root, outcome.key)'
  BY DEF OutcomeInv
<1>2. ~\E f \in FrameRecord : Goes(f)
  <2>1. ASSUME NEW f \in FrameRecord, Goes(f) PROVE FALSE
    BY <2>1, <1>1, ReplacedStack DEF Goes
  <2> QED BY <2>1
<1>3. ~\E f, g \in FrameRecord : Descends(f, g)
  <2>1. ASSUME NEW f \in FrameRecord, NEW g \in FrameRecord, Descends(f, g) PROVE FALSE
    BY <2>1, <1>1, PushedStack DEF Descends
  <2> QED BY <2>1
<1>4. ~Ends
  <2>1. outcome.result # "ok"
    BY <1>1, StackParts DEF Rooted
  <2> QED BY <2>1 DEF Ends, Failures
<1>5. Leaves /\ Pop /\ out' = out /\ calm /\ UNCHANGED <<edits, direct, producers>>
  BY <1>1, <1>2, <1>3, <1>4 DEF Moves, Leaves, Keeps
<1>6. Len(stack) = 1 /\ Top = stack[Len(stack)] /\ stack[1].alg = outcome.root
      /\ stack[1].key = outcome.key
  BY <1>1, <1>5, PoppedStack, TopIs, StackParts DEF Pop, Rooted
<1>7. PICK a \in Algorithms, k \in Keys : a = Top.alg /\ k = Top.key
  BY <1>1, TopIs, FrameFields
<1>8. Served(a, k)
  BY <1>1, <1>5, <1>7, LeavesServed
<1>9. Served(a, k)'
  BY <1>5, <1>7, <1>8, ServedStays
<1>10. outcome'.root = a /\ outcome'.key = k
  <2>1. outcome' = [outcome EXCEPT !.result = "ok"]
    BY <1>5, <1>6 DEF Pop
  <2> QED BY <2>1, <1>6, <1>7, StopResult DEF Failures
<1> QED BY <1>9, <1>10 DEF Served, HasData, Fresh

-----------------------------------------------------------------------------
(* What the program does leaves what was asked for served *)

\* A change of the root reaches nothing that it is computed from.
LEMMA RootTouchedFresh ==
    ASSUME Types, PipelineGiven, NoCycles, StackInv, RootTouched,
           NEW a \in Algorithms, NEW k \in Keys, outcome.root \in Below(a), Served(a, k)
    PROVE  Served(a, k)'
<1>1. a \notin Reached(outcome.root)
  BY NotBelowEachOther
<1>2. UNCHANGED <<direct, producers, out>>
  BY RootTouchedKeeps
<1>3. edits' = [edits EXCEPT ![outcome.root] = edits[outcome.root] + 1]
  BY DEF RootTouched, Edit, EditParameter
<1>4. Fresh(a, k)' = Fresh(a, k)
  BY <1>1, <1>2, <1>3, EditKeepsFresh
<1> QED BY <1>2, <1>4 DEF Served, HasData

LEMMA RootTouchedServed ==
    ASSUME Types, PipelineGiven, NoCycles, StackInv, AskedInv, ServedInv, RootTouched
    PROVE  ServedInv'
<1>1. UNCHANGED <<direct, producers, out, stack, visited, outcome, asked>> /\ calm' = FALSE /\ ~Idle
  BY RootTouchedKeeps DEF RootTouched
<1>2. ASSUME NEW i \in DOMAIN stack, NEW n \in DOMAIN producers[stack[i].alg],
             ServedRequest(stack[i], n), NEW f, f = stack[i]
      PROVE  ServedRequest(f, n)'
  <2>1. f.alg \in Algorithms /\ f.key \in Keys /\ outcome.root \in Reached(f.alg)
    BY <1>1, <1>2, FrameAt, RootReached
  <2>2. PICK b, k : b = ProducerOf(f, n) /\ k = RequestOf(f, n)
    OBVIOUS
  <2>3. b \in Algorithms /\ k \in Keys
    <3>1. producers[f.alg] \in Seq(Algorithms)
      BY <2>1 DEF Types
    <3> QED BY <3>1, <1>2, <2>1, <2>2, MapRequestIsKey DEF ProducerOf, RequestOf
  <2>4. f.alg \in Consumers(b)
    BY <1>2, <2>1, <2>2, ProducerConsumed DEF ProducerOf
  <2>5. outcome.root \in Below(b)
    BY <2>1, <2>4, BelowConsumer
  <2>6. Served(b, k) /\ <<b, k>> \in asked
    BY <1>2, <2>2 DEF ServedRequest
  <2>7. Served(b, k)'
    BY <2>3, <2>5, <2>6, RootTouchedFresh
  <2>8. ProducerOf(f, n)' = b /\ RequestOf(f, n)' = k
    BY <1>1, <2>2 DEF ProducerOf, RequestOf, MapRequest
  <2> QED BY <1>1, <2>6, <2>7, <2>8 DEF ServedRequest, Served, HasData, Fresh
<1>3. ASSUME NEW i \in DOMAIN stack', NEW n \in Nat, Done(stack[i], n)'
      PROVE  ServedRequest(stack[i], n)'
  <2>1. PICK f : f = stack'[i] /\ f = stack[i] /\ i \in DOMAIN stack
    BY <1>1
  <2>2. Done(f, n)
    BY <1>1, <1>3, <2>1 DEF Done
  <2>3. ServedRequest(f, n) /\ n \in DOMAIN producers[f.alg]
    BY <1>1, <2>1, <2>2, ServedParts DEF Done
  <2>4. ServedRequest(f, n)'
    BY <2>1, <2>3, <1>2
  <2> QED BY <2>1, <2>4 DEF ServedRequest
<1>4. ASSUME (stack[Len(stack)].phase = "child")'
      PROVE  ServedRequest(stack[Len(stack)], stack[Len(stack)].next)'
  <2>1. PICK f \in FrameRecord : f = stack'[Len(stack')] /\ f = stack[Len(stack)] /\ f = Top
                                 /\ Len(stack) \in DOMAIN stack
    BY <1>1, TopIs
  <2>2. Placed(f) /\ f.phase = "child"
    BY <1>1, <1>4, <2>1, StackParts
  <2>3. f.next \in DOMAIN producers[f.alg] /\ ServedRequest(f, f.next)
    BY <1>1, <2>1, <2>2, ChildTyped, ServedParts
  <2>4. PICK n : n = f.next
    OBVIOUS
  <2>5. ServedRequest(f, n)'
    BY <2>1, <2>3, <2>4, <1>2
  <2> QED BY <2>1, <2>4, <2>5 DEF ServedRequest
<1>5. ASSUME NEW q \in Handled', q[1] # outcome.root PROVE Served(q[1], q[2])'
  <2>1. q \in Handled
    BY <1>1, <1>5, HandledSame
  <2>2. q[1] \in Algorithms /\ q[2] \in Keys
    BY <2>1, HandledTyped
  <2>3. Served(q[1], q[2]) /\ outcome.root \in Reached(q[1])
    BY <1>1, <1>5, <2>1, ServedParts, AskedParts
  <2>4. outcome.root \in Below(q[1])
    BY <1>5, <2>3, ReachedUnfold
  <2> QED BY <2>2, <2>3, <2>4, RootTouchedFresh
<1> QED BY <1>1, <1>3, <1>4, <1>5 DEF ServedInv, ServedOK, Handled

\* The walk in progress, as one that waits, and back.
LEMMA ContentAsWaiting ==
    ASSUME ServedInv PROVE ContentOK(Suspension)
<1>1. /\ Suspension.stack = stack /\ Suspension.visited = visited
      /\ Suspension.outcome = outcome /\ Suspension.calm = calm
  BY DEF Suspension
<1> QED BY <1>1 DEF ContentOK, ServedInv

LEMMA ContentGoesOn ==
    ASSUME NEW w, ContentOK(w)', stack' = w.stack, visited' = w.visited, outcome' = w.outcome,
           calm' = w.calm
    PROVE  ServedInv'
BY DEF ContentOK, ServedInv

LEMMA ContentUnmoved ==
    ASSUME Types, WalkInv, ServedInv, RequestsStay, asked \subseteq asked', UNCHANGED producers,
           UNCHANGED <<stack, visited, outcome, calm>>
    PROVE  ServedInv'
<1>1. PICK w : w = Suspension
  OBVIOUS
<1>2. OrderOK(w) /\ ContentOK(w)
  BY <1>1, OrderAsWaiting, ContentAsWaiting
<1>3. ContentOK(w)'
  BY <1>2, ContentRigid
<1>4. w.stack = stack /\ w.visited = visited /\ w.outcome = outcome /\ w.calm = calm
  BY <1>1 DEF Suspension
<1> QED BY <1>3, <1>4, ContentGoesOn

LEMMA SuspendedStays ==
    ASSUME SuspendedInv, SuspendedServed, suspended' = suspended, UNCHANGED producers,
           RequestsStay, asked \subseteq asked'
    PROVE  SuspendedServed'
<1> SUFFICES ASSUME NEW w \in WalkRecord, Suspended(w)' PROVE ContentOK(w)'
  BY DEF SuspendedServed
<1>1. Suspended(w)
  BY DEF Suspended
<1>2. ContentOK(w) /\ OrderOK(w)
  BY <1>1 DEF SuspendedServed, SuspendedInv
<1> QED BY <1>2, ContentRigid

LEMMA UpdateServed ==
    ASSUME Types, WalkInv, SuspendedInv, ServedInv, SuspendedServed,
           NEW r \in Algorithms, NEW k \in Keys, Update(r, k)
    PROVE  ServedInv' /\ SuspendedServed' /\ OutcomeInv'
<1>0. UNCHANGED <<edits, direct, producers, out>> /\ visited' = {}
  BY UpdateWhere
<1>1. PICK f \in FrameRecord : f = Frame(r, k) /\ f.alg = r /\ f.phase = "enter" /\ f.next = 1
  BY FirstFrame
<1>2. stack' = <<f>> /\ ~Idle'
  BY <1>1, FirstWalk
<1>3. ServedInv'
  <2>1. DOMAIN stack' = {1} /\ Len(stack') = 1 /\ stack'[1] = f
    BY <1>2
  <2>2. HandledIn(visited)' = {} /\ HandledIn(visited') = {}
    BY <1>0 DEF HandledIn
  <2>3. producers' \in [Algorithms -> Seq(Algorithms)]
    BY <1>0 DEF Types
  <2>4. producers'[r] \in Seq(Algorithms)
    BY <2>3
  <2>5. \A n \in Nat : ~(n \in DOMAIN producers'[r] /\ n < 1)
    BY <2>4
  <2>6. \A n \in Nat : ~Done(f, n)'
    BY <2>5, <1>1 DEF Done
  <2> QED BY <2>1, <2>2, <2>6, <1>1 DEF ServedInv, ServedOK, Done
<1>4. OutcomeInv'
  BY <1>2 DEF OutcomeInv
<1>5. CASE Idle
  <2>1. suspended' = <<>>
    BY <1>5, UpdateWhere
  <2> QED BY <2>1, <1>3, <1>4 DEF SuspendedServed, Suspended
<1>6. CASE ~Idle
  <2>1. suspended' = Append(suspended, Suspension) /\ asked' = asked
    BY <1>6, UpdateWhere
  <2>2. RequestsStay
    BY <1>0, StillServed
  <2>3. ASSUME NEW w \in WalkRecord, Suspended(w)' PROVE ContentOK(w)'
    <3>1. Suspended(w) \/ w = Suspension
      BY <2>1, <2>3, UpdateSuspends
    <3>2. OrderOK(w) /\ ContentOK(w)
      BY <3>1, OrderAsWaiting, ContentAsWaiting DEF SuspendedInv, SuspendedServed
    <3> QED BY <3>2, <1>0, <2>1, <2>2, ContentRigid
  <2> QED BY <2>3, <1>3, <1>4 DEF SuspendedServed
<1> QED BY <1>5, <1>6

LEMMA ReturnServed ==
    ASSUME Types, Waiting, CalmInv, SuspendedInv, SuspendedServed, Return
    PROVE  ServedInv' /\ SuspendedServed' /\ OutcomeInv'
<1>1. PICK w \in WalkRecord :
               /\ Suspended(w) /\ w.stack # <<>>
               /\ stack' = w.stack /\ visited' = w.visited /\ outcome' = w.outcome
               /\ calm' = w.calm
               /\ \A u : Suspended(u)' => Suspended(u)
  BY ReturnWhere
<1>2. UNCHANGED <<edits, direct, producers, out, asked>>
  BY DEF Return, graphVars
<1>3. RequestsStay
  BY <1>2, StillServed
<1>4. ASSUME NEW u \in WalkRecord, Suspended(u) PROVE ContentOK(u)'
  <2>1. OrderOK(u) /\ ContentOK(u)
    BY <1>4 DEF SuspendedInv, SuspendedServed
  <2> QED BY <2>1, <1>2, <1>3, ContentRigid
<1>5. ServedInv'
  BY <1>1, <1>4, ContentGoesOn
<1>6. SuspendedServed'
  BY <1>1, <1>4 DEF SuspendedServed
<1>7. OutcomeInv'
  BY <1>1 DEF OutcomeInv, Idle
<1> QED BY <1>5, <1>6, <1>7

LEMMA OutcomeStays ==
    ASSUME Types, OutcomeInv, UNCHANGED <<edits, direct, producers, out, stack, outcome, calm>>,
           masked => masked'
    PROVE  OutcomeInv'
<1> SUFFICES ASSUME outcome'.result = "ok", Idle', calm', ~masked'
             PROVE  outcome'.root \in Algorithms /\ Served(outcome.root, outcome.key)'
  BY DEF OutcomeInv
<1>1. PICK a, k : a = outcome.root /\ k = outcome.key
  OBVIOUS
<1>2. a \in Algorithms /\ Served(a, k) /\ k \in Keys
  BY <1>1 DEF OutcomeInv, Idle, Types, Outcomes
<1>3. Served(a, k)'
  BY <1>2, ServedStays
<1> QED BY <1>1, <1>2, <1>3 DEF Served, HasData, Fresh

LEMMA ProgramServed ==
    ASSUME Types, PipelineGiven, NoCycles, Program, ~masked',
           WalkInv, SuspendedInv, ServedInv, SuspendedServed, OutcomeInv
    PROVE  ServedInv' /\ SuspendedServed' /\ OutcomeInv'
<1>1. CASE Starts
  BY <1>1, UpdateServed DEF Starts
<1>2. CASE Signals
  <2>1. UNCHANGED <<edits, direct, producers, out, asked, stack, visited, outcome, calm, suspended,
                    masked>>
    BY <1>2 DEF Signals
  <2>2. RequestsStay
    BY <2>1, StillServed
  <2> QED BY <2>1, <2>2, ContentUnmoved, SuspendedStays, OutcomeStays
<1>3. CASE Calls
  <2>1. stack' = <<>> /\ suspended' = <<>> /\ calm' = FALSE
    BY <1>3 DEF Calls, Outside, Idle
  <2> QED BY <2>1 DEF ServedInv, ServedOK, SuspendedServed, Suspended, OutcomeInv
<1>4. CASE RootTouched
  <2>1. suspended' = <<>> /\ calm' = FALSE
    BY <1>4, RootTouchedKeeps DEF RootTouched
  <2>2. ServedInv'
    BY <1>4, RootTouchedServed DEF WalkInv
  <2> QED BY <2>1, <2>2 DEF SuspendedServed, Suspended, OutcomeInv
<1> QED BY <1>1, <1>2, <1>3, <1>4, QuietProgram

LEMMA ContentNext ==
    PipelineGiven /\ ~ParameterWhileConsumed /\ OrderInv /\ ContentInv /\ [Next]_vars
        => ContentInv'
<1> SUFFICES ASSUME PipelineGiven, ~ParameterWhileConsumed, OrderInv, ContentInv, [Next]_vars
             PROVE  ContentInv'
  OBVIOUS
<1>1. Types /\ Clocked /\ NoCycles /\ Waiting /\ ValidInv /\ OutcomeInv
      /\ (~masked => /\ OneRequest /\ CalmInv /\ WalkInv /\ SuspendedInv
                     /\ ServedInv /\ SuspendedServed)
  BY DEF OrderInv, TypeInv, ContentInv
<1>2. ASSUME masked' PROVE OutcomeInv' /\ ValidInv'
  BY <1>2 DEF OutcomeInv, ValidInv
<1> SUFFICES ASSUME ~masked' PROVE ValidInv' /\ OutcomeInv' /\ ServedInv' /\ SuspendedServed'
  BY <1>2 DEF ContentInv
<1>3. ~masked
  BY <1>1, MaskedStays
<1>4. CASE Program
  BY <1>1, <1>3, <1>4, ProgramValid, ProgramServed
<1>5. CASE Walk
  <2>1. StackInv /\ AskedInv
    BY <1>1, <1>3 DEF WalkInv
  <2>2. ValidInv'
    BY <1>1, <1>5, <2>1, WalkValid
  <2>3. ServedInv' /\ OutcomeInv'
    BY <1>1, <1>3, <1>5, WalkServed, WalkSucceeds
  <2>4. RequestsStay /\ asked \subseteq asked' /\ UNCHANGED <<suspended, producers>>
    BY <1>1, <1>3, <1>5, <2>1, WalkRequestsStay, AskedMore, WalkKeeps DEF Keeps
  <2> QED BY <1>1, <1>3, <2>2, <2>3, <2>4, SuspendedStays
<1>6. CASE Return
  <2>1. Unmoved
    BY <1>6 DEF Return, Unmoved, graphVars
  <2> QED BY <1>1, <1>3, <1>6, <2>1, ValidUnmoved, ReturnServed
<1>7. CASE UNCHANGED vars
  <2>1. UNCHANGED <<stamp, parameter, edits, direct, producers, out, asked, stack, visited, outcome,
                    calm, suspended, masked>>
    BY <1>7 DEF vars, graphVars
  <2>2. Unmoved /\ RequestsStay
    BY <1>1, <2>1, StillServed DEF Unmoved
  <2> QED BY <1>1, <1>3, <2>1, <2>2, ValidUnmoved, ContentUnmoved, SuspendedStays, OutcomeStays
<1> QED BY <1>4, <1>5, <1>6, <1>7 DEF Next

-----------------------------------------------------------------------------
(* The initial states *)

LEMMA InitTypes == PipelineGiven /\ Init => TypeInv
<1> SUFFICES ASSUME PipelineGiven, Init PROVE TypeInv
  OBVIOUS
<1>1. producers \in [Algorithms -> Seq(Algorithms)] /\ NoCycles
  BY DEF Init, PipelineGiven, NoCycles
<1>2. Empty \in Output /\ Empty.mtime = 0
  BY DEF Empty, Output
<1>3. Types
  <2>1. /\ clock \in Nat /\ stamp \in [Objects -> Nat] /\ edits \in [Objects -> Nat]
        /\ parameter \in [Algorithms -> Nat]
    BY DEF Init
  <2>2. direct \in [Algorithms -> Data \cup {None}]
    BY DEF Init
  <2>3. out \in [Algorithms -> Output]
    BY <1>2 DEF Init
  <2>4. stack \in Seq(FrameRecord) /\ suspended \in Seq(WalkRecord)
    BY DEF Init
  <2>5. outcome \in Outcomes
    BY DEF Init, Keys, Outcomes
  <2>6. cancelled \in BOOLEAN /\ calm \in BOOLEAN /\ masked \in BOOLEAN
    BY DEF Init
  <2>7. aborted = {} /\ updating = {} /\ visited = {} /\ asked = {}
    BY DEF Init
  <2> QED BY <1>1, <2>1, <2>2, <2>3, <2>4, <2>5, <2>6, <2>7 DEF Types
<1>4. Clocked
  <2>1. clock = 1 /\ \A x \in Objects : stamp[x] = 1
    BY DEF Init
  <2>2. \A a \in Algorithms : parameter[a] \in {0, 1} /\ out[a].mtime = 0
    BY <1>2 DEF Init
  <2>3. DOMAIN stack = {} /\ DOMAIN suspended = {}
    BY DEF Init
  <2> QED BY <2>1, <2>2, <2>3 DEF Clocked
<1>5. updating = {} /\ DOMAIN suspended = {}
  BY DEF Init
<1> QED BY <1>1, <1>3, <1>4, <1>5 DEF TypeInv, Guarded, Waiting

LEMMA InitInv == PipelineGiven /\ Init => OrderInv /\ ContentInv
<1> SUFFICES ASSUME PipelineGiven, Init PROVE OrderInv /\ ContentInv
  OBVIOUS
<1>1. TypeInv
  BY InitTypes
<1>2. /\ stack = <<>> /\ suspended = <<>> /\ DOMAIN suspended = {} /\ asked = {}
      /\ outcome.result = "none"
  BY DEF Init
<1>3. WalkInv
  BY <1>2 DEF WalkInv, StackInv, StackOK, AskedInv, AskedOK, KeptInv, KeptOK, TimesInv, TimesOK,
              OnceInv, OnceOK
<1>4. OneRequest /\ CalmInv /\ SuspendedInv
  BY <1>2 DEF OneRequest, CalmInv, SuspendedInv, Suspended
<1>5. ServedInv /\ SuspendedServed
  BY <1>2 DEF ServedInv, ServedOK, SuspendedServed, Suspended
<1>6. OutcomeInv
  BY <1>2 DEF OutcomeInv
<1>7. ValidInv
  BY DEF Init, Empty, ValidInv, Valid, HasData
<1> QED BY <1>1, <1>3, <1>4, <1>5, <1>6, <1>7 DEF OrderInv, ContentInv

-----------------------------------------------------------------------------
(* What they show *)

LEMMA OrderTypeOK == PipelineGiven /\ OrderInv => TypeOK
<1> SUFFICES ASSUME PipelineGiven, OrderInv PROVE TypeOK
  OBVIOUS
<1>0. Types /\ Clocked /\ NoCycles /\ Guarded /\ (~masked => KeptInv)
  BY DEF OrderInv, TypeInv, WalkInv
<1>1. updating \subseteq
          EnteredBy(stack) \cup UNION {EnteredBy(suspended[i].stack) : i \in DOMAIN suspended}
  <2> SUFFICES ASSUME NEW a \in updating
               PROVE  \/ a \in EnteredBy(stack)
                      \/ \E i \in DOMAIN suspended : a \in EnteredBy(suspended[i].stack)
    OBVIOUS
  <2>1. \A s : Under(a, s) => a \in EnteredBy(s)
    BY DEF Under, Entered, EnteredBy
  <2> QED BY <2>1, <1>0 DEF Guarded
<1>2. ~Idle /\ Top.phase = "child" /\ ~masked
          => out[producers[Top.alg][Top.next]].content # {}
  BY <1>0, LastFrame DEF KeptInv, KeptOK, HasData, ProducerOf, Idle
<1>3. \A a \in Algorithms : stamp[a] <= clock /\ out[a].mtime <= clock
  BY <1>0 DEF Clocked, Objects
<1>4. ASSUME NEW a \in Algorithms, NEW b \in Consumers(a) PROVE a \notin Reached(b)
  BY <1>0, BelowConsumer, NotBelowItself
<1> QED BY <1>1, <1>2, <1>3, <1>4 DEF TypeOK

\* Whatever callbacks connect, release, change and update, no update leaves a guard of
\* FVizAlgorithm set of an algorithm that no update in progress has entered, no time is
\* later than the counter, and no algorithm comes to consume itself: connections refuse
\* cycles.  An input that was updated has data, unless a callback disturbed the update.
THEOREM TypeCorrect == ASSUME PipelineGiven PROVE Spec => []TypeOK
<1>1. Init => OrderInv
  BY InitInv
<1>2. OrderInv /\ [Next]_vars => OrderInv'
  BY OrderNext
<1>3. OrderInv => TypeOK
  BY OrderTypeOK
<1> QED BY <1>1, <1>2, <1>3, PTL DEF Spec

LEMMA OrderOnce == PipelineGiven /\ OrderInv => OncePerTransaction
<1> SUFFICES ASSUME PipelineGiven, OrderInv, ~Idle, calm, ~masked, Top.phase = "data",
                    NEW v \in visited, <<v[1], v[4]>> = <<Top.alg, Top.key>>
             PROVE  FALSE
  BY DEF OncePerTransaction
<1>1. Types /\ OnceInv
  BY DEF OrderInv, TypeInv, WalkInv
<1>2. PICK n \in DOMAIN stack : Top = stack[n]
  BY <1>1, TopIs
<1>3. <<Top.alg, Top.key>> \notin HandledIn(visited)
  BY <1>1, <1>2 DEF OnceInv, OnceOK, Executing, Idle
<1>4. <<v[1], v[4]>> \in HandledIn(visited)
  BY DEF HandledIn
<1> QED BY <1>3, <1>4

\* fviz_executive_execute_algorithm: what has been processed in a transaction, executed
\* or taken from what it had published, is not executed again for the same request, also
\* where a callback of the transaction updated something else.  Not considered are an
\* update during which something changed (~calm), and what follows one in which a
\* callback changed more than the root or a producer was asked for two requests (masked).
THEOREM ExecutedOnce == ASSUME PipelineGiven PROVE Spec => []OncePerTransaction
<1>1. Init => OrderInv
  BY InitInv
<1>2. OrderInv /\ [Next]_vars => OrderInv'
  BY OrderNext
<1>3. OrderInv => OncePerTransaction
  BY OrderOnce
<1> QED BY <1>1, <1>2, <1>3, PTL DEF Spec

\* fviz_algorithm_update: an update that succeeds, called by the program or in a callback
\* of another update, leaves the output of its root as a computation from scratch would
\* give it, by the modification times that the events of the observers of inputs pass on.
\* Callbacks may connect, change, release and update all they like.  What is not claimed
\* is where the code fails: an update during which something changed (~calm), all that
\* follows one in which a callback changed more than the root, since what that published
\* may be stale for ever, and a producer asked for two requests (masked).  The parameter
\* objects nobody observes are changed where nobody consumes the output
\* (MCSession_parameter has the other case).
THEOREM UpdateIsFresh ==
    ASSUME PipelineGiven, ~ParameterWhileConsumed PROVE Spec => []UpToDate
<1>1. Init => OrderInv /\ ContentInv
  BY InitInv
<1>2. OrderInv /\ ContentInv /\ [Next]_vars => (OrderInv /\ ContentInv)'
  BY OrderNext, ContentNext
<1>3. ContentInv => UpToDate
  BY DEF ContentInv, OutcomeInv, UpToDate, Served
<1> QED BY <1>1, <1>2, <1>3, PTL DEF Spec
=============================================================================
