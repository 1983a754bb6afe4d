------------------------------ MODULE Pipeline ------------------------------
(***************************************************************************)
(* Demand-driven update of a graph of algorithms: FVizAlgorithm.c (ports,  *)
(* connections, publication) and FVizExecutive.c (the walk over frames).   *)
(* An output is abstracted to what it was computed from.  Every algorithm  *)
(* has one repeatable input port and one output port.  Callbacks of the    *)
(* program run between the steps of an algorithm that executes, and may do *)
(* what the program may do: edit, connect, release, abort and update.      *)
(***************************************************************************)
EXTENDS Integers, Sequences, SequencesExt, FiniteSets, FiniteSetsExt

CONSTANTS
    Algorithms, Data,
    Optional,        \* algorithms whose input may stay unconnected
    Mappers,         \* custom algorithms that remap the request of connection 2
    Unbridged,       \* algorithms with a parameter object nobody observes
    ParameterWhileConsumed, \* whether that changes while another one uses the output
    Shapes,          \* graphs to start from: functions to sequences of producers
    MaxConnections, MaxCalls, None

VARIABLES
    clock,           \* the process-wide modification counter
    stamp,           \* object -> its own modification time
    parameter,       \* algorithm -> modification time of its parameter object
    edits,           \* object -> number of changes made to it
    direct,          \* algorithm -> direct input data or None
    producers,       \* algorithm -> producers connected to its port
    out,             \* algorithm -> its output port
    aborted, updating, cancelled,
    stack,           \* frames of the update in progress
    suspended,       \* updates in one of whose callbacks the next one was called
    visited,         \* what this transaction has processed
    outcome,         \* how the last update ended, or is about to end
    asked,           \* (algorithm, key) pairs entered since the program was left
    calm,            \* no object was changed during the update in progress
    masked,          \* see Disturb and Ask
    calls

\* The graphs to start from have no cycle: in every set of algorithms one has no consumer
\* of the set.  Names are of one thing.
Acyclic(graph) ==
    \A S \in SUBSET Algorithms :
        S # {} => \E a \in S : \A b \in S : a \notin ToSet(graph[b])
PipelineGiven ==
    /\ Algorithms \cap Data = {} /\ None \notin Algorithms \cup Data
    /\ \A graph \in Shapes : graph \in [Algorithms -> Seq(Algorithms)] /\ Acyclic(graph)

graphVars == <<direct, producers>>
walkVars == <<aborted, updating, cancelled, stack, suspended, visited, outcome>>
vars == <<clock, stamp, parameter, edits, direct, producers, out, aborted, updating,
          cancelled, stack, suspended, visited, outcome, asked, calm, masked, calls>>

Keys == {1, 2}
Objects == Algorithms \cup Data
Empty == [content |-> {}, time |-> 0, input |-> 0, mtime |-> 0, key |-> 0]

Init ==
    /\ clock = 1
    /\ stamp = [x \in Objects |-> 1]
    /\ parameter = [a \in Algorithms |-> IF a \in Unbridged THEN 1 ELSE 0]
    /\ edits = [x \in Objects |-> 0]
    /\ direct = [a \in Algorithms |-> None]
    /\ producers \in Shapes
    /\ out = [a \in Algorithms |-> Empty]
    /\ aborted = {} /\ updating = {} /\ cancelled = FALSE
    /\ stack = <<>> /\ suspended = <<>> /\ visited = {} /\ asked = {}
    /\ outcome = [result |-> "none", root |-> None, key |-> 1]
    /\ calm = TRUE /\ masked = FALSE /\ calls = 0

-----------------------------------------------------------------------------
\* Those that observe x: each connection and each direct input has an observer.
Consumers(x) == {a \in Algorithms : direct[a] = x \/ x \in ToSet(producers[a])}

\* Whoever an event of x reaches: x, its consumers, and with every algorithm its own.
\* An algorithm is among them if no set without it has those of x and is closed.
ClosedDownstream(S) == \A a \in S : Consumers(a) \subseteq S
Reached(x) ==
    LET first == Consumers(x)
    IN  {x} \cup {a \in Algorithms :
                     \A S \in SUBSET (Algorithms \ {a}) :
                         first \subseteq S => ~ClosedDownstream(S)}

\* fviz_object_modified: one stamp for all objects the event reaches.
Modified(x) ==
    LET reached == Reached(x)
    IN  [y \in Objects |-> IF y \in reached THEN clock + 1 ELSE stamp[y]]

MTimeWithOutput(a) == Max({parameter[a], stamp[a], out[a].time})
MTime(a) == IF parameter[a] > stamp[a] THEN parameter[a] ELSE stamp[a]

MapRequest(a, i, k) == IF a \in Mappers /\ i = 2 THEN 3 - k ELSE k

Idle == stack = <<>>
Top == Last(stack)
Replace(f) == [stack EXCEPT ![Len(stack)] = f]

\* The program runs: outside every update, or in a callback of one that executes.
Outside == Idle /\ suspended = <<>>
InCallback == ~Idle /\ Top.phase \in {"started", "data", "ended"}
ProgramRuns == Outside \/ InCallback
Call == calls < MaxCalls /\ ProgramRuns /\ calls' = calls + 1

\* What an update reads may change under it: what it publishes then may be stale for
\* ever, and is not considered any more.
Disturb ==
    /\ calm' = FALSE
    /\ masked' = (masked \/ ~Outside)

\* A change of the root itself is seen by the only update in progress.
Touch(x) ==
    /\ calm' = FALSE
    /\ masked' = (masked \/ ~(Outside \/ (suspended = <<>> /\ x = outcome.root)))

-----------------------------------------------------------------------------
(* What the program does *)

Edit(x) ==
    /\ edits' = [edits EXCEPT ![x] = @ + 1]
    /\ stamp' = Modified(x)
    /\ clock' = clock + 1
    /\ Touch(x)
    /\ UNCHANGED <<parameter, graphVars, out, walkVars, asked>>

\* The transform of a transform filter changes: no ModifiedEvent of the filter.
EditParameter(a) ==
    /\ a \in Unbridged
    /\ ParameterWhileConsumed \/ Consumers(a) = {}
    /\ parameter' = [parameter EXCEPT ![a] = clock + 1]
    /\ edits' = [edits EXCEPT ![a] = @ + 1]
    /\ clock' = clock + 1
    /\ Touch(a)
    /\ UNCHANGED <<stamp, graphVars, out, walkVars, asked>>

\* The tail of every operation on the inputs of a.
Rewired(a) ==
    /\ stamp' = Modified(a)
    /\ clock' = clock + 1
    /\ Disturb
    /\ UNCHANGED <<parameter, edits, out, walkVars, asked>>

Connect(a, b, kept) ==
    /\ Len(kept) < MaxConnections /\ b \notin Reached(a)
    /\ Rewired(a)
    /\ producers' = [producers EXCEPT ![a] = Append(kept, b)]
    /\ direct' = [direct EXCEPT ![a] = None]

SetConnection(a, b) == Connect(a, b, <<>>)
AddConnection(a, b) == Connect(a, b, producers[a])

RemoveConnection(a, i) ==
    /\ Rewired(a)
    /\ producers' = [producers EXCEPT ![a] = RemoveAt(@, i)]
    /\ UNCHANGED direct

SetData(a, d) ==
    /\ direct[a] # d
    /\ Rewired(a)
    /\ direct' = [direct EXCEPT ![a] = d]
    /\ producers' = [producers EXCEPT ![a] = <<>>]

ClearInput(a) ==
    /\ Rewired(a)
    /\ direct' = [direct EXCEPT ![a] = None]
    /\ producers' = [producers EXCEPT ![a] = <<>>]

ReleaseOutput(a) ==
    /\ out[a] # Empty
    /\ out' = [out EXCEPT ![a] = Empty]
    /\ Disturb
    /\ UNCHANGED <<clock, stamp, parameter, edits, graphVars, walkVars, asked>>

Abort(a) ==
    /\ calls < MaxCalls /\ calls' = calls + 1 /\ a \notin aborted
    /\ aborted' = aborted \cup {a}
    /\ UNCHANGED <<clock, stamp, parameter, edits, graphVars, out, updating, cancelled, stack,
                   suspended, visited, outcome, asked, calm, masked>>

ClearAbort ==
    /\ aborted # {} /\ ProgramRuns
    /\ aborted' = {}
    /\ UNCHANGED <<clock, stamp, parameter, edits, graphVars, out, updating, cancelled, stack,
                   suspended, visited, outcome, asked, calm, masked, calls>>

Cancel ==
    /\ ~Idle /\ ~cancelled /\ calls < MaxCalls /\ calls' = calls + 1
    /\ cancelled' = TRUE
    /\ UNCHANGED <<clock, stamp, parameter, edits, graphVars, out, aborted, updating, stack,
                   suspended, visited, outcome, asked, calm, masked>>

Frame(a, k) ==
    [alg |-> a, key |-> k, input |-> 0, mtime |-> 0, next |-> 1, phase |-> "enter", read |-> 0]

\* Each update has frames, a context, a token and a result of its own.
Suspension == [stack |-> stack, visited |-> visited, outcome |-> outcome,
               cancelled |-> cancelled, calm |-> calm]

\* The roots of the updates in progress.
Roots == IF Idle THEN {}
         ELSE {outcome.root} \cup {suspended[i].outcome.root : i \in DOMAIN suspended}

\* An update whose root is that of one in progress is left out: it resets the arena that
\* holds the frames of that one.
Update(r, k) ==
    /\ Call /\ r \notin Roots
    /\ IF Idle THEN suspended' = suspended /\ asked' = {}
       ELSE suspended' = Append(suspended, Suspension) /\ asked' = asked
    /\ stack' = <<Frame(r, k)>>
    /\ visited' = {}
    /\ cancelled' = FALSE /\ calm' = TRUE
    /\ outcome' = [result |-> "none", root |-> r, key |-> k]
    /\ UNCHANGED <<clock, stamp, parameter, edits, graphVars, out, aborted, updating, masked>>

\* An update called in a callback has returned to it.
Return ==
    /\ Idle /\ suspended # <<>>
    /\ stack' = Last(suspended).stack
    /\ visited' = Last(suspended).visited
    /\ outcome' = Last(suspended).outcome
    /\ cancelled' = Last(suspended).cancelled
    /\ calm' = (calm /\ Last(suspended).calm)
    /\ suspended' = Front(suspended)
    /\ UNCHANGED <<clock, stamp, parameter, edits, graphVars, out, aborted, updating, asked,
                   masked, calls>>

-----------------------------------------------------------------------------
(* The walk of fviz_executive_execute_algorithm *)

walkUnchanged ==
    <<clock, stamp, parameter, edits, graphVars, suspended, cancelled, calm, calls>>

\* A producer asked for two different requests has one output for both: what is
\* computed from it afterwards is not considered any more.
Ask(a, k) ==
    /\ asked' = asked \cup {<<a, k>>}
    /\ masked' = (masked \/ \E q \in asked : q[1] = a /\ q[2] # k)

\* fviz_executive_unwind_frames: every frame clears the guard of its algorithm, also one
\* that found it set.
Fail(result) ==
    /\ updating' = updating \ {stack[i].alg : i \in DOMAIN stack}
    /\ stack' = <<>>
    /\ outcome' = [outcome EXCEPT !.result = result]
    /\ UNCHANGED <<aborted, out, visited, asked, masked, walkUnchanged>>

\* The last frame ends the update.
Pop ==
    /\ stack' = Front(stack)
    /\ outcome' = IF Len(stack) = 1 THEN [outcome EXCEPT !.result = "ok"]
                  ELSE outcome

Visit(a, input, mtime, key) == <<a, input, mtime, key>>
Visiting(f) == visited' = visited \cup {Visit(f.alg, f.input, f.mtime, f.key)}

Refused(a) == cancelled \/ a \in aborted

\* A published output is still valid: nothing upstream is looked at.
CachedForAnyKey(f) ==
    out[f.alg].content # {} /\ out[f.alg].mtime = MTime(f.alg)
Cached(f) ==
    /\ out[f.alg].content # {}
    /\ out[f.alg].mtime = MTime(f.alg)
    /\ out[f.alg].key = f.key

EnterRefused ==
    Top.phase = "enter" /\ Refused(Top.alg) /\ Fail(IF cancelled THEN "cancelled" ELSE "busy")

\* The update of an algorithm that is being updated.
Reentrant(a) == a \in updating
EnterReentrant ==
    Top.phase = "enter" /\ ~Refused(Top.alg) /\ Reentrant(Top.alg) /\ Fail("invalid")

MayEnter == Top.phase = "enter" /\ ~Refused(Top.alg) /\ ~Reentrant(Top.alg)

EnterCached ==
    /\ MayEnter /\ Cached(Top)
    /\ visited' = visited \cup
                  {Visit(Top.alg, out[Top.alg].input, MTime(Top.alg), Top.key)}
    /\ Ask(Top.alg, Top.key)
    /\ Pop
    /\ UNCHANGED <<aborted, updating, out, walkUnchanged>>

Enter ==
    /\ MayEnter /\ ~Cached(Top)
    /\ updating' = updating \cup {Top.alg}
    /\ Ask(Top.alg, Top.key)
    /\ stack' = Replace([Top EXCEPT !.phase = "inputs", !.mtime = MTime(Top.alg),
                                    !.input = IF direct[Top.alg] = None THEN 0
                                              ELSE stamp[direct[Top.alg]]])
    /\ UNCHANGED <<aborted, out, visited, outcome, walkUnchanged>>

Unconnected(a) == direct[a] = None /\ producers[a] = <<>> /\ a \notin Optional

\* Looked at once, before the first producer.
InputMissing ==
    Top.phase = "inputs" /\ Top.next = 1 /\ Unconnected(Top.alg) /\ Fail("invalid")

\* The next connected producer is updated first.
Descend ==
    /\ Top.phase = "inputs" /\ Top.next <= Len(producers[Top.alg])
    /\ stack' = Append(Replace([Top EXCEPT !.phase = "child"]),
                       Frame(producers[Top.alg][Top.next],
                             MapRequest(Top.alg, Top.next, Top.key)))
    /\ UNCHANGED <<aborted, updating, out, visited, asked, masked, outcome, walkUnchanged>>

\* fviz_internal_algorithm_resolved_input: what is connected now, which callbacks may
\* have changed; direct data takes the place of the first connection.
Resolves(a, i) ==
    IF direct[a] # None THEN i = 1
    ELSE i <= Len(producers[a]) /\ out[producers[a][i]].content # {}
InputTime(a, i) ==
    IF direct[a] # None THEN stamp[direct[a]] ELSE out[producers[a][i]].time

AfterChild ==
    /\ Top.phase = "child" /\ Resolves(Top.alg, Top.next)
    /\ stack' = LET time == InputTime(Top.alg, Top.next) IN
                Replace([Top EXCEPT !.phase = "inputs", !.next = @ + 1,
                                    !.input = IF time > @ THEN time ELSE @])
    /\ UNCHANGED <<aborted, updating, out, visited, asked, masked, outcome, walkUnchanged>>

NothingProduced ==
    Top.phase = "child" /\ ~Resolves(Top.alg, Top.next) /\ Fail("invalid")

InputsDone(f) ==
    /\ f.phase = "inputs" /\ f.next > Len(producers[f.alg])
    /\ f.next = 1 => ~Unconnected(f.alg)

Leave(a) == updating \ {a}

\* Processed before in this transaction, or published meanwhile by another one.
Skips(f) == Visit(f.alg, f.input, f.mtime, f.key) \in visited
Published(f, mtime) ==
    /\ out[f.alg].content # {} /\ out[f.alg].input = f.input
    /\ out[f.alg].mtime = mtime /\ out[f.alg].key = f.key
Unneeded(f) == Skips(f) \/ Published(f, f.mtime)

Skip ==
    /\ InputsDone(Top) /\ Unneeded(Top)
    /\ updating' = Leave(Top.alg)
    /\ Visiting(Top)
    /\ Pop
    /\ UNCHANGED <<aborted, out, asked, masked, walkUnchanged>>

\* StartEvent and progress 0: the program's observers run.
Start ==
    /\ InputsDone(Top) /\ ~Unneeded(Top)
    /\ stack' = Replace([Top EXCEPT !.phase = "started"])
    /\ UNCHANGED <<aborted, updating, out, visited, asked, masked, outcome, walkUnchanged>>

\* An algorithm that has started sends EndEvent before its failure ends the update.
Stop(result) ==
    /\ stack' = Replace([Top EXCEPT !.phase = "ended"])
    /\ outcome' = [outcome EXCEPT !.result = result]
    /\ UNCHANGED <<updating, visited>>

StageRefused ==
    /\ Top.phase = "started" /\ Refused(Top.alg)
    /\ Stop(IF Top.alg \in aborted THEN "busy" ELSE "cancelled")
    /\ UNCHANGED <<aborted, out, asked, masked, walkUnchanged>>

\* What fviz_internal_algorithm_process_request takes for the published time.
TimeRead(f) == MTime(f.alg)

\* The request for data: the time is read, then the algorithm executes,
Stage ==
    /\ Top.phase = "started" /\ ~Refused(Top.alg) /\ ~Published(Top, TimeRead(Top))
    /\ stack' = Replace([Top EXCEPT !.phase = "data", !.read = TimeRead(Top)])
    /\ UNCHANGED <<aborted, updating, out, visited, asked, masked, outcome, walkUnchanged>>

\* unless a callback had it updated.
StagePublished ==
    /\ Top.phase = "started" /\ ~Refused(Top.alg) /\ Published(Top, TimeRead(Top))
    /\ Visiting(Top)
    /\ stack' = Replace([Top EXCEPT !.phase = "ended"])
    /\ UNCHANGED <<aborted, updating, out, asked, masked, outcome, walkUnchanged>>

ExecuteFails ==
    /\ Top.phase = "data"
    /\ Stop("error")
    /\ UNCHANGED <<aborted, out, asked, masked, walkUnchanged>>

\* What a itself adds for request k: its own state and that of its input data.
Added(a, k) ==
    {<<a, edits[a], k>>}
    \cup (IF direct[a] = None THEN {} ELSE {<<direct[a], edits[direct[a]], 0>>})

\* What an execution of a now computes.
Computed(a, k) == Added(a, k) \cup UNION {out[p].content : p \in ToSet(producers[a])}

\* Ends with progress 1, where an abort leaves the output published.
Execute ==
    /\ Top.phase = "data"
    /\ out' = [out EXCEPT ![Top.alg] =
                  [content |-> Computed(Top.alg, Top.key), time |-> clock + 1,
                   input |-> Top.input, mtime |-> Top.read, key |-> Top.key]]
    /\ clock' = clock + 1
    /\ IF Top.alg \in aborted THEN Stop("busy")
       ELSE /\ Visiting(Top)
            /\ stack' = Replace([Top EXCEPT !.phase = "ended"])
            /\ UNCHANGED <<updating, outcome>>
    /\ UNCHANGED <<aborted, asked, stamp, parameter, edits, graphVars, suspended, cancelled,
                   calm, masked, calls>>

\* EndEvent
End ==
    /\ Top.phase = "ended" /\ outcome.result = "none"
    /\ updating' = Leave(Top.alg)
    /\ Pop
    /\ UNCHANGED <<aborted, out, visited, asked, masked, walkUnchanged>>

EndFailed == Top.phase = "ended" /\ outcome.result # "none" /\ Fail(outcome.result)

Walk ==
    /\ ~Idle
    /\ \/ EnterRefused \/ EnterReentrant \/ EnterCached \/ Enter \/ InputMissing \/ Descend
       \/ AfterChild \/ NothingProduced \/ Skip \/ Start \/ StageRefused \/ Stage
       \/ StagePublished \/ ExecuteFails \/ Execute \/ End \/ EndFailed

\* A call of the program, a change, a request or a signal, is one of MaxCalls.
Program ==
    \/ /\ Call
       /\ \/ \E x \in Objects : Edit(x)
          \/ \E a \in Algorithms :
              \/ EditParameter(a) \/ ClearInput(a) \/ ReleaseOutput(a)
              \/ \E b \in Algorithms : SetConnection(a, b) \/ AddConnection(a, b)
              \/ \E i \in DOMAIN producers[a] : RemoveConnection(a, i)
              \/ \E d \in Data : SetData(a, d)
    \/ \E a \in Algorithms : Abort(a) \/ \E k \in Keys : Update(a, k)
    \/ ClearAbort
    \/ Cancel

Next == Program \/ Walk \/ Return

Spec == Init /\ [][Next]_vars

-----------------------------------------------------------------------------
\* The requests that request k of a leads to: itself, and with every request those that
\* it passes to its producers.
Requests == Algorithms \X Keys
ClosedUpstream(S) ==
    \A r \in S : \A i \in DOMAIN producers[r[1]] :
        <<producers[r[1]][i], MapRequest(r[1], i, r[2])>> \in S
Requested(a, k) ==
    {r \in Requests : \A S \in SUBSET (Requests \ {r}) : <<a, k>> \in S => ~ClosedUpstream(S)}

\* What a computation from scratch would give for request k of algorithm a.
Fresh(a, k) == UNION {Added(r[1], r[2]) : r \in Requested(a, k)}

\* An update that returns FVIZ_OK, to the program or to a callback, has left what a
\* computation from scratch would give, whatever was changed, connected, released,
\* aborted, cancelled or failed between updates, whatever callbacks updated meanwhile,
\* and whatever of it was served from the outputs published earlier.  Not considered are
\* an update during which something changed, what follows one in which a callback changed
\* something else than the root (see Disturb), and a producer asked for two requests.
UpToDate ==
    (outcome.result = "ok" /\ Idle /\ calm /\ ~masked)
        => out[outcome.root].content = Fresh(outcome.root, outcome.key)

\* "A shared upstream output executes at most once for an equivalent request in
\* one transaction" (docs/architecture/VTK_CONVERGENCE_PLAN.md:429).
OncePerTransaction ==
    (~Idle /\ calm /\ ~masked)
        => (Top.phase = "data" => \A v \in visited : <<v[1], v[4]>> # <<Top.alg, Top.key>>)

\* An update, whether it succeeds, fails or finds a guard set, leaves no guard set of an
\* algorithm that no update in progress has entered; an input that has been updated has
\* data unless a callback changed something.  No algorithm consumes itself.
EnteredBy(frames) == {frames[i].alg : i \in {j \in DOMAIN frames : frames[j].phase # "enter"}}
TypeOK ==
    /\ updating \subseteq
           EnteredBy(stack) \cup UNION {EnteredBy(suspended[i].stack) : i \in DOMAIN suspended}
    /\ (~Idle /\ Top.phase = "child" /\ ~masked)
           => out[producers[Top.alg][Top.next]].content # {}
    /\ \A a \in Algorithms : stamp[a] <= clock /\ out[a].mtime <= clock
    /\ Idle => \A a \in Algorithms : \A b \in Consumers(a) : a \notin Reached(b)

\* "Re-entrant update of an active algorithm returns a deterministic error"
\* (docs/architecture/VTK_CONVERGENCE_PLAN.md:431): no algorithm executes in a callback
\* of its own execution.  It does: the error clears the guard (README, section 4).
NeverReentered ==
    \A i \in DOMAIN suspended :
        (~Idle /\ Top.phase = "data") => Top.alg # Last(suspended[i].stack).alg
=============================================================================
