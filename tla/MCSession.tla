----------------------------- MODULE MCSession -----------------------------
(***************************************************************************)
(* Components of a session that share nothing, for TLC: a behaviour is one *)
(* of an object and its observers, or of a graph of algorithms, or of the  *)
(* resources that a device keeps of a surface, or of a render graph, or of *)
(* objects that hold others, or of an interactor, its timers, or what is   *)
(* selected.                                                               *)
(***************************************************************************)
EXTENDS Integers, TLC

CONSTANTS
    Components, \* those that are explored
    Priorities, Events, InteractionEvents, ObservedEvents, Commands,
    MaxObservers, MaxDispatches, MaxNested,
    ParameterWhileConsumed, MaxConnections, MaxCalls,
    HistoryLength, MaxPoints, MaxClock, ExternalArrays,
    Stages, MaxPasses, MaxResources, MaxUses, MaxDependencies,
    MixedNesting, MaxEntries, MaxDepth,
    MaxInterruptions, MaxRendered, MaxSurfaces, MaxTimers, MaxTimeline,
    None

VARIABLES
    component,  \* the one that moves
    observerList, nextTag, dispatchSerial, needsCompaction, needsSort, dispatches, references,
    state, commandRefs, owned,
    clock, stamp, parameter, edits, direct, producers, out, aborted, updating,
    cancelled, stack, suspended, visited, outcome, asked, calm, masked, calls,
    gpuClock, points, normals, bounds, cells, topology, attributes, scalars, opacities,
    look, instances, mesh, glyphs, drawn, surface,
    passes, graphResources, dependencies, uses, plan, list, dirty,
    contents, observers, flagged, stale, held,
    ui, buttons, before, disturbed, interruptions,
    rendered, tagged, mtime, selection,
    timers, nextId, now, due, fires, destroyed

\* Two sources, a transform filter of both, and a consumer of the filter and of one
\* of its sources.
Algorithms == {"source", "other", "transform", "consumer"}
Data == {"data"}
Optional == {"source", "other"}
Mappers == {"transform"}
Unbridged == {"transform"}
Shapes == {[a \in Algorithms |-> CASE a = "transform" -> <<"source", "other">>
                                   [] a = "consumer" -> <<"source", "transform">>
                                   [] OTHER -> <<>>]}

\* Colours and depths of two sizes; a target of the window's.
Resource(target, external, transient) ==
    [target |-> target, external |-> external, transient |-> transient]
Kinds == {Resource(1, FALSE, TRUE), Resource(2, FALSE, TRUE), Resource(1, FALSE, FALSE),
          Resource(1, TRUE, FALSE)}

\* Grids in blocks, in partitions and in time steps; and a database with two frames, with
\* one, or with a history.
Kind ==
    "grid" :> "data" @@ "outer" :> "multi" @@ "inner" :> "multi" @@ "parts" :> "partitioned"
    @@ "frames" :> "temporal" @@ "field" :> "field" @@ "first" :> "frame" @@ "second" :> "frame"
    @@ "history" :> "series" @@ "node" :> "region" @@ "step" :> "step" @@ "database" :> "database"
Value == "first" :> 1 @@ "second" :> 2
Families ==
    {{}, {"grid", "outer", "inner"}, {"grid", "outer", "parts"}, {"grid", "outer", "frames"},
     {"field", "first", "second", "step"}, {"field", "first", "step", "database"},
     {"history", "node", "step", "database"}}

\* Two renderers of a window, one with a widget; three cells of a model.
Buttons == {"left", "right"}
Renderers == {"home", "other"}
Home == "home"
Originals == {"first", "second", "third"}
Intervals == {1, 2}

Object == INSTANCE Observers
    WITH list <- observerList, serial <- dispatchSerial, stack <- dispatches, MaxDepth <- MaxNested
Pipe == INSTANCE Pipeline
Gpu == INSTANCE GpuResources WITH clock <- gpuClock
Graph == INSTANCE RenderGraph WITH resources <- graphResources
Composite == INSTANCE CompositeData
Ui == INSTANCE Interaction WITH MaxCalls <- MaxInterruptions, held <- buttons, calls <- interruptions
Records == INSTANCE Selection WITH surface <- rendered, MaxTime <- MaxSurfaces
Timers == INSTANCE TimerQueue

ASSUME ObserversAssumption == Object!ObserversGiven
ASSUME PipelineAssumption == Pipe!PipelineGiven
ASSUME GpuAssumption == Gpu!GpuGiven
ASSUME CompositeAssumption == Composite!CompositeGiven

objectVars == <<observerList, nextTag, dispatchSerial, needsCompaction, needsSort, dispatches,
                references, state, commandRefs, owned>>
pipeVars == <<clock, stamp, parameter, edits, direct, producers, out, aborted, updating,
              cancelled, stack, suspended, visited, outcome, asked, calm, masked, calls>>
gpuVars == <<gpuClock, points, normals, bounds, cells, topology, attributes, scalars,
             opacities, look, instances, mesh, glyphs, drawn, surface>>
graphVars == <<passes, graphResources, dependencies, uses, plan, list, dirty>>
compositeVars == <<contents, observers, flagged, stale, held>>
uiVars == <<ui, buttons, before, disturbed, interruptions>>
recordVars == <<rendered, tagged, mtime, selection>>
timerVars == <<timers, nextId, now, due, fires, destroyed>>
vars == <<component, objectVars, pipeVars, gpuVars, graphVars, compositeVars,
          uiVars, recordVars, timerVars>>

Init ==
    /\ component \in Components
    /\ Object!Init /\ Pipe!Init /\ Gpu!Init /\ Graph!Init /\ Composite!Init
    /\ Ui!Init /\ Records!Init /\ Timers!Init
    /\ component # "gpu" => surface = "mesh"
    /\ component # "graph" => list = None
    /\ component # "composite" => held = {}
    /\ component # "ui" => ui.style = "camera" /\ ui.enabled /\ ui.shown /\ ui.cut = None
    /\ component # "records" => rendered = <<"first">> /\ tagged

Next ==
    /\ UNCHANGED component
    /\ \/ component = "object" /\ Object!Next
       \/ component # "object" /\ UNCHANGED objectVars
    /\ \/ component = "pipeline" /\ Pipe!Next
       \/ component # "pipeline" /\ UNCHANGED pipeVars
    /\ \/ component = "gpu" /\ Gpu!Next
       \/ component # "gpu" /\ UNCHANGED gpuVars
    /\ \/ component = "graph" /\ Graph!Next
       \/ component # "graph" /\ UNCHANGED graphVars
    /\ \/ component = "composite" /\ Composite!Next
       \/ component # "composite" /\ UNCHANGED compositeVars
    /\ \/ component = "ui" /\ Ui!Next
       \/ component # "ui" /\ UNCHANGED uiVars
    /\ \/ component = "records" /\ Records!Next
       \/ component # "records" /\ UNCHANGED recordVars
    /\ \/ component = "timers" /\ Timers!Next
       \/ component # "timers" /\ UNCHANGED timerVars

Spec == Init /\ [][Next]_vars

-----------------------------------------------------------------------------
\* What is said of a component is evaluated where it moves: the others stay as they are.

\* A dispatch calls observers in order of priority and registration, whatever the
\* callbacks change; one that runs to its end has called every observer it should; an
\* observer added during a dispatch waits for the outermost one to return.
DispatchesInOrder ==
    component = "object" =>
        Object!TypeOK /\ Object!CalledInOrder /\ Object!NoneSkipped /\ Object!NewcomersWait

\* A command is alive while its callback runs, its count exact.
CommandAlive == component = "object" => Object!CommandAlive

\* An update leaves what a computation from scratch would give.
UpToDate == component = "pipeline" => Pipe!UpToDate

\* An algorithm executes at most once for one request in one transaction; guards and
\* stamps are in order, and the graph of algorithms stays acyclic.
OncePerTransaction == component = "pipeline" => Pipe!TypeOK /\ Pipe!OncePerTransaction

\* What is kept shows what it was made of, as it is now: the buffers of a mesh and of
\* glyphs, the bounds of a surface, and the time of an object that holds others.
CachesFresh ==
    /\ component = "gpu" => Gpu!MeshFresh /\ Gpu!GlyphsFresh /\ Gpu!BoundsFresh
    /\ component = "composite" => Composite!NeverStale

\* The passes of a frame run in an order that respects what they use, and targets are
\* shared one after the other; what holds another is not in it, and is visited in order.
GraphsInOrder ==
    /\ component = "graph" => Graph!OrderRespectsUses /\ Graph!SlotsApart /\ Graph!RendererOrder
    /\ component = "composite" =>
        Composite!NoCycle /\ Composite!NoDeadObserver /\ Composite!VisitsInOrder

\* What a user does with buttons, widgets, marks and timers has one meaning and an end: a
\* drag ends with its buttons, is told to those who listen, once, and is undone if cancelled;
\* the cells that were marked stay marked, and marks combine as sets do; a timer fires
\* once in a poll, in its phase.
InteractionSettles ==
    /\ [](component = "ui" =>
           Ui!DragsMatch /\ Ui!ReleasedAtLast /\ Ui!ListenersKnow /\ Ui!CutFollows)
    /\ [](component = "records" =>
           Records!StillTheSame /\ Records!CombinedAsSets /\ Records!ExtractedTrue)
    /\ [](component = "timers" => Timers!NoneMissed /\ Timers!InPhase)
    /\ [][component = "ui" => Ui!CancelRestores /\ Ui!EndsOnce]_uiVars
    /\ [][component = "timers" => Timers!FiredOnce]_timerVars
=============================================================================
