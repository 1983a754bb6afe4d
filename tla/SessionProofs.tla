--------------------------- MODULE SessionProofs ---------------------------
(***************************************************************************)
(* What is shown of observers, of the pipeline, of the resources of a      *)
(* surface and of objects that hold others is true of the sessions that    *)
(* TLC explores: a step of a session is one of a component or leaves it    *)
(* as it is.                                                               *)
(***************************************************************************)
EXTENDS MCSession, TLAPS

O == INSTANCE ObserversProofs
    WITH list <- observerList, serial <- dispatchSerial, stack <- dispatches, MaxDepth <- MaxNested
P == INSTANCE PipelineProofs
G == INSTANCE GpuResourcesProofs WITH clock <- gpuClock

-----------------------------------------------------------------------------
(* The pipeline of a session and that of the proofs are one module with    *)
(* the same parameters: their definitions are equal once they are expanded. *)

LEMMA SameGiven == P!PipelineGiven
BY PipelineAssumption
   DEF Pipe!PipelineGiven, P!PipelineGiven, Pipe!Acyclic, P!Acyclic, Pipe!ToSet, P!ToSet

LEMMA SameInit == Pipe!Init => P!Init
BY DEF Pipe!Init, P!Init, Pipe!Objects, P!Objects, Pipe!Empty, P!Empty

LEMMA SameNext == [Pipe!Next]_(Pipe!vars) => [P!Next]_(P!vars)
<1>1. Pipe!Next => P!Next
  BY DEF Pipe!graphVars, P!graphVars, Pipe!walkVars, P!walkVars, Pipe!Keys, P!Keys,
       Pipe!Objects, P!Objects, Pipe!Empty, P!Empty, Pipe!Consumers, P!Consumers,
       Pipe!ClosedDownstream, P!ClosedDownstream, Pipe!Reached, P!Reached,
       Pipe!Modified, P!Modified, Pipe!MTime, P!MTime, Pipe!MapRequest, P!MapRequest,
       Pipe!Idle, P!Idle, Pipe!Top, P!Top, Pipe!Replace, P!Replace, Pipe!Outside, P!Outside,
       Pipe!InCallback, P!InCallback, Pipe!ProgramRuns, P!ProgramRuns, Pipe!Call, P!Call,
       Pipe!Disturb, P!Disturb, Pipe!Touch, P!Touch, Pipe!Edit, P!Edit,
       Pipe!EditParameter, P!EditParameter, Pipe!Rewired, P!Rewired, Pipe!Connect, P!Connect,
       Pipe!SetConnection, P!SetConnection, Pipe!AddConnection, P!AddConnection,
       Pipe!RemoveConnection, P!RemoveConnection, Pipe!SetData, P!SetData,
       Pipe!ClearInput, P!ClearInput, Pipe!ReleaseOutput, P!ReleaseOutput, Pipe!Abort, P!Abort,
       Pipe!ClearAbort, P!ClearAbort, Pipe!Cancel, P!Cancel, Pipe!Frame, P!Frame,
       Pipe!Suspension, P!Suspension, Pipe!Roots, P!Roots, Pipe!Update, P!Update,
       Pipe!Return, P!Return, Pipe!walkUnchanged, P!walkUnchanged, Pipe!Ask, P!Ask,
       Pipe!Fail, P!Fail, Pipe!Pop, P!Pop, Pipe!Visit, P!Visit, Pipe!Visiting, P!Visiting,
       Pipe!Refused, P!Refused, Pipe!Cached, P!Cached, Pipe!EnterRefused, P!EnterRefused,
       Pipe!Reentrant, P!Reentrant, Pipe!EnterReentrant, P!EnterReentrant,
       Pipe!MayEnter, P!MayEnter, Pipe!EnterCached, P!EnterCached, Pipe!Enter, P!Enter,
       Pipe!Unconnected, P!Unconnected, Pipe!InputMissing, P!InputMissing,
       Pipe!Descend, P!Descend, Pipe!Resolves, P!Resolves, Pipe!InputTime, P!InputTime,
       Pipe!AfterChild, P!AfterChild, Pipe!NothingProduced, P!NothingProduced,
       Pipe!InputsDone, P!InputsDone, Pipe!Leave, P!Leave, Pipe!Skips, P!Skips,
       Pipe!Published, P!Published, Pipe!Unneeded, P!Unneeded, Pipe!Skip, P!Skip,
       Pipe!Start, P!Start, Pipe!Stop, P!Stop, Pipe!StageRefused, P!StageRefused,
       Pipe!TimeRead, P!TimeRead, Pipe!Stage, P!Stage, Pipe!StagePublished, P!StagePublished,
       Pipe!ExecuteFails, P!ExecuteFails, Pipe!Added, P!Added, Pipe!Computed, P!Computed,
       Pipe!Execute, P!Execute, Pipe!End, P!End, Pipe!EndFailed, P!EndFailed, Pipe!Walk, P!Walk,
       Pipe!Program, P!Program, Pipe!Next, P!Next, Pipe!ToSet, P!ToSet, Pipe!Last, P!Last,
       Pipe!Front, P!Front, Pipe!RemoveAt, P!RemoveAt
<1>2. Pipe!vars = P!vars
  BY DEF Pipe!vars, P!vars
<1> QED BY <1>1, <1>2 DEF Pipe!vars, P!vars

LEMMA SameProperties ==
    /\ P!UpToDate => Pipe!UpToDate
    /\ P!OncePerTransaction => Pipe!OncePerTransaction
    /\ P!TypeOK => Pipe!TypeOK
<1>1. P!UpToDate => Pipe!UpToDate
  BY DEF Pipe!UpToDate, P!UpToDate, Pipe!Idle, P!Idle, Pipe!Fresh, P!Fresh,
       Pipe!Requested, P!Requested, Pipe!Requests, P!Requests,
       Pipe!ClosedUpstream, P!ClosedUpstream, Pipe!Keys, P!Keys, Pipe!Added, P!Added,
       Pipe!MapRequest, P!MapRequest
<1>2. P!OncePerTransaction => Pipe!OncePerTransaction
  BY DEF Pipe!OncePerTransaction, P!OncePerTransaction, Pipe!Idle, P!Idle, Pipe!Top, P!Top,
       Pipe!Last, P!Last
<1>3. P!TypeOK => Pipe!TypeOK
  BY DEF Pipe!TypeOK, P!TypeOK, Pipe!Idle, P!Idle, Pipe!Top, P!Top, Pipe!Last, P!Last,
       Pipe!Reached, P!Reached, Pipe!ClosedDownstream, P!ClosedDownstream,
       Pipe!Consumers, P!Consumers, Pipe!ToSet, P!ToSet, Pipe!EnteredBy, P!EnteredBy
<1> QED BY <1>1, <1>2, <1>3

-----------------------------------------------------------------------------
(* A session has a behaviour of the pipeline. *)

LEMMA StepPipe == [Next]_vars => [Pipe!Next]_(Pipe!vars)
<1>1. ASSUME UNCHANGED pipeVars PROVE UNCHANGED Pipe!vars
  BY <1>1 DEF pipeVars, Pipe!vars
<1>2. CASE Next
  BY <1>1, <1>2 DEF Next
<1>3. CASE UNCHANGED vars
  BY <1>1, <1>3 DEF vars
<1> QED BY <1>2, <1>3

LEMMA PipelineImplemented == Spec => P!Spec
<1>1. Init => P!Init
  BY SameInit DEF Init
<1>2. [Next]_vars => [P!Next]_(P!vars)
  BY StepPipe, SameNext
<1> QED BY <1>1, <1>2, PTL DEF Spec, P!Spec

\* fviz_algorithm_update in a session, by the program or in a callback of another update:
\* what it leaves is what a computation from scratch would give, for every bound on calls
\* and connections, with the exceptions of PipelineProofs!UpdateIsFresh: an update during
\* which something changed, what follows one in which a callback changed more than the
\* root, and a producer asked for two requests.  Parameter objects that nobody observes
\* are changed where nobody consumes the output.
THEOREM SessionFresh == ASSUME ~ParameterWhileConsumed PROVE Spec => []UpToDate
<1>1. P!Spec => []P!UpToDate
  BY SameGiven, P!UpdateIsFresh
<1>2. P!UpToDate => UpToDate
  BY SameProperties DEF UpToDate
<1> QED BY <1>1, <1>2, PipelineImplemented, PTL

\* fviz_executive_execute_algorithm in a session: an algorithm executes at most once for
\* one request in one transaction that nothing disturbs (the exceptions are those above);
\* whatever callbacks do, its guards and times are in order, and the graph stays acyclic.
THEOREM SessionOnce == Spec => []OncePerTransaction
<1>1. P!Spec => []P!TypeOK
  BY SameGiven, P!TypeCorrect
<1>2. P!Spec => []P!OncePerTransaction
  BY SameGiven, P!ExecutedOnce
<1>3. P!TypeOK /\ P!OncePerTransaction => OncePerTransaction
  BY SameProperties DEF OncePerTransaction
<1> QED BY <1>1, <1>2, <1>3, PipelineImplemented, PTL

-----------------------------------------------------------------------------
(* The resources of a surface *)

\* The two modules read a history alike,
LEMMA SameDirty == \A x, since : Gpu!DirtySince(x, since) = G!DirtySince(x, since)
BY DEF Gpu!Newer, G!Newer, Gpu!UnprovenButNewest, G!UnprovenButNewest, Gpu!Unproven,
       G!Unproven, Gpu!Hull, G!Hull, Gpu!DirtySince, G!DirtySince, Gpu!ToSet, G!ToSet,
       Gpu!Last, G!Last, Gpu!Min, G!Min, Gpu!Max, G!Max

\* use what they read alike,
LEMMA SameUses ==
    /\ \A buffer, items, range : Gpu!Patched(buffer, items, range) = G!Patched(buffer, items, range)
    /\ \A range, n : Gpu!Usable(range, n) = G!Usable(range, n)
    /\ \A n, t : Gpu!Stamps(n, t) = G!Stamps(n, t)
    /\ Gpu!Count = G!Count
BY DEF Gpu!Patched, G!Patched, Gpu!Usable, G!Usable, Gpu!Stamps, G!Stamps, Gpu!Count, G!Count

\* change the data alike,
LEMMA SameChanges ==
    (Gpu!Next /\ ~Gpu!EnsureMesh /\ ~Gpu!EnsureGlyphs) => G!Next
BY DEF Gpu!Next, G!Next, Gpu!Change, G!Change, Gpu!geometryOnly, G!geometryOnly,
       Gpu!AddPoint, G!AddPoint,
       Gpu!SetPoints, G!SetPoints, Gpu!SetPointsRange, G!SetPointsRange, Gpu!AskBounds,
       G!AskBounds, Gpu!ComputeNormals, G!ComputeNormals, Gpu!AddCell, G!AddCell, Gpu!Clear,
       G!Clear, Gpu!SetScalars, G!SetScalars, Gpu!SetTuples, G!SetTuples, Gpu!ResizeScalars,
       G!ResizeScalars, Gpu!SetOpacities, G!SetOpacities, Gpu!SetLook, G!SetLook,
       Gpu!instancesOnly, G!instancesOnly, Gpu!AddInstance, G!AddInstance, Gpu!SetInstances,
       G!SetInstances, Gpu!ClearInstances, G!ClearInstances, Gpu!BuildInstances,
       G!BuildInstances, Gpu!Count, G!Count, Gpu!Setters, G!Setters, Gpu!Destroy, G!Destroy,
       Gpu!New, G!New, Gpu!Recorded, G!Recorded, Gpu!Touched, G!Touched, Gpu!Stamps, G!Stamps,
       Gpu!Full, G!Full, Gpu!Written, G!Written, Gpu!Ranges, G!Ranges, Gpu!ToSet, G!ToSet

\* and make the resources ready alike.
LEMMA SameMesh == Gpu!EnsureMesh => G!EnsureMesh
<1>1. \A m : Gpu!UpdatedGeometry(m) = G!UpdatedGeometry(m)
  <2>1. \A m, range : Gpu!WithGeometry(m, range) = G!WithGeometry(m, range)
    BY SameUses DEF Gpu!WithGeometry, G!WithGeometry
  <2>2. \A range : Gpu!UsableOr(range) = G!UsableOr(range)
    BY SameUses DEF Gpu!UsableOr, G!UsableOr, Gpu!Everything, G!Everything
  <2> QED BY <2>1, <2>2, SameDirty DEF Gpu!UpdatedGeometry, G!UpdatedGeometry
<1>2. \A t : Gpu!Colours(t) = G!Colours(t)
  BY DEF Gpu!Colours, G!Colours, Gpu!Colourable, G!Colourable, Gpu!Colour, G!Colour, Gpu!Count,
         G!Count
<1>3. \A m, t : Gpu!BuiltColours(m, t) = G!BuiltColours(m, t)
  BY <1>2 DEF Gpu!BuiltColours, G!BuiltColours, Gpu!Colourable, G!Colourable, Gpu!Count, G!Count
<1>4. \A m : Gpu!PartlyColoured(m) <=> G!PartlyColoured(m)
  BY SameDirty, SameUses DEF Gpu!PartlyColoured, G!PartlyColoured
<1>5. \A m, t : Gpu!UpdatedColours(m, t) = G!UpdatedColours(m, t)
  BY <1>2, <1>3, <1>4, SameDirty, SameUses DEF Gpu!UpdatedColours, G!UpdatedColours
<1>6. \A m : Gpu!RebuildsColours(m) <=> G!RebuildsColours(m)
  BY <1>4 DEF Gpu!RebuildsColours, G!RebuildsColours
<1>7. \A t : Gpu!NewMesh(t) = G!NewMesh(t)
  BY <1>3 DEF Gpu!NewMesh, G!NewMesh, Gpu!Stamps, G!Stamps, Gpu!Count, G!Count
<1> QED BY <1>1, <1>5, <1>6, <1>7
   DEF Gpu!EnsureMesh, G!EnsureMesh, Gpu!Ranged, G!Ranged, Gpu!RangedLook, G!RangedLook,
       Gpu!Reusable, G!Reusable, Gpu!Count, G!Count

LEMMA SameGlyphs == Gpu!EnsureGlyphs => G!EnsureGlyphs
BY SameDirty, SameUses
   DEF Gpu!EnsureGlyphs, G!EnsureGlyphs, Gpu!UploadedInstances, G!UploadedInstances,
       Gpu!PartlyUploaded, G!PartlyUploaded, Gpu!Rewritten, G!Rewritten, Gpu!NewGlyphs,
       G!NewGlyphs, Gpu!MTime, G!MTime, Gpu!Max, G!Max

\* A behaviour of the one is a behaviour of the other.
LEMMA SameGpu ==
    /\ G!GpuGiven
    /\ Gpu!Init => G!Init
    /\ [Gpu!Next]_(Gpu!gpuVars) => [G!Next]_(G!gpuVars)
<1>1. G!GpuGiven
  BY GpuAssumption DEF Gpu!GpuGiven, G!GpuGiven
<1>2. Gpu!Init => G!Init
  BY DEF Gpu!Init, G!Init, Gpu!Full, G!Full, Gpu!Recorded, G!Recorded, Gpu!New, G!New,
         Gpu!Stamps, G!Stamps
<1>3. Gpu!Next => G!Next
  BY SameChanges, SameMesh, SameGlyphs DEF G!Next
<1>4. UNCHANGED Gpu!gpuVars => UNCHANGED G!gpuVars
  BY DEF Gpu!gpuVars, G!gpuVars
<1> QED BY <1>1, <1>2, <1>3, <1>4

\* They call the same states fresh.
LEMMA SameFreshness ==
    G!MeshFresh /\ G!GlyphsFresh /\ G!BoundsFresh
    => Gpu!MeshFresh /\ Gpu!GlyphsFresh /\ Gpu!BoundsFresh
BY DEF Gpu!MeshFresh, G!MeshFresh, Gpu!GlyphsFresh, G!GlyphsFresh, Gpu!BoundsFresh,
       G!BoundsFresh, Gpu!Count, G!Count, Gpu!Stamps, G!Stamps, Gpu!Colours, G!Colours,
       Gpu!Colourable, G!Colourable, Gpu!Colour, G!Colour, Gpu!ToSet, G!ToSet
-----------------------------------------------------------------------------
(* A session has a behaviour of either. *)

LEMMA StepGpu == [Next]_vars => [Gpu!Next]_(Gpu!gpuVars)
<1>1. ASSUME UNCHANGED gpuVars PROVE UNCHANGED Gpu!gpuVars
  BY <1>1 DEF gpuVars, Gpu!gpuVars
<1>2. CASE Next
  BY <1>1, <1>2 DEF Next
<1>3. CASE UNCHANGED vars
  BY <1>1, <1>3 DEF vars
<1> QED BY <1>2, <1>3

LEMMA StepComposite == [Next]_vars => [Composite!Next]_(Composite!compositeVars)
<1>1. ASSUME UNCHANGED compositeVars PROVE UNCHANGED Composite!compositeVars
  BY <1>1 DEF compositeVars, Composite!compositeVars
<1>2. CASE Next
  BY <1>1, <1>2 DEF Next
<1>3. CASE UNCHANGED vars
  BY <1>1, <1>3 DEF vars
<1> QED BY <1>2, <1>3

\* ensure_actor_resource and fviz_object_mtime in a session: what the device keeps of a
\* surface shows it as it is, and so do its bounds and the time of a container, for every
\* length of the histories and every depth of nesting, where the arrays that colour are
\* the library's own.
THEOREM SessionCachesFresh == ASSUME ~ExternalArrays PROVE Spec => []CachesFresh
<1>1. Spec => G!Spec
  <2>1. Init => G!Init
    BY SameGpu DEF Init
  <2>2. [Next]_vars => [G!Next]_(G!gpuVars)
    BY StepGpu, SameGpu
  <2> QED BY <2>1, <2>2, PTL DEF Spec, G!Spec
<1>2. Spec => Composite!Spec
  <2>1. Init => Composite!Init
    BY DEF Init
  <2> QED BY <2>1, StepComposite, PTL DEF Spec, Composite!Spec
<1>3. G!Spec => [](G!MeshFresh /\ G!GlyphsFresh /\ G!BoundsFresh)
  BY SameGpu, G!ShownAsItIs
<1>4. Composite!Spec => []Composite!NeverStale
  BY CompositeAssumption, Composite!ContainersInformed
<1>5. (G!MeshFresh /\ G!GlyphsFresh /\ G!BoundsFresh) /\ Composite!NeverStale => CachesFresh
  BY SameFreshness DEF CachesFresh
<1> QED BY <1>1, <1>2, <1>3, <1>4, <1>5, PTL

-----------------------------------------------------------------------------
(* Observers *)

\* The list is maintained alike,
LEMMA SameMaintained ==
    /\ \A S, c : Object!HoldersOf(S, c) = O!HoldersOf(S, c)
    /\ \A S : Object!ToSet(S) = O!ToSet(S)
    /\ \A S : Object!Arranged(S) = O!Arranged(S)
    /\ \A S : Object!Cardinality(S) = O!Cardinality(S)
    /\ Object!Depth = O!Depth /\ Object!Top = O!Top
    /\ Object!InProgram = O!InProgram /\ Object!HasObject = O!HasObject
BY DEF Object!HoldersOf, O!HoldersOf, Object!ToSet, O!ToSet, Object!Arranged, O!Arranged,
       Object!Precedes, O!Precedes, Object!Depth, O!Depth, Object!Top, O!Top,
       Object!InProgram, O!InProgram, Object!HasObject, O!HasObject,
       Object!Cardinality, O!Cardinality

LEMMA SameMaintain ==
    /\ \A depth, l, refs, compact, sort :
           Object!Maintain(depth, l, refs, compact, sort) => O!Maintain(depth, l, refs, compact, sort)
    /\ \A l, refs : Object!DestroyList(l, refs) => O!DestroyList(l, refs)
BY SameMaintained DEF Object!Maintain, O!Maintain, Object!Deferred, O!Deferred,
       Object!DestroyList, O!DestroyList

\* edited alike,
LEMMA SameEdits ==
    /\ \A event, p, c : Object!AddObserver(event, p, c) => O!AddObserver(event, p, c)
    /\ \A tag : Object!RemoveObserver(tag) => O!RemoveObserver(tag)
    /\ \A event : Object!RemoveObservers(event) => O!RemoveObservers(event)
    /\ \A c : Object!ReleaseCommand(c) => O!ReleaseCommand(c)
<1>1. \A tags : Object!Deactivated(tags) = O!Deactivated(tags)
  BY DEF Object!Deactivated, O!Deactivated
<1>2. \A event, p, c : Object!AddObserver(event, p, c) => O!AddObserver(event, p, c)
  BY SameMaintained, SameMaintain
     DEF Object!AddObserver, O!AddObserver, Object!SortNeeded, O!SortNeeded, Object!Activation,
         O!Activation
<1>3. \A tag : Object!RemoveObserver(tag) => O!RemoveObserver(tag)
  BY <1>1, SameMaintained, SameMaintain DEF Object!RemoveObserver, O!RemoveObserver
<1>4. \A event : Object!RemoveObservers(event) => O!RemoveObservers(event)
  BY <1>1, SameMaintained, SameMaintain DEF Object!RemoveObservers, O!RemoveObservers
<1>5. \A c : Object!ReleaseCommand(c) => O!ReleaseCommand(c)
  BY SameMaintained DEF Object!ReleaseCommand, O!ReleaseCommand
<1> QED BY <1>2, <1>3, <1>4, <1>5

\* and dispatches run alike.
LEMMA SameDispatches ==
    /\ \A event : Object!InvokeEvent(event) => O!InvokeEvent(event)
    /\ \A abort : Object!CallbackReturns(abort) => O!CallbackReturns(abort)
    /\ Object!Visit => O!Visit
    /\ Object!End => O!End
    /\ Object!Retain => O!Retain
    /\ Object!Release => O!Release
<1>1. \A observed, event : Object!Matches(observed, event) <=> O!Matches(observed, event)
  BY DEF Object!Matches, O!Matches
<1>2. \A event : Object!Begin(event) => O!Begin(event)
  <2>1. \A event, l : Object!Frame(event, l) = O!Frame(event, l)
    BY <1>1, SameMaintained DEF Object!Frame, O!Frame
  <2> QED BY <2>1, SameMaintained, SameMaintain DEF Object!Begin, O!Begin
<1>3. \A f : Object!SetTop(f) <=> O!SetTop(f)
  BY SameMaintained DEF Object!SetTop, O!SetTop
<1>4. \A event : Object!InvokeEvent(event) => O!InvokeEvent(event)
  BY <1>2, SameMaintained DEF Object!InvokeEvent, O!InvokeEvent
<1>5. \A abort : Object!CallbackReturns(abort) => O!CallbackReturns(abort)
  BY <1>3, SameMaintained DEF Object!CallbackReturns, O!CallbackReturns
<1>6. Object!Visit => O!Visit
  BY <1>1, <1>3, SameMaintained
     DEF Object!Visit, O!Visit, Object!Calls, O!Calls, Object!DispatchCount, O!DispatchCount
<1>7. Object!End => O!End
  BY SameMaintained, SameMaintain
     DEF Object!End, O!End, Object!DispatchCount, O!DispatchCount, Object!Front, O!Front
<1>8. Object!Retain => O!Retain
  BY SameMaintained DEF Object!Retain, O!Retain
<1>9. Object!Release => O!Release
  BY <1>2, SameMaintained, SameMaintain DEF Object!Release, O!Release
<1> QED BY <1>4, <1>5, <1>6, <1>7, <1>8, <1>9

\* A behaviour of the one is a behaviour of the other,
LEMMA SameObject ==
    /\ O!ObserversGiven
    /\ Object!Init => O!Init
    /\ [Object!Next]_(Object!vars) => [O!Next]_(O!vars)
<1>1. O!ObserversGiven
  BY ObserversAssumption DEF Object!ObserversGiven, O!ObserversGiven
<1>2. Object!Init => O!Init
  BY DEF Object!Init, O!Init
<1>3. Object!Next => O!Next
  BY SameEdits, SameDispatches
     DEF Object!Next, O!Next, Object!Program, O!Program, Object!Tags, O!Tags
<1>4. UNCHANGED Object!vars => UNCHANGED O!vars
  BY DEF Object!vars, O!vars
<1> QED BY <1>1, <1>2, <1>3, <1>4

\* and both say the same of it.
LEMMA SameOrder ==
    /\ O!TypeOK /\ O!CalledInOrder /\ O!NoneSkipped /\ O!NewcomersWait
       => Object!TypeOK /\ Object!CalledInOrder /\ Object!NoneSkipped /\ Object!NewcomersWait
    /\ O!CommandAlive => Object!CommandAlive
<1>1. O!TypeOK => Object!TypeOK
  BY DEF Object!TypeOK, O!TypeOK, Object!Entry, O!Entry, Object!Tags, O!Tags
<1>2. O!CalledInOrder => Object!CalledInOrder
  BY DEF Object!CalledInOrder, O!CalledInOrder, Object!EntryOf, O!EntryOf, Object!Precedes,
         O!Precedes
<1>3. O!NoneSkipped => Object!NoneSkipped
  BY SameMaintained DEF Object!NoneSkipped, O!NoneSkipped
<1>4. O!NewcomersWait => Object!NewcomersWait
  BY DEF Object!NewcomersWait, O!NewcomersWait
<1>5. O!CommandAlive => Object!CommandAlive
  BY SameMaintained DEF Object!CommandAlive, O!CommandAlive
<1> QED BY <1>1, <1>2, <1>3, <1>4, <1>5

LEMMA StepObject == [Next]_vars => [Object!Next]_(Object!vars)
<1>1. ASSUME UNCHANGED objectVars PROVE UNCHANGED Object!vars
  BY <1>1 DEF objectVars, Object!vars
<1>2. CASE Next
  BY <1>1, <1>2 DEF Next
<1>3. CASE UNCHANGED vars
  BY <1>1, <1>3 DEF vars
<1> QED BY <1>2, <1>3

LEMMA ObjectImplemented == Spec => O!Spec
<1>1. Init => O!Init
  BY SameObject DEF Init
<1>2. [Next]_vars => [O!Next]_(O!vars)
  BY StepObject, SameObject
<1> QED BY <1>1, <1>2, PTL DEF Spec, O!Spec

\* fviz_object_invoke_event in a session: observers are called by priority and
\* registration, none twice, none missed, and newcomers wait, for every number of
\* observers and every depth of dispatches.
THEOREM SessionDispatches == Spec => []DispatchesInOrder
<1>1. O!Spec => [](O!TypeOK /\ O!CalledInOrder /\ O!NoneSkipped /\ O!NewcomersWait)
  BY SameObject, O!DispatchedInOrder
<1>2. O!TypeOK /\ O!CalledInOrder /\ O!NoneSkipped /\ O!NewcomersWait => DispatchesInOrder
  BY SameOrder DEF DispatchesInOrder
<1> QED BY <1>1, <1>2, ObjectImplemented, PTL

\* fviz_object_add_command_observer in a session: a command is alive while its callback
\* runs, and its count is what the program and the list hold.
THEOREM SessionCommands == Spec => []CommandAlive
<1>1. O!Spec => []O!CommandAlive
  BY SameObject, O!CommandsAlive
<1>2. O!CommandAlive => CommandAlive
  BY SameOrder DEF CommandAlive
<1> QED BY <1>1, <1>2, ObjectImplemented, PTL
=============================================================================
