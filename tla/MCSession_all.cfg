\* The object: three observers, two of which come to the second outermost dispatch sorted
\* and compacted again, and callbacks that dispatch once more.
\* The pipeline: three calls of the program or of callbacks inside an update, an update
\* being one.  The surface: two
\* points, four changes, a history of two records.  The graph: three passes, two
\* resources.  The composite: two entries, nested three deep.  The interactor: two buttons,
\* one call of the program; three surfaces of a model of three cells; two timers, polled
\* up to time four.
CONSTANTS
    Components = {"object", "pipeline", "gpu", "graph", "composite", "ui", "records",
        "timers"}
    Priorities = {0, 1}
    Events = {"MOUSE", "DELETE"}
    InteractionEvents = {"MOUSE"}
    ObservedEvents = {"ANY"}
    Commands = {"command"}
    MaxObservers = 3
    MaxDispatches = 2
    MaxNested = 2
    ParameterWhileConsumed = FALSE
    MaxConnections = 2
    MaxCalls = 3
    HistoryLength = 2
    MaxPoints = 2
    MaxClock = 5
    ExternalArrays = FALSE
    Stages = {1, 2}
    MaxPasses = 3
    MaxResources = 2
    MaxUses = 3
    MaxDependencies = 1
    MixedNesting = FALSE
    MaxEntries = 2
    MaxDepth = 3
    MaxInterruptions = 1
    MaxRendered = 2
    MaxSurfaces = 3
    MaxTimers = 2
    MaxTimeline = 4
    None = None
SPECIFICATION Spec
INVARIANTS DispatchesInOrder CommandAlive UpToDate OncePerTransaction CachesFresh GraphsInOrder
PROPERTIES InteractionSettles
\* The bounds on calls, changes and frames stop the program.
CHECK_DEADLOCK FALSE
