\* The parameter object of a filter changes while another algorithm uses its output.
CONSTANTS
    Components = {"pipeline"}
    Priorities = {0, 1}
    Events = {"MOUSE", "DELETE"}
    InteractionEvents = {"MOUSE"}
    ObservedEvents = {"ANY"}
    Commands = {"command"}
    MaxObservers = 3
    MaxDispatches = 2
    MaxNested = 2
    ParameterWhileConsumed = TRUE
    MaxConnections = 2
    MaxCalls = 3
    HistoryLength = 2
    MaxPoints = 2
    MaxClock = 5
    ExternalArrays = FALSE
    Stages = {1, 2}
    MaxPasses = 3
    MaxResources = 2
    MaxUses = 3
    MaxDependencies = 1
    MixedNesting = FALSE
    MaxEntries = 2
    MaxDepth = 3
    MaxInterruptions = 1
    MaxRendered = 2
    MaxSurfaces = 3
    MaxTimers = 2
    MaxTimeline = 4
    None = None
SPECIFICATION Spec
INVARIANT UpToDate
CHECK_DEADLOCK FALSE
