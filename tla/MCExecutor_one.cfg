\* One executor, two workers, three futures in any dependency, a queue of two,
\* shutdown at any moment.
CONSTANTS
    e1 = e1  e2 = e2  w1 = w1  w2 = w2  f1 = f1  f2 = f2  f3 = f3
    None = None
    Executors = {e1}
    Workers = {w1, w2}
    Futures = {f1, f2, f3}
    Home <- HomeOne
    Priority <- PriorityMixed
    Antecedents <- AnyAntecedent
    Frees <- NoFrees
    Capacity = 2
    Outcomes = {"OK", "CANCELLED"}
    Cancellable = {f3}
    Takeable = {}
    Destroyable = {e1}
    CrossExecutor = FALSE
    RejectedThen = FALSE
    FreeInShutdown = FALSE
SPECIFICATION Spec
SYMMETRY Symmetric
INVARIANTS
    ScheduledOnce DependentsCounted ParkedReachable CountersExact
    WorkConserving LinksAlive
\* The program may have nothing left to do.
CHECK_DEADLOCK FALSE
