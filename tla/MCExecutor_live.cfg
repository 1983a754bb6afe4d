\* Shutdown of one executor with queued, parked and running futures.
CONSTANTS
    e1 = e1  e2 = e2  w1 = w1  w2 = w2  f1 = f1  f2 = f2  f3 = f3
    None = None
    Executors = {e1}
    Workers = {w1}
    Futures = {f1, f2, f3}
    Home <- HomeSingle
    Priority <- PriorityEqual
    Antecedents <- EarlierAntecedent
    Frees <- NoFrees
    Capacity = 2
    Outcomes = {"OK"}
    Cancellable = {}
    Takeable = {}
    Destroyable = {e1}
    CrossExecutor = FALSE
    RejectedThen = FALSE
    FreeInShutdown = FALSE
SPECIFICATION FairSpec
PROPERTIES EveryFutureCompletes ShutdownEnds
\* The program may have nothing left to do.
CHECK_DEADLOCK FALSE
