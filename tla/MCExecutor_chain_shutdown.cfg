\* The executor is destroyed while an asynchronous pipeline update is in flight.
CONSTANTS
    e1 = e1  e2 = e2  w1 = w1  w2 = w2  f1 = f1  f2 = f2  f3 = f3
    None = None
    Executors = {e1}
    Workers = {w1, w2}
    Futures = {f1, f2, f3}
    Home <- HomeOne
    Priority <- PriorityEqual
    Antecedents <- ChainAntecedent
    Frees <- ChainFrees
    Capacity = 3
    Outcomes = {"OK"}
    Cancellable = {}
    Takeable = {}
    Destroyable = {e1}
    CrossExecutor = FALSE
    RejectedThen = FALSE
    FreeInShutdown = FALSE
SPECIFICATION FairSpec
PROPERTY ShutdownEnds
CHECK_DEADLOCK FALSE
