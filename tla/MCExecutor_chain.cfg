\* The chain of futures of an asynchronous pipeline update: the last stage
\* destroys the links when its user data is destroyed.
CONSTANTS
    e1 = e1  e2 = e2  w1 = w1  w2 = w2  f1 = f1  f2 = f2  f3 = f3
    None = None
    Executors = {e1}
    Workers = {w1, w2}
    Futures = {f1, f2, f3}
    Home <- HomeOne
    Priority <- PriorityEqual
    Antecedents <- ChainAntecedent
    Frees <- ChainFrees
    Capacity = 3
    Outcomes = {"OK", "FAILED", "CANCELLED"}
    Cancellable = {f1, f2, f3}
    Takeable = {f3}
    Destroyable = {}
    CrossExecutor = FALSE
    RejectedThen = FALSE
    FreeInShutdown = FALSE
SPECIFICATION FairSpec
PROPERTY FreeEnds
\* The program may have nothing left to do.
CHECK_DEADLOCK FALSE
