\* Two executors of one worker, three futures, continuations that cross from one
\* executor to the other.  The program frees what is ready, cancels f1 and takes the value of
\* f2; no task fails of itself and no executor is destroyed.
CONSTANTS
    e1 = e1  e2 = e2  w1 = w1  w2 = w2  f1 = f1  f2 = f2  f3 = f3
    None = None
    Executors = {e1, e2}
    Workers = {w1, w2}
    Futures = {f1, f2, f3}
    Home <- HomeTwo
    Priority <- PriorityEqual
    Antecedents <- EarlierAntecedent
    Frees <- NoFrees
    Capacity = 2
    Outcomes = {"OK"}
    Cancellable = {f1}
    Takeable = {f2}
    Destroyable = {}
    CrossExecutor = TRUE
    RejectedThen = FALSE
    FreeInShutdown = FALSE
SPECIFICATION Spec
PROPERTY ImplementsGraph
\* The program may have nothing left to do.
CHECK_DEADLOCK FALSE
