\* A dispatch that needs one of the two workers, then one that needs both.
CONSTANTS
    Owner = Owner  None = None
    WorkerCount = 2
    Callers = {c1}
    ChunkCounts = {2, 3}
    MaxDispatches = 2
    Modulus = 8
SPECIFICATION Spec
INVARIANTS DispatchesSerialized
\* Nothing happens after the last dispatch or the shutdown.
CHECK_DEADLOCK FALSE
