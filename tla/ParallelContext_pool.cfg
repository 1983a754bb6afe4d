\* Two program threads dispatch ranges of three chunks on a context with two
\* workers, so every dispatch that uses the pool uses all of it; callbacks fail, tokens
\* are cancelled, and the context is destroyed.
CONSTANTS
    Owner = Owner  None = None
    WorkerCount = 2
    Callers = {c1, c2}
    ChunkCounts = {3}
    MaxDispatches = 2
    Modulus = 8
SPECIFICATION FairSpec
INVARIANTS TypeOK RemainingCounts DispatchesSerialized EveryChunkOnce LowestFailure
PROPERTIES DispatchReturns ShutdownEnds
\* Nothing happens after the last dispatch or the shutdown.
CHECK_DEADLOCK FALSE
