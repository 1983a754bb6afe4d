\* Two program threads that make up to four calls, requests and windows on three frames
\* in both directions, a full queue, a refused submission, and then the destruction.
CONSTANTS
    Worker = Worker  None = None
    Callers = {c1, c2}
    LastKey = 2
    Requests <- RequestsTwo
    Capacity = 2
    Windows <- WindowsTwo
    MaxCalls = 4
    MaxRefusals = 1
SPECIFICATION FairSpec
INVARIANTS OneDrain CancelledIffStale NoneStranded OwnedOnce DestroyedAlone
PROPERTIES CallsReturn
\* A destroyed queue does nothing.
CHECK_DEADLOCK FALSE
