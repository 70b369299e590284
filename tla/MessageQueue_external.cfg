SPECIFICATION Spec
CONSTANTS
    Threads = {owner, c1, c2}
    Worker = w
    Stoppers = {owner}
    MaxPosts = 4
    MaxStarts = 2
INVARIANTS
    TypeOK
    FifoOrder
    EveryMessageAccounted
    NoLostWaiter
    StopDrains
PROPERTIES
    CallersReleased
    StopTerminates
    ImplementsEventLoop
CHECK_DEADLOCK FALSE
