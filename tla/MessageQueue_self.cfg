SPECIFICATION Spec
CONSTANTS
    Threads = {owner, c1, c2}
    Worker = w
    Stoppers = {w}
    MaxPosts = 4
    MaxStarts = 2
PROPERTIES
    CallersReleased
CHECK_DEADLOCK FALSE
