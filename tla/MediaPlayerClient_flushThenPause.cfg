SPECIFICATION Spec
CONSTANTS
    Sources = {audio}
    MaxTargets = 1
    MaxFlushes = 1
    MaxEos = 0
    May = {"mixedFlush"}
INVARIANT
    ServerReachesTarget
CHECK_DEADLOCK FALSE
