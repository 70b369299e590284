SPECIFICATION Spec
CONSTANTS
    Sources = {audio, video}
    MaxTargets = 3
    MaxFlushes = 2
    MaxEos = 1
    May = {"syncPlay", "raceCommit", "collection"}
INVARIANTS
    ClientAgreesWithServer
    ServerReachesTarget
PROPERTIES
    TargetReached
CHECK_DEADLOCK FALSE
