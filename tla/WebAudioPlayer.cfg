SPECIFICATION Spec
CONSTANTS
    FrameSize = 2
    Sizes = {2, 3, 4}
    MaxBytes = 9
    MaxQueue = 2
    MaxRoom = 2
    MaxCalls = 2
    MaxEvents = 1
INVARIANTS
    TypeOK
    WrittenInOrder
    EveryByteAccounted
    EosAfterAllSamples
    PlayerFollowsSink
    VolumeReachesPlayer
    
CHECK_DEADLOCK FALSE
