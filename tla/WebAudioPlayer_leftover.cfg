SPECIFICATION Spec
CONSTANTS
    FrameSize = 2
    Sizes = {3}
    MaxBytes = 6
    MaxQueue = 2
    MaxRoom = 2
    MaxCalls = 1
    MaxEvents = 2
INVARIANT
    LeftoverWrittenOnce
CHECK_DEADLOCK FALSE
