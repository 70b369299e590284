SPECIFICATION Spec
CONSTANTS
    Sources = {a}
    UnknownId = none
    MaxSamples = 1
    FrameCount = 1
    MaxBuffers = 2
    MaxFlushes = 2
    May = {}
PROPERTIES
    FlushStartReturns
    StreamingReleased
    NeedDataAnswered
CHECK_DEADLOCK FALSE
