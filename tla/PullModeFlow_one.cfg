SPECIFICATION Spec
CONSTANTS
    Sources = {a}
    UnknownId = none
    MaxSamples = 2
    FrameCount = 2
    MaxBuffers = 3
    MaxFlushes = 2
    May = {"badBuffer", "remove"}
INVARIANTS
    TypeOK
    DeliveredInOrder
    NothingSkipped
    EosAfterAllSamples
    RequestInOnePlace
    FlushingMeansOngoing
PROPERTIES
    PopsWhatItSent
CHECK_DEADLOCK FALSE
