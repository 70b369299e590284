SPECIFICATION Spec
CONSTANTS
    Types = {"Volume", "Mute", "LowLatency", "Sync", "SyncOff", "StreamSyncMode", "AudioFade",
             "LimitBufferingMs", "UseBuffering", "WindowSet", "MaxVideoWidth", "MaxVideoHeight",
             "ImmediateOutput", "SyncmodeStreaming", "ShowVideoWindow", "SubtitleMute",
             "TextTrackIdentifier", "PtsOffset", "IsSinglePathStream", "NumberOfStreams", "HasDrm"}
    MaxSets = 3
INVARIANTS
    TypeOK
    LastValueReachesServer
    ReadYourWrite
PROPERTIES
    NoOlderValue
    StateChangeReturns
