SPECIFICATION Spec
CONSTANTS
    Types = {"Volume"}
    MaxSets = 1
INVARIANT
    QueuedVolumeApplied
