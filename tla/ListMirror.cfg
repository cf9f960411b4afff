SPECIFICATION Spec
CONSTANTS
    Values = {v1}
    QueueDepth = 1
    PackagesPerRead = 2
    MaxEpoch = 2
    MaxHist = 4
CHECK_DEADLOCK FALSE
INVARIANTS
    MirrorSound
PROPERTIES
    IsPrefixMirror
    CatchesUp
