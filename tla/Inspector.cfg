SPECIFICATION Spec
CONSTANTS
    Streams <- MCStreams
    Depth = 1
    Workers = 1
    Spare = 0
    Rules <- MCRules
    MaxUnsent = 1
CHECK_DEADLOCK FALSE
INVARIANTS
    HandledOnce
    ShutdownAccounted
PROPERTIES
    AnsweredInTheEnd
