SPECIFICATION SinkSpec
CONSTANTS
    Adders = {a1, a2}
    Subjects = {"s1", "s2"}
    Sizes = {1, 3}
    MaxItems = 2
    MaxSize = 3
    MaxPending = 3
    MaxAdds = 4
CHECK_DEADLOCK FALSE
INVARIANTS
    Accounted
    InOrder
    FullWakes
PROPERTIES
    EveryRecordLeaves
    CloseDrains
