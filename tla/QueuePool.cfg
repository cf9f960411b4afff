SPECIFICATION Spec
CONSTANTS
    Tasks = {t1, t2, t3}
    Workers = {w1, w2}
    Sweeper = sweeper
    Depth = 1
    Fulls = {"drop", "wait"}
CHECK_DEADLOCK FALSE
INVARIANTS
    TypeOK
    OnePlace
    NoLostWakeup
PROPERTIES
    KeepsPromise
    EveryTaskAnswered
    CloseReturns
