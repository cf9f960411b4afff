SPECIFICATION Spec
CONSTANTS
    Worlds <- MCWorlds
    Tabs = {t1, t2}
    CacheTTL = 1
    FetchMax = 1
    MaxWrong = 1
    MaxFaults = 1
    MaxRotate = 1
CHECK_DEADLOCK FALSE
INVARIANTS
    VerifiedGenuine
PROPERTIES
    Blameless
    SecretFresh
    GatesOpen
