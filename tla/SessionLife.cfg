SPECIFICATION Spec
CONSTANTS
    Sids = {s1}
    Handlers = {h1}
    SecondTicks = 2
    TTL = 4
    MaxTTL = 6
    ListOn = TRUE
    ListTTL = 4
    Grace = 2
    RoundTrip = 1
    VerifySpan = 1
    IssueSpan = 0
    MaxClock = 6
    MaxLog = 2
    MaxPassword = 1
    Statuses = {"active", "disabled"}
INVARIANTS
    TypeOK
    LifeBound
    UserLossBound
    RemovalBites
    NoFalseRevoke
