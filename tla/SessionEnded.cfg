SPECIFICATION Spec
CONSTANTS
    Sids = {s1}
    Handlers = {h1}
    SecondTicks = 2
    TTL = 9
    MaxTTL = 0
    ListOn = TRUE
    ListTTL = 9
    Grace = 3
    RoundTrip = 1
    VerifySpan = 0
    IssueSpan = 1
    MaxClock = 9
    MaxLog = 3
    MaxPassword = 0
    Statuses = {"active"}
INVARIANTS
    EndedStaysEnded
