SPECIFICATION Spec
CONSTANTS
    Submits = {r1, r2, r3}
    Sources = {src}
    Ips = {ip1}
    Logins = {u1}
    NoLogin = NoLogin
    Attempts = 1
    VerifyLimit = 2
    MaxFaults = 1
SYMMETRY SubmitSymmetry
CHECK_DEADLOCK FALSE
INVARIANTS
    GuessBound
    SlotsAccounted
