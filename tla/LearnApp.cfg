SPECIFICATION LearnSpec
CONSTANTS
    Cookies = {c1, c2}
    Users = {u1, u2}
    Flights = {f1, f2}
    None = None
    CookieNew = TRUE
    Mishaps = {"lossy", "shed", "list", "hasty"}
SYMMETRY CookieSymmetry
INVARIANTS
    TrustsAccepted
    LogoutEnds
