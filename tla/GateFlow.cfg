SPECIFICATION Spec
CONSTANTS
    Modes = {"enforce", "observe", "off"}
    Providers = {"form", "jwt", "app"}
    TTL = 4
    MaxTTL = 6
    RenewAfter = 2
    ReauthAfter = 2
    Grace = 1
    Lead = 1
INVARIANTS
    GateHolds
    IdentityGenuine
    NoLoop
