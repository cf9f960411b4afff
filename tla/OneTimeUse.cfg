SPECIFICATION Spec
CONSTANTS
    Submits = {r1, r2}
    Nonces = {n1, n2}
    Spellings = {alice, ALICE}
    SecondTicks = 2
    TicketTTLs = {4, 5}
    ReturnSpan = 2
    CheckSpan = 1
    Period = 1
    Skew = 1
    CodeSpan = 2
    MaxClock = 9
SYMMETRY SubmitSymmetry
CHECK_DEADLOCK FALSE
INVARIANTS
    TicketOnce
    CodeOnce
