SPECIFICATION Spec
CONSTANTS
    Requests = {r1, r2}
    Confirms = {c1, c2, c3}
    NoRecord = NoRecord
    Cooldown = 1
    TTL = 1
    Window = 2
    Retention = 2
    MaxAttempts = 2
    MaxSends = 2
    MaxTime = 2
SYMMETRY CallSymmetry
CHECK_DEADLOCK FALSE
INVARIANTS TypeOK BudgetPerCode NoReplay CountedSendsSpaced
