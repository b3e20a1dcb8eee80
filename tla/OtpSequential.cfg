SPECIFICATION SequentialSpec
CONSTANTS
    Requests = {r1, r2, r3, r4}
    Confirms = {c1, c2}
    NoRecord = NoRecord
    Cooldown = 1
    TTL = 1
    Window = 4
    Retention = 6
    MaxAttempts = 2
    MaxSends = 2
    MaxTime = 6
SYMMETRY CallSymmetry
CHECK_DEADLOCK FALSE
INVARIANT TwoWindowLimit
