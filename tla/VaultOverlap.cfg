SPECIFICATION MCSpec
CONSTANTS
    Calls = {c1, c2, c3}
    NoRecord = NoRecord
    MaxTokens = 3
SYMMETRY CallSymmetry
CHECK_DEADLOCK FALSE
INVARIANT NeverCutOff
