SPECIFICATION MCSpec
CONSTANTS
    Calls = {c1, c2, c3, c4}
    NoRecord = NoRecord
    MaxTokens = 4
SYMMETRY CallSymmetry
CHECK_DEADLOCK FALSE
INVARIANTS TypeOK HealthyIsGood CutOffOnlyByOverlap NewestKept
