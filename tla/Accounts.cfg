SPECIFICATION Spec
CONSTANTS
    Calls = {c1, c2, c3, c4, c5}
    None = None
SYMMETRY CallSymmetry
CHECK_DEADLOCK FALSE
INVARIANTS TypeOK SessionsResolve StatusIsItsOwn
PROPERTY VerifiedStays
