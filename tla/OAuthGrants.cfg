SPECIFICATION Spec
CONSTANTS
    Consents = {k1}
    Exchanges = {e1, e2}
    Bearers = {b1}
    Clients = {x1, x2}
    Users = {u1, u2}
    Nothing = Nothing
CHECK_DEADLOCK FALSE
SYMMETRY CallSymmetry
INVARIANTS TypeOK TokensBound PresentedIsGone GrantedWasAllowed
PROPERTY ImplementsLineage
