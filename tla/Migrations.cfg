SPECIFICATION Spec
CONSTANTS
    Runners = {r1, r2}
    MaxId = 3
INVARIANTS TypeOK OnceInOrder
PROPERTIES ImplementsLog
