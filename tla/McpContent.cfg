SPECIFICATION MCSpec
CONSTANTS
    Posts = {p}
    Edits = {e}
    Ids = {i, j}
    Fields = {title, note}
    Omitted = {note}
    MaxBatch = 2
    Seeded = Seeded
    None = None
SYMMETRY Symmetry
CHECK_DEADLOCK FALSE
INVARIANTS TypeOK RefusedWroteNothing
PROPERTIES OnlyAskedChanges
