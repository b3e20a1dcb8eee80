SPECIFICATION MCSpec
CONSTANTS
    Roots = {a}
    Kids = {x, y}
    Calls = {c1, c2}
    Seeded = Seeded
    Absent = Absent
    Never = Never
SYMMETRY Symmetry
CHECK_DEADLOCK FALSE
INVARIANTS TypeOK OrphansGoing CacheCurrentUnlessTorn
PROPERTIES StatusAsAsked ImplementsTree
