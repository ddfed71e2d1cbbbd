\* Every sequence of six calls on three paths, in a cache of two entries.
SPECIFICATION Spec
CONSTANTS
    Paths = {p1, p2, p3}
    Values = {v1, v2}
    Getters = {g1, g2}
    MaxSize = 2
    MaxCalls = 6
    None = None
INVARIANTS
    TypeOK
    MapAndHeapAgree
    ReturnsCurrent
SYMMETRY MCSymmetry
CHECK_DEADLOCK FALSE
