SPECIFICATION Spec
CONSTANTS
    Paths = {p1, p2}
    InRoot = {p1}
    Contents = {c1, c2}
    NoFile = NoFile
    Zero = Zero
    ChanCap = 1
    MaxChanges = 2
INVARIANTS
    TypeOK
    SettledMeansCurrent
PROPERTIES
    CatchesUp
    ShutdownEnds
CHECK_DEADLOCK FALSE
