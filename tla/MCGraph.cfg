\* Every graph of three IDs and up to three edges, every algorithm on each.
SPECIFICATION Spec
CONSTANTS
    IDs <- MCIDs
    MaxEdges = 3
INVARIANTS
    TypeOK
    SortCorrect
    CyclesCorrect
    AffectedCorrect
CHECK_DEADLOCK FALSE
