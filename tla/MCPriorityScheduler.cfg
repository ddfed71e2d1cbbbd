\* Three tasks of three priorities, at most one dependency each.
SPECIFICATION PrioritySpec
CONSTANTS
    TaskIDs = {t1, t2, t3}
    NoError = NoError
    MaxDeps = 1
    MaxPriority = 2
    DepLists <- MCDepLists
    Priorities <- MCPriorities
    MaxCalls = 3
    MaxRuns = 2
SYMMETRY Symmetry
INVARIANTS
    PriorityTypeOK
PROPERTIES
    PriorityImplementsContract
    HighestFirst
CHECK_DEADLOCK FALSE
