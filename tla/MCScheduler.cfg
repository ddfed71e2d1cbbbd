\* Three tasks, any tables three AddTask or Clear calls can build, one Run.
SPECIFICATION FairSpec
CONSTANTS
    TaskIDs = {t1, t2, t3}
    NoError = NoError
    MaxDeps = 2
    DepLists <- MCDepLists
    Priorities <- MCPriorities
    MaxCalls = 3
    MaxRuns = 1
INVARIANTS
    TypeOK
    BookkeepingExact
    ReportsExact
    ExactAtReturn
PROPERTIES
    ImplementsContract
    RunTerminates
CHECK_DEADLOCK FALSE
