\* scheduler.go:45 says tasks are executed in dependency order.
SPECIFICATION Spec
CONSTANTS
    TaskIDs = {t1, t2}
    NoError = NoError
    MaxDeps = 1
    DepLists <- MCDepLists
    Priorities <- MCPriorities
    MaxCalls = 2
    MaxRuns = 1
INVARIANTS
    RunsAfterDependencies
CHECK_DEADLOCK FALSE
