\* cache.go:18 says that the cache is thread-safe.
SPECIFICATION Spec
CONSTANTS
    Paths = {p1, p2, p3}
    Values = {v1, v2}
    Getters = {g1, g2}
    MaxSize = 2
    MaxCalls = 6
    None = None
INVARIANTS
    NeverPanics
CHECK_DEADLOCK FALSE
