\* watch.go:28 says that filesystem changes are watched.
SPECIFICATION FairSpec
CONSTANTS
    Paths = {p1, p2, junk}
    Ignored = {junk}
    Timers <- MCTimers
    ChanCap = 1
    MaxChanges = 3
    None = None
PROPERTIES
    ChangesToldEventually
CHECK_DEADLOCK FALSE
