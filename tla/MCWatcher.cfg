\* Three changes of two paths, a channel for one event, Stop at any time.
SPECIFICATION FairSpec
CONSTANTS
    Paths = {p1, p2, junk}
    Ignored = {junk}
    Timers <- MCTimers
    ChanCap = 1
    MaxChanges = 3
    None = None
INVARIANTS
    TypeOK
    LossAccounted
    SentOnce
    BatchTimedOnce
PROPERTIES
    StopEnds
CHECK_DEADLOCK FALSE
