\* Three workers, one removal, room for one directory less than can be waiting.
SPECIFICATION FairScanSpec
CONSTANTS
    Root = "root"
    Dirs <- MCDirs
    Files <- MCFiles
    Listing <- MCListing
    Exact = {"e"}
    DirOnly = {"f4", "f6"}
    Workers = {w1, w2, w3}
    QueueCap = 2
    MaxGone = 1
INVARIANTS
    ScanTypeOK
    NothingElseLost
    QuietAtReturn
PROPERTIES
    ScanEnds
CHECK_DEADLOCK FALSE
