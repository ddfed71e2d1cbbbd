\* scanner.go:105 says that all files found are returned; dirQueue has room for two.
SPECIFICATION ScanSpec
CONSTANTS
    Root = "root"
    Dirs <- MCDirs
    Files <- MCFiles
    Listing <- MCListing
    Exact = {"e"}
    DirOnly = {"f4", "f6"}
    Workers = {w1}
    QueueCap = 2
    MaxGone = 0
INVARIANTS
    FindsAllFiles
CHECK_DEADLOCK FALSE
