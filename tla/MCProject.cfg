SPECIFICATION Spec
CONSTANTS
    DbKeys = {"k1", "k2"}
    DbVals = {1, 2}
    MaxCalls = 3
    Procs = {"proc1", "proc2"}
    MaxFound = 1
    MaxBuilds = 2
    MaxCleans = 1
    Caches = {"x", "y"}
    Compressing = {"x"}
    CacheData = {"small", "big"}
    BigData = {"big"}
    CacheKey = {"k1"}
    MaxOps = 4
    PluginNames = {"p", "q", "r"}
    Hooks = {"before"}
    HooksOf <- MCHooksOf
    Callers = {"caller"}
    MaxRegs = 3
    MaxExecs = 1
    StoreClients = {"x", "y"}
    Graphs <- MCGraphs
    MaxStoreCalls = 4
    Goroutines = {"t1", "t2", "t3"}
    GraphNames = {"g", "h"}
    MaxLockCalls = 3
    NoWriter = "nobody"
    NoNested = "nothing"
    CssPaths = {"a", "b", "c"}
    FileTypeOf <- MCFileTypeOf
    ModulePaths = {"c"}
    Sheets <- MCSheets
    NoSheet = NoSheet
    MaxEdits = 4
    AssetPaths <- MCAssetPaths
    AssetKind <- MCAssetKind
    Skipped = {}
    Contents = {1, 2}
    Unreadable = 9
    OptimizeWorkers = {"w1", "w2"}
    MaxAssetCalls = 4
    RouteNames <- MCRouteNames
    NameKind <- MCNameKind
    SiteFiles <- MCSiteFiles
    MaxSiteEdits = 2
    PhaseWorkers = {"x", "y"}
    PhaseNames = {"scan", "hash"}
    HeapSizes = {1, 2}
    MaxPhases = 2
    MaxTicks = 3
    MaxSnapshots = 2
INVARIANTS
    TypesOK
    BuildRowsSound
    CacheHitsSound
    PluginsRunRight
    GraphStoreSound
    GraphReadsSound
    ReadsExact
    CssExact
    AssetsExact
    RoutesExact
    TimelineExact
CHECK_DEADLOCK FALSE
