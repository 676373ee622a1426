CONSTANTS
    Keys = {k1}
    OtherKeys = {k2}
    MaxCmds = 2
    PageMax = 1
    PageBudget = 2
    p1 = p1
    p2 = p2
    Pids = {p1, p2}
    NoPid = NoPid
    Methods <- MethodsOf
    HistoryCap = 2
    Invs = {i1, i2}
    Values = {v1}
    None = None
    Types = {"item", "varp"}
    FirstType = "item"
    Synthetic = {"varp"}
    Ids = {1, 2}
    Caches = {"c1", "c2"}
    NoCache = "none"
    Listed <- ListedIn
    GamevalIds <- GamevalOf
    Filters = {"f"}
    NoFilter = "no"
    IdHits <- IdHitsOf
    NameHits <- NameHitsOf
    NameBudget = 1
    RowBudget = 1
    MaxHistory = 2
    Bytes = {1, 129, 145, 146, 161, 193, 220}
    MaxLen = 4
    MaxNesting = 2
    NoteKeys = {n1}
    RowCap = 2
    MaxPayloads = 3
    MaxActions = 1
    w1 = w1
    w2 = w2
    w3 = w3
    Windows = {w1, w2, w3}
    NoWindow = NoWindow
    Owner <- OwnerOf
SPECIFICATION PanelsFairSpec
INVARIANTS QuietListIsWhole AbortTableIsFresh ConsoleIsOfOneProcess
INVARIANTS ListIsOfOpenCache RowsAreTheMatches ShownIsVisited SkipIsExact TapRowsAgree
PROPERTIES StoreSettles ListedAtLast ObjVarsSettle HistorySettles OverlayAppears
CHECK_DEADLOCK FALSE
