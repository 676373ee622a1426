CONSTANTS
    Pids = {p1, p2}
    NoPid = NoPid
    Polled = {varp}
    Unpolled = {}
    Cap = 2
    MaxEvents = 3
    Layouts = {{"watch"}, {"token"}}
SPECIFICATION FairSpec
INVARIANTS ScanIsExact FailedIsLatest
PROPERTIES RowsSettle
