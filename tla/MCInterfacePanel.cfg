CONSTANTS
    Pids = {p1, p2}
    NoPid = NoPid
    Ifaces = {i1, i2}
    None = None
SPECIFICATION FairSpec
INVARIANTS PanelIsOfOneProcess OverlayIsOfItsGame
PROPERTIES TreeFollowsSelection ClosedIsLetGo
