CONSTANTS
    Pids = {p1, p2}
    NoPid = NoPid
    PipeSlots = 2
    MaxCalls = 2
SPECIFICATION FairSpec
INVARIANTS PipeIsInStep NoSlotIsLeaked
PROPERTIES CallReturns Reconnects CallIsOneExchange
