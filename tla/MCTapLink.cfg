CONSTANTS
    Pids = {p1, p2}
    NoPid = NoPid
    Topics = {t1}
    RingCap = 1
    MaxFrames = 2
SPECIFICATION FairSpec
INVARIANTS RingIsOfOnePid
PROPERTIES FrameLoopRuns EventuallyConnected
