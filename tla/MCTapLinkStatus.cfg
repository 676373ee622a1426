CONSTANTS
    Pids = {p1}
    NoPid = NoPid
    Topics = {t1}
    RingCap = 1
    MaxFrames = 1
SPECIFICATION Spec
INVARIANT SubscribedIsAlive
