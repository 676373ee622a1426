CONSTANTS
    v1 = v1
    v2 = v2
    Files = {f1, f2}
    Versions = {v1, v2}
    Absent = Absent
    Size <- Sizes
    NoFile = NoFile
SPECIFICATION FairSpec
INVARIANTS ReadyIsWhole CacheIsWhole
PROPERTIES BuildEnds
