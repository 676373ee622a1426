CONSTANTS
    Writers = {w1, w2}
    Slots = 2
    MaxSeq = 3
SPECIFICATION Spec
INVARIANT UncommittedIsRetried
