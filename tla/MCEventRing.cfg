CONSTANTS
    Writers = {w1, w2}
    Slots = 2
    MaxSeq = 5
SPECIFICATION FairSpec
INVARIANTS IntactUnlessLapped LossIsCounted CountedOnce
PROPERTIES FeedIsOrdered CatchesUp
