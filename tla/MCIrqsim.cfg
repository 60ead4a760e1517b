SPECIFICATION FairSpec
CONSTANTS
    N = 2
    Writers = {w1, w2}
    MaxCount = 2
INVARIANTS
    LiveWritesAreWhole
    UnwoundBeforeRemoval
    LeftWhenGone
PROPERTY
    UnloadFinishes
