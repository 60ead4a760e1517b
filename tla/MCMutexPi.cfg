SPECIFICATION FairSpec
CONSTANTS
    Children = {c1, c2, c3}
    MaxIter = 2
    MaxWait = 2
    MaxKills = 2
    NoOwner = NoOwner
INVARIANTS
    MutualExclusion
    RepairedBeforeUse
    AbortOnlyOnTimeout
    DestroyedUnused
PROPERTY
    ParentFinishes
