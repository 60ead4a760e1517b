SPECIFICATION FairSpec
CONSTANTS
    MaxChars = 4
    MaxSpurious = 3
INVARIANTS
    HangsOnlyAtStart
    HandedOverOnce
PROPERTY
    WaitingThreadServes
CHECK_DEADLOCK FALSE
