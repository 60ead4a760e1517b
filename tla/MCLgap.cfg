SPECIFICATION LgapSpec
CONSTANTS
    Bytes = 4
    Turns = 3
INVARIANTS
    FramesAreConsistent
    CommandsAreReported
    MergedIsSent
PROPERTY
    CommandNotRevived
