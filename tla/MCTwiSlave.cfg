SPECIFICATION FairSpec
CONSTANTS
    Bytes = 16
    MaxErrors = 3
INVARIANT
    NeverDeaf
PROPERTIES
    ReadsCountUp
    ClockReleased
