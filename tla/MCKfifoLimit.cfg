SPECIFICATION FairSpec
CONSTANTS
    FifoSize = 8
    MaxLost = 4
INVARIANTS
    OneReportPerLoss
PROPERTY
    BothStop
