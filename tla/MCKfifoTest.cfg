SPECIFICATION Spec
CONSTANTS
    FifoSize = 16
    MaxLost = 2
INVARIANTS
    NoFalseAlarm
    LossNoticed
