SPECIFICATION FairSpec
CONSTANTS
    Args = {0, 1, 2, 3, 4, 123, 124, 125, 126, 127, 128, 255}
    SeqLen = 3
    MaxSignals = 3
INVARIANTS
    WellFramed
    TakesTwoMishaps
PROPERTIES
    SignalEnds
    FadeTurns
