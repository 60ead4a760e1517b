SPECIFICATION TunerFairSpec
CONSTANTS
    Pids = {p1, p2, p3}
    NoPid = NoPid
    MaxConns = 2
    MaxReqs = 2
INVARIANTS
    PidIsOwnChild
    IdleServerIsSilent
    BlocksOnlyOnRetune
PROPERTY
    CloseIsNoticed
CHECK_DEADLOCK FALSE
