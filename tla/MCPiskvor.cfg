SPECIFICATION PiskvorSpec
CONSTANTS
    Boards <- SmallAndLarge
    Foreign = {"?", "x", "stones"}
    Memory <- Pattern
INVARIANTS
    NoWinMissed
    WinsAreReal
CHECK_DEADLOCK FALSE
