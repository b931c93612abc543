SPECIFICATION Spec
CONSTANTS
    Args <- NoPathArgs
    SysfsSizes <- DefaultSizes
    LONG_MAX = 127
    MayFail = FALSE
    MaxInits = 2
    DflRom <- TwoHeaderRom
INVARIANTS InitNeverFaults
CHECK_DEADLOCK FALSE
