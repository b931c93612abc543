SPECIFICATION Spec
CONSTANTS
    Args <- ReinitArgs
    SysfsSizes <- Uio12Sizes
    LONG_MAX = 127
    MayFail = FALSE
    MaxInits = 2
    DflRom <- TwoHeaderRom
PROPERTIES JoinOnlyUnjoinedThread
CHECK_DEADLOCK FALSE
