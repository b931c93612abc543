SPECIFICATION Spec
CONSTANTS
    W = 8
    PAGE = 16
    VirtBase = 128
    Fds = {3, 4}
    Args <- AlignedArgs
    MayFail = TRUE
    MaxInits = 1
PROPERTIES CleanupClosesOwnHandle
CHECK_DEADLOCK FALSE
