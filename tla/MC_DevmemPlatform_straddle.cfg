SPECIFICATION Spec
CONSTANTS
    W = 8
    PAGE = 16
    VirtBase = 128
    Fds = {3, 4}
    Args <- StraddleArgs
    MayFail = FALSE
    MaxInits = 1
INVARIANTS InterfaceInsideMapping
CHECK_DEADLOCK FALSE
