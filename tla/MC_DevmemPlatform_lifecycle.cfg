SPECIFICATION Spec
CONSTANTS
    W = 8
    PAGE = 16
    VirtBase = 128
    Fds = {3, 4}
    Args <- LifecycleArgs
    MayFail = TRUE
    MaxInits = 2
INVARIANTS TypeOK NoLeakedFd DecoderInvertsMapping DflEntryInRange ParsedLikeFreshProcess
\* The application may stop after its last cleanup.
CHECK_DEADLOCK FALSE
