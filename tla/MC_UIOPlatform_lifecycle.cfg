SPECIFICATION Spec
CONSTANTS
    Args <- AllArgs
    SysfsSizes <- Uio12Sizes
    LONG_MAX = 127
    MayFail = TRUE
    MaxInits = 2
    DflRom <- TwoHeaderRom
INVARIANTS TypeOK ThreadReadsLiveRecord LateIsrAtMostOnce SpanOfNamedDevice
PROPERTIES CleanupCompletes
\* The application may stop after any call, and a faulted init ends the process.
CHECK_DEADLOCK FALSE
