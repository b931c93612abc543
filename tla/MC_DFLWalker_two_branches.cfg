CONSTANTS
    Roms <- TwoBranchRoms
    DFH_PARENT_STACK_INCR_SIZE = 8
    StackCap = 17
    MallocZeroReturnsNull = FALSE
SPECIFICATION Spec
PROPERTIES
    ImplementsScan
