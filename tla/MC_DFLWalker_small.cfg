\* Every well-formed three-slot DFL image with at most one branch block per
\* header; a C library whose malloc(0) returns a pointer (glibc).
CONSTANTS
    Roms <- OneBranchAndScenarioC
    DFH_PARENT_STACK_INCR_SIZE = 8
    StackCap = 17
    MallocZeroReturnsNull = FALSE
SPECIFICATION Spec
INVARIANTS
    TypeOK
    RegistryIndexInBounds
    ParentStackReleased
PROPERTIES
    ImplementsScan
