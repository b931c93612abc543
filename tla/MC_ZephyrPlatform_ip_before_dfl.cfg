CONSTANTS
    Tables <- AllTables
    DflRom <- TwoHeaderRom
    Args <- SpanArgs
    LONG_MAX = 127
SPECIFICATION Spec
INVARIANTS
    InitRegistryAsIntended
