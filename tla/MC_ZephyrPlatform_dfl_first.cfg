CONSTANTS
    Tables <- DflFirstTables
    DflRom <- TwoHeaderRom
    Args <- SpanArgs
    LONG_MAX = 127
SPECIFICATION Spec
INVARIANTS
    TypeOK
    InitRegistryAsIntended
