SPECIFICATION Spec
CONSTANTS
    Fields = 4
    Loops = {"unpack", "chart"}
    MemRecords = 2
    MaxFields = 16
INVARIANTS
    TypeOK
    RecordsAsWritten
    SkipTellsNextField
PROPERTY
    BlockIsConsumed
CHECK_DEADLOCK FALSE
