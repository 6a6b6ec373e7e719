SPECIFICATION Spec
CONSTANTS
    Schemas <- AllSchemas
    BlockSize = 5
    BufSize = 5
    Chunks = "copied"
    MaxBytes = 9
INVARIANTS
    TypeOK
    SkipAndBufTellTheRest
    CodeTellsWhatIsMissing
    BlocksFit
PROPERTIES
    RecordsInOrder
    BlocksAreFull
    CallReturns
CHECK_DEADLOCK FALSE
