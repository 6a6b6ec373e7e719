SPECIFICATION Spec
CONSTANTS
    Schemas <- ArrayOnly
    BlockSize = 12
    BufSize = 12
    Chunks = "free"
    MaxBytes = 9
INVARIANT SkipAndBufTellTheRest
CHECK_DEADLOCK FALSE
