SPECIFICATION Spec
CONSTANTS
    Null = Null
    Recs <- SomeRecs
    MaxStr = 4
    BlockSize = 45
    BufSize = 44
    SizeofRec = 12
    SizeofInf = 6
    MaxInfos = 2
INVARIANTS
    TypeOK
    ParsedIsWritten
    RefusedOnlyForRoom
    ThrowsOnlyAtLongNames
    SameText
CHECK_DEADLOCK FALSE
