SPECIFICATION Spec
CONSTANTS
    Types <- BothTypes
    BlockSize = 7
    MaxTypes = 2
    MaxObjects = 5
INVARIANTS
    TypeOK
    WrittenInOrder
    SkipTellsTheRest
    IsOkTellsRecords
    TextIsWhole
PROPERTIES
    WriteReturns
    ConverterEnds
CHECK_DEADLOCK FALSE
