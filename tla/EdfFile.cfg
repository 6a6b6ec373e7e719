SPECIFICATION FairSpec
CONSTANTS
    SeqSpan = 3
    BlockCap = 2
    Infos = {i1, i2}
    Values = {x1, x2}
    CrcChoices = {TRUE}
    NoType = NoType
    MaxFrames = 4
    MaxGiven = 3
    FailureMixes = {{"data"}, {"meta"}, {"lost"}}
    LosesAgain = FALSE
INVARIANTS
    TypeOK
    NoSpuriousSeqError
    ReadsAPrefix
    DataUnderItsInfo
    JunkOnlyAfterFailedWrite
    CleanFileReadsBack
PROPERTIES
    CrashLosesAtMostABlock
    ReaderStops
