SPECIFICATION Spec
CONSTANTS
    SeqSpan = 3
    BlockCap = 2
    Infos = {i1, i2}
    Values = {x1}
    CrcChoices = {TRUE}
    NoType = NoType
    MaxFrames = 4
    MaxGiven = 3
    FailureMixes = {{"data"}, {"meta"}, {"data", "meta"}, {"lost"}}
    LosesAgain = FALSE
INVARIANT FlushedIsRead
