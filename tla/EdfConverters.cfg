SPECIFICATION Spec
CONSTANTS
    Formats = {"dat", "dyn", "echo"}
    Sources <- MCSources
    ArrayLen = 2
    MemCap = 6
    EditKinds = {"none", "move", "copy", "drop", "unknown", "refuse", "more", "tear"}
INVARIANTS
    TypeOK
    RestoresVariables
    ChartInOrder
    NothingBehindCrc
    CrashesOnlyFor
    CodeTells
PROPERTY ConversionEnds
CHECK_DEADLOCK FALSE
