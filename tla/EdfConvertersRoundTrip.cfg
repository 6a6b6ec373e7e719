SPECIFICATION Spec
CONSTANTS
    Formats = {"dyn"}
    Sources <- MCSources
    ArrayLen = 2
    MemCap = 6
    EditKinds = {"none"}
INVARIANT RoundTrip
CHECK_DEADLOCK FALSE
