SPECIFICATION Spec
CONSTANTS
    a = a
    b = b
    Streams <- TwoStreams
    Copies <- OneWay
    Size = 3
    Formats = "short"
    MaxByte = 5
INVARIANT TypeOK
PROPERTY StreamsAreQueues
CHECK_DEADLOCK FALSE
