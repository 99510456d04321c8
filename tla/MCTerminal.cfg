SPECIFICATION Spec
CONSTANTS
    Byte <- MCByte
    Newline <- MCNewline
    Chunk <- MCChunk
    Canonical = TRUE
    Echo = TRUE
    Size = {1, 2}
    MaxSent = 2
    MaxOwed = 1
INVARIANTS
    NoLostWakeup
PROPERTIES
    BothAreStreams
    ReadReturns
CHECK_DEADLOCK FALSE
