SPECIFICATION InteractiveSpec
CONSTANTS
    Byte <- MCByte
    Newline <- MCNewline
    Chunk <- MCChunk
    Canonical = TRUE
    Echo = TRUE
    Size = {2}
    MaxSent = 1
    MaxOwed = 2
    HasTimeout = TRUE
PROPERTIES
    TimeoutEndsRun
CHECK_DEADLOCK FALSE
