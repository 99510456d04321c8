SPECIFICATION InteractiveSpec
CONSTANTS
    Byte <- MCByte
    Newline <- MCNewline
    Chunk <- MCChunk
    Canonical = TRUE
    Echo = TRUE
    Size = {2}
    MaxSent = 2
    MaxOwed = 2
    HasTimeout = TRUE
INVARIANTS
    AllOutputShown
PROPERTIES
    ExitsAfterGuest
    EOFReachesGuest
CHECK_DEADLOCK FALSE
