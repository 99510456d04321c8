SPECIFICATION Spec
CONSTANTS
    MaxTask = 3
    MaxFD = 2
    LastStd = 0
    MaxPipe = 1
    MaxFile = 1
    Byte <- MCByte
    Chunk <- MCChunk
    Capacity = 2
    Size = {1, 2}
    Programs <- MCPrograms
INVARIANTS
    CountsAreExact
    HangupWhenUnreachable
PROPERTIES
    FirstPipeIsStream
CHECK_DEADLOCK FALSE
