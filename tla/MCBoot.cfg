SPECIFICATION MCSpec
CONSTANTS
    Name = {"a", "b"}
    MaxDepth = 3
    MaxHops = 4
    Virtual <- MCVirtual
    Outside <- MCOutside
    Trees <- MCTrees
    Written <- MCWritten
    Page = 4
    Word = 192
    Cell = 2
    Align = 4
    DefaultMemory = 112
    StackReserve = 68
    InterpBase = 32
    NoName = NoName
    Elf <- MCElf
    Executed <- MCExecuted
    Argvs <- MCArgvs
    Envps <- MCEnvps
    FD = {0, 1}
INVARIANTS
    
    CreatedIsFound
    ImageIsLoaded
    StackIsReadable

    
CHECK_DEADLOCK FALSE
