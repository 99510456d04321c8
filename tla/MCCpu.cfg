SPECIFICATION MCSpec
CONSTANTS
    Half = 4
    NarrowHalf = 2
    NarrowBits = 2
    WideBits = 3
    Immediates = {0, 1, 2}
    BitAnd <- MCAnd
    BitOr <- MCOr
    BitXor <- MCXor
    EvenParity <- MCEven
    Sizes = {"narrow", "wide"}
    Excused = {"sbb", "short"}
    Slots = 3
    Num = {0, 1, NaN}
    NaN = NaN
    Nought = 0
    One = 1
    IntegerAH = {{}, {"C0", "C2"}}
    IntegerFlags = {{"PF", "ZF"}}
    Less <- MCLess
    Plus <- MCPlus
    Minus <- MCMinus
    Times <- MCTimes
    Mod <- MCMod
    Magnitude <- MCSame
    Root <- MCSame
    Bytes = 6
    RegWord = 8
    ByteBits = 2
    Dword = 2
    EAX <- MCEAX
    Contents <- MCContents
    Pointers <- MCPointers
    Counts <- MCCounts
    Indexes <- MCIndexes
    MaxStrings = 2
INVARIANTS
    ConditionsTellResult
    
    ShiftIsRepeated
    CompareReachesJump
    StringsAreExact
PROPERTIES
    DivUndoesMul
    IsStack
CHECK_DEADLOCK FALSE
