SPECIFICATION MCSpec
CONSTANTS
    Call = {c1, c2, c3, c4}
    Elf = {c4}
    Typist = {t1, t2}
    NoCall = NoCall
    Guest = c1
    UI = t1
    BufSize = 2
    MaxPieces = 4
    MaxLines = 5
INVARIANTS
    OneGuest
    InputNeedsGuest
    ScreenInOrder
PROPERTIES
    SlotIsFreed
    
CHECK_DEADLOCK FALSE
