SPECIFICATION FairSpec
CONSTANTS
    SignalNumber = {17, 33}
    Ignored = {17}
    Fixed = {}
    Low = {17}
    Actions <- MCActions
    Cpu = {"a", "b"}
    Top = 4
    Frame = 2
INVARIANTS
    FramesIntact
    NoReentry
PROPERTIES
    ReturnRestores
    PendingIsTaken
CHECK_DEADLOCK FALSE
