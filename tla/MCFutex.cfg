SPECIFICATION FutexSpec
CONSTANTS
    Task <- MCTask
    Space <- MCSpace
    spaceOf <- MCSpaceOf
    Addr = {"x"}
    NoAddr = NoAddr
    Value = {0, 1}
    Init0 = 0
    MaxWake = 2
INVARIANTS
    QueueIsExact
PROPERTIES
    SuccessIsEarned
    
CHECK_DEADLOCK FALSE
