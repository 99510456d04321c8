SPECIFICATION SchedulerSpec
CONSTANTS
    MaxPid = 4
    Budgets = {0, 5}
INVARIANTS
    BlockedCanEnd
PROPERTIES
    ReapedOnceByParent
    
    
CHECK_DEADLOCK FALSE
