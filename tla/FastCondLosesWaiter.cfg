CONSTANTS
    t1 = t1
    t2 = t2
    t3 = t3
    Thread <- MCThread
    priority <- MCPriority
    NumCores = 2
    MaxNest = 2
    Race = TRUE
    None = None
SPECIFICATION Spec
INVARIANT NoWaiterLeft
CHECK_DEADLOCK FALSE
