CONSTANTS
    t1 = t1
    t2 = t2
    t3 = t3
    Thread <- MCThread
    priority <- MCPriority
    NumCores = 2
    MaxNest = 2
    Race = FALSE
    None = None
SPECIFICATION Spec
SYMMETRY Symmetry
INVARIANTS TypeOK LocksExact SpinnersProgress NoWaiterLeft StopsOnlyForSignals
CHECK_DEADLOCK FALSE
