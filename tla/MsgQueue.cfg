CONSTANTS
    t1 = t1
    t2 = t2
    t3 = t3
    Thread <- MCThread
    priority <- MCPriority
    Message = {m1, m2}
    m1 = m1
    m2 = m2
    msgCount = 2
    None = None
SPECIFICATION Spec
SYMMETRY Symmetry
INVARIANTS TypeOK NoMissedMessage NoMissedSlot
PROPERTY ImplementsChannel
CHECK_DEADLOCK FALSE
