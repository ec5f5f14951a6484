CONSTANTS
    t1 = t1
    t2 = t2
    t3 = t3
    Thread <- MCThread
    None = None
    priority <- MCPriority
    c1 = c1
    c2 = c2
    c3 = c3
    Core = {c1, c2, c3}
    coreOf <- MCCoreOf
    auto = auto
    manual = manual
    Event = {auto, manual}
    mode <- MCMode
    rdvEvent = rdvEvent
    rendezvousEvent = rdvEvent
    Rendezvous = {r1, r2}
    CoreMasks = {{c1, c2}, {c1, c2, c3}}
    Mutex = {m1, m2}
    cond = cond
    semaphore = semaphore
    initialCount <- MCInitialCount
    MaxCount = 2
    MaxLockCount = 2
    Programs <- MCPrograms
SPECIFICATION FairSpec
INVARIANTS TypeOK SignaledEventHasNoWaiter TimeoutTakesNoSignal SleepsOnlyUnmet MutexesExact FreeMutexIsComeFor NobodyWaitsBesideUnit
CHECK_DEADLOCK FALSE
PROPERTY ImplementsSemaphore
