CONSTANTS
    Thread = {t0, t1}
    t0 = t0
    t1 = t1
    Boot = t0
    NumCores = 2
    MainCore = 1
    MaxSuspend = 1
    MaxCrossings = 1
    None = None
SPECIFICATION Spec
INVARIANT NoThreadLeftSuspended
