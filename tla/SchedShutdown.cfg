CONSTANTS
    Thread = {t0, t1}
    t1 = t1
    Core = {c0, c1}
    MainCore = c1
    c0 = c0
    c1 = c1
    Boot = t0
    t0 = t0
    None = None
    UserQueue = {q1}
    q1 = q1
    Priorities = {1}
    Affinities = {{c0}}
    Ops = {"create", "resume", "exit", "recreate", "yield", "end"}
    MaxSuspend = 1
    MaxTitles = 2
SPECIFICATION FairSpec
INVARIANT CountersExact
PROPERTY OtherCoresStop
CHECK_DEADLOCK FALSE
