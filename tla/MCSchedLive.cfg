SPECIFICATION FairSpec
CONSTANTS
    t1 = t1  t2 = t2  t3 = t3
    Boot = t1
    Thread = {t1, t2, t3}
    NCPU = 1
    MaxPrio = 2
    BasePrio <- OneLow
    Pin <- AnyCpu
    StealAbove = 1
    Slack = 0
    WQ = {q}
    NewPrio = {}
    NewMask = {}
    Unplug = {}
    Windows = FALSE
PROPERTIES ReadyRuns
CHECK_DEADLOCK FALSE
