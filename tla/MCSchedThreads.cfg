SPECIFICATION Spec
CONSTANTS
    t1 = t1  t2 = t2  t3 = t3
    Boot = t1
    Thread = {t1, t2, t3}
    NCPU = 2
    MaxPrio = 1
    BasePrio <- EvenPrio
    Pin <- AnyCpu
    StealAbove = 0
    Slack = 0
    WQ = {q}
    NewPrio = {}
    NewMask = {}
    Unplug = {}
    Windows = FALSE
INVARIANTS QueuedOnce BlockedIsWaiting  
CHECK_DEADLOCK FALSE
