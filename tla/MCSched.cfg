SPECIFICATION Spec
CONSTANTS
    t1 = t1  t2 = t2  t3 = t3
    Boot = t1
    Thread = {t1, t2}
    NCPU = 2
    MaxPrio = 2
    BasePrio <- EvenPrio
    Pin <- AnyCpu
    StealAbove = 1
    Slack = 0
    WQ = {q}
    NewPrio = {}
    NewMask = {}
    Unplug = {1}
    Windows = FALSE
INVARIANTS TypeOK  
CHECK_DEADLOCK FALSE
