CONSTANTS
    t1 = t1
    t2 = t2
    t3 = t3
    Tasks = {t1, t2, t3}
    MaxThreads = 1
    MaxQueue = 1
SPECIFICATION LiveSpec
INVARIANTS
    AdmissionBound
    CloseDrains
    NoLostWakeup
PROPERTIES
    CloseSettles
CHECK_DEADLOCK FALSE
