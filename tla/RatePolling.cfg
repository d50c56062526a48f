\* two callers, two addresses, no bound on time
SPECIFICATION Spec
CONSTANTS
    i1 = i1
    i2 = i2
    t1 = t1
    t2 = t2
    NoBucket = NoBucket
    Idle = Idle
    IPs = {i1, i2}
    Threads = {t1, t2}
    PerMin = 20
    Burst = 2
    MAX_TRACKED_IPS = 1
    IDLE_EVICT = 6
    MaxWait = 1
    MaxAge = 7
CHECK_DEADLOCK TRUE
INVARIANTS
    TypeOK
PROPERTIES
    PollersAreServed
