\* two callers: a late one moves the bucket's clock back
SPECIFICATION Spec
CONSTANTS
    i0 = i0
    i1 = i1
    i2 = i2
    t1 = t1
    t2 = t2
    UNSPECIFIED = i0
    NoAddr = NoAddr
    NoBucket = NoBucket
    Idle = Idle
    IPs = {i0}
    Threads = {t1, t2}
    PerMin = 30
    Burst = 1
    TrustProxy = FALSE
    MAX_TRACKED_IPS = 1
    IDLE_EVICT = 4
    MaxTime = 4
CHECK_DEADLOCK FALSE
INVARIANTS
    AdmissionBound
