\* one caller at a time: the limiter is an exact token bucket
SPECIFICATION Spec
CONSTANTS
    i0 = i0
    i1 = i1
    i2 = i2
    t1 = t1
    t2 = t2
    UNSPECIFIED = i0
    NoAddr = NoAddr
    NoBucket = NoBucket
    Idle = Idle
    IPs = {i0, i1}
    Threads = {t1}
    PerMin = 30
    Burst = 2
    TrustProxy = TRUE
    MAX_TRACKED_IPS = 1
    IDLE_EVICT = 4
    MaxTime = 6
CHECK_DEADLOCK FALSE
INVARIANTS
    TypeOK AdmissionBound
PROPERTIES
    DenialIsDue ImplementsWindow
