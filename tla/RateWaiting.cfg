\* two callers: one waits for the mutex while the other is answered
SPECIFICATION WaitSpec
CONSTANTS
    i0 = i0
    t1 = t1
    t2 = t2
    UNSPECIFIED = i0
    NoAddr = NoAddr
    NoBucket = NoBucket
    Idle = Idle
    IPs = {i0}
    Threads = {t1, t2}
    PerMin = 40
    Burst = 2
    TrustProxy = FALSE
    MAX_TRACKED_IPS = 0
    IDLE_EVICT = 3
    MaxTime = 4
CHECK_DEADLOCK FALSE
INVARIANTS
    WaitsAreTheSlack
PROPERTIES
    LateDenialIsDue
