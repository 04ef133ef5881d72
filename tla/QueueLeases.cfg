SPECIFICATION FairSpec
CONSTANTS
    r1 = r1  r2 = r2  w1 = w1  w2 = w2
    Run = {r1, r2}
    Worker = {w1, w2}
    Producer = {1}
    Nobody = Nobody
    LeaseTicks = 2
    MaxAttempts = 2
    MaxAppends = 4
    Timely = TRUE
    HeartbeatFaults = FALSE
    AtomicAppend = TRUE
    Disciplined = TRUE
CHECK_DEADLOCK FALSE
PROPERTY HandsOut
INVARIANT AttemptsExact
PROPERTY Settles
