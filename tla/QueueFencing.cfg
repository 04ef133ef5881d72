SPECIFICATION Spec
CONSTANTS
    r1 = r1  r2 = r2  w1 = w1  w2 = w2
    Run = {r1, r2}
    Worker = {w1, w2}
    Producer = {1, 2}
    Nobody = Nobody
    LeaseTicks = 2
    MaxAttempts = 2
    MaxAppends = 3
    Timely = FALSE
    HeartbeatFaults = TRUE
    AtomicAppend = FALSE
    Disciplined = FALSE
SYMMETRY Interchangeable
CHECK_DEADLOCK FALSE
PROPERTY Fenced
