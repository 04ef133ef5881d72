SPECIFICATION FairSpec
CONSTANTS
    p1 = p1  p2 = p2  q1 = q1  q2 = q2  q3 = q3  k1 = k1
    Process = {p1, p2}
    Publishing = {p1, p2}
    Run = {1, 2}
    BatchSize = 2
    LeaseTicks = 1
    MaxEvents = 4
    MaxFailures = 1
    Request = {q1, q2}
    NoKey = NoKey
    KeyOf <- Retried
    NoProcess = NoProcess
CHECK_DEADLOCK FALSE
INVARIANT RepeatsNeedFailures
PROPERTY OvertakesOnlyLeased
PROPERTY KeepsPromise
PROPERTY Drains
