SPECIFICATION Spec
CONSTANTS
    w1 = w1  w2 = w2  c1 = c1  c2 = c2  p1 = p1  p2 = p2
    Worker = {w1}
    Client = {c1}
    Process = {p1}
    Home <- OneProcess
    Approval = {1}
    NoActor = NoActor
    MaxRounds = 2
    MaxCalls = 1
    MaxExecs = 6
    MaxRequests = 2
    FaultyWrites = FALSE
    Resubmission = FALSE
    LeaseTicks = 1
    MaxAttempts = 3
    Timely = TRUE
    HeartbeatFaults = FALSE
    Run = {run}
    InlineResume = FALSE
    MaxCrashes = 1
CHECK_DEADLOCK FALSE
PROPERTY GateHolds
