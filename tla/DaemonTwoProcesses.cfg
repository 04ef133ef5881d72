SPECIFICATION Spec
CONSTANTS
    w1 = w1  w2 = w2  c1 = c1  c2 = c2  p1 = p1  p2 = p2
    Worker = {w1, w2}
    Client = {c1, c2}
    Process = {p1, p2}
    Home <- SecondWorker
    Approval = {1, 2}
    NoActor = NoActor
    MaxRounds = 2
    MaxCalls = 1
    MaxExecs = 6
    MaxRequests = 3
    FaultyWrites = FALSE
    Resubmission = FALSE
    LeaseTicks = 1
    MaxAttempts = 3
    Timely = TRUE
    HeartbeatFaults = FALSE
    Run = {run}
    InlineResume = FALSE
    MaxCrashes = 0
CHECK_DEADLOCK FALSE
PROPERTY HalvesFit
