SPECIFICATION FairSpec
CONSTANTS
    w1 = w1  w2 = w2  c1 = c1  c2 = c2  p1 = p1  p2 = p2
    Worker = {w1}
    Client = {c1}
    Process = {p1}
    Home <- OneProcess
    Approval = {1}
    NoActor = NoActor
    MaxRounds = 1
    MaxCalls = 1
    MaxExecs = 4
    MaxRequests = 2
    FaultyWrites = FALSE
    Resubmission = FALSE
    LeaseTicks = 1
    MaxAttempts = 2
    Timely = TRUE
    HeartbeatFaults = TRUE
    Run = {run}
    InlineResume = FALSE
    MaxCrashes = 2
CHECK_DEADLOCK FALSE
INVARIANT OneArtifact
PROPERTY CancelSettles
PROPERTY GoesOn
