SPECIFICATION Spec
CONSTANTS
    w1 = w1  w2 = w2  c1 = c1  c2 = c2  p1 = p1  p2 = p2  p3 = p3
    Worker = {w1, w2}
    Client = {c1}
    Process = {p1}
    Home <- OneProcess
    Approval = {1, 2}
    NoActor = NoActor
    MaxRounds = 1
    MaxCalls = 1
    MaxExecs = 3
    MaxRequests = 2
    Exclusive = FALSE
    FaultyWrites = TRUE
    Resubmission = TRUE
INVARIANT HeaderIsRow
INVARIANT CancelSticks
INVARIANT CompletedHasArtifact
SYMMETRY Interchangeable
