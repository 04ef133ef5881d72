SPECIFICATION FairSpec
CONSTANTS
    p1 = p1  p2 = p2  p3 = p3
    Process = {p1, p2, p3}
    Plan <- SomeMigrations
    NoProcess = NoProcess
    MaxFaults = 2
CHECK_DEADLOCK FALSE
INVARIANT NothingDestroyed
INVARIANT LeftBehindByInterruption
PROPERTY ComesUp
