SPECIFICATION FairSpec
CONSTANTS
    MaxEvents = 5
    MaxReconnects = 1
    MaxCuts = 2
CHECK_DEADLOCK FALSE
INVARIANT NoGapNoRepeat
INVARIANT EndsComplete
PROPERTY StreamEnds
