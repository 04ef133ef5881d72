SPECIFICATION AllSpec
CONSTANTS
    Size = 3
    Overlap = 2
    Reach = 2
    MaxLength = 6
    MaxScans = 2
    Tickers = 2
    CN = CN  US = US
    NoTimer = NoTimer
    AutoMarket = {CN, US}
    MaxTimers = 2
    MaxStalls = 2
    Saver = {s1, s2}
    Window = 2
    Retention = 2
    MaxDay = 4
    Process = {p1, p2}
    MaxUploads = 3
    Small <- AllButTheLast
    MaxDeaths = 1
    Manifest = {m1, m2}
    Package = {k1, k2}
    Loader = {1}
    MaxFaults = 3
CHECK_DEADLOCK FALSE
INVARIANT Covers
PROPERTY PageEnds
INVARIANT ScanIsSound
PROPERTY BegunMeansReleased
INVARIANT OneOfEach
INVARIANT HistoryIsSound
INVARIANT AnsweredIsExtracted
INVARIANT RowsNeedOverlap
PROPERTY TornHeals
INVARIANT SuccessMeansInstalled
INVARIANT FailsOnlyAtAStage
PROPERTY PromotedWhole
PROPERTY Heals
