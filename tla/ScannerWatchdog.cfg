SPECIFICATION FairSpec
CONSTANTS
    CN = CN  US = US
    NoTimer = NoTimer
    AutoMarket = {CN}
    MaxTimers = 2
    MaxStalls = 2
PROPERTY EveryStallSurfaces
