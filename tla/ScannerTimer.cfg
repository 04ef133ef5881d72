SPECIFICATION FairSpec
CONSTANTS
    CN = CN  US = US
    NoTimer = NoTimer
    AutoMarket = {US}
    MaxTimers = 2
    MaxStalls = 2
PROPERTY ErrorStopsAutoScan
