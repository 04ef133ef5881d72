SPECIFICATION FairSpec
CONSTANTS
    MaxScans = 1
    Tickers = 2
CHECK_DEADLOCK FALSE
PROPERTY LockComesBack
