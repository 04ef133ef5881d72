SPECIFICATION Spec
CONSTANTS
    Process = {p1}
    MaxUploads = 3
    Small = {}
    MaxDeaths = 0
CHECK_DEADLOCK FALSE
INVARIANT ChunksHavePage
