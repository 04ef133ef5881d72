SPECIFICATION Spec
CONSTANTS
    Saver = {s1}
    Window = 2
    Retention = 3
    MaxDay = 3
CHECK_DEADLOCK FALSE
INVARIANT DownloadedIsStored
