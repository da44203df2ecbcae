CONSTANTS
    None = None
    SyncThreads = 1
    AsyncThreads = 1
    MaxOps = 1
    MaxLosses = 1
SPECIFICATION FairSpec
PROPERTIES WorkersStop
CHECK_DEADLOCK FALSE
