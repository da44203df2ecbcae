CONSTANTS
    None = None
    SyncThreads = 2
    AsyncThreads = 2
    MaxOps = 2
    MaxLosses = 1
SPECIFICATION FairSpec
INVARIANTS NeverTakesEmpty HandedOutInOrder SomeoneAwake InsertsAccounted
PROPERTIES AllExecuted
CHECK_DEADLOCK FALSE
