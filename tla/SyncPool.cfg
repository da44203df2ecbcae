CONSTANTS
    None = None
    Callers = {1, 2}
    SyncThreads = 2
    MaxLosses = 2
SPECIFICATION FairSpec
INVARIANTS TypeOK SpinBounded ParametersSafe ErrnoFresh StatementOnce
PROPERTIES CallsReturn
CHECK_DEADLOCK FALSE
