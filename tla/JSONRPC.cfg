CONSTANTS
    None = None
    Threads = {1, 2}
    Asks <- MCAsks
    Endpoints = 2
    Conns = {1, 2, 3}
SPECIFICATION FairSpec
INVARIANTS AloneIsRight NoStaleAnswer
PROPERTIES QueriesEnd
CHECK_DEADLOCK FALSE
