CONSTANTS
    t1 = t1
    t2 = t2
    Comma = Comma
    Threads = {t1, t2}
    MinCount = 2
    Bulk = 3
    MaxPush = 10
SPECIFICATION FairSpec
INVARIANTS NeverPopsEmpty QueriesWellFormed
PROPERTIES UploadsInOrder Drained
