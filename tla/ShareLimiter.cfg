CONSTANTS
    Interval = 2
    Threshold = 3
    Buffer = 2
    TimePerShare = 2
    Variance = 40
    StartDiff = 1
    MinDiff = 2
    MaxDiff = 6
    WorkerDiffs = {0, 3}
    Huge = 150
    BanShares = 1
    Grace = 1
    Wide = 262144
    Narrow = 512
    Garbage <- Leftovers
    StartTime = 3
    MaxTime = 7
    MaxShares = 4
SPECIFICATION Spec
INVARIANTS DiffAboveMinimum SpanBounded
PROPERTIES BanDeserved DiscardOnlyHuge
