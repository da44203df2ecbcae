CONSTANTS
    check = check
    notify = notify
    s1 = s1
    None = None
    NDaemons = 2
    Submitters = {s1}
    CheckTimer = check
    NotifyTimer = notify
    StartHeight = 1
    MaxHeight = 2
SPECIFICATION FairSpec
INVARIANTS AcceptedIsKnown
PROPERTIES HeightMonotone OneResetPerBlock NewBlockAnnounced
