\* One goroutine of each kind, with the fairness of the scheduler.
CONSTANTS
    t1 = t1
    d1 = d1
    d2 = d2
    a1 = a1
    NoTask = NoTask
    TrackerTasks = {t1}
    DhtTasks = {d1}
    Addrs = {a1}
    AddrOf <- SameAddr
    MaxRetries = 2
    AnnounceTries = 1
    LowWater = 1
SPECIFICATION FairSpec
INVARIANTS TrackerCountIsExact NoLeak
PROPERTIES CancelDrains CutOffEnds FailureExpires
