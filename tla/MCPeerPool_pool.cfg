\* Two DHT goroutines for one address.
CONSTANTS
    t1 = t1
    d1 = d1
    d2 = d2
    a1 = a1
    NoTask = NoTask
    TrackerTasks = {}
    DhtTasks = {d1, d2}
    Addrs = {a1}
    AddrOf <- SameAddr
    MaxRetries = 2
    AnnounceTries = 1
    LowWater = 1
SPECIFICATION FairSpec
INVARIANTS TypeOK NeverOverstated RegisteredIsLive NoLeak
PROPERTIES TimeoutEnds
