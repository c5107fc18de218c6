\* Two calls that share the socket of one tracker.
CONSTANTS
    c1 = c1
    c2 = c2
    a1 = a1
    a2 = a2
    Partial = Partial
    NoCall = NoCall
    Calls = {c1, c2}
    Trackers <- OneUdp
    MaxRetries = 3
    Answers <- Lists
SPECIFICATION FairSpec
PROPERTY ConnectTimesOut
