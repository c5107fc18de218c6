\* Two calls; a tracker of every kind.
CONSTANTS
    c1 = c1
    c2 = c2
    a1 = a1
    a2 = a2
    Partial = Partial
    NoCall = NoCall
    Calls = {c1, c2}
    Trackers <- AllSchemes
    MaxRetries = 2
    Answers <- Lists
SPECIFICATION FairSpec
INVARIANTS TypeOK OwnAnswer Merged
PROPERTY AloneItReturns
