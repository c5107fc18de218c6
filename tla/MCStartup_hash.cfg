\* Which hash does the client announce?
CONSTANTS
    KeyOrder <- SortedKeys
    BytesIn <- StringLengths
    MaxDepth = 5
    HashLength = 20
    MagnetPiece = 5
    Torrents <- PlainTorrents
    Magnets <- MCMagnets
    NumTrackers = 1
    OldSize = 7
SPECIFICATION Spec
INVARIANT InfoHashOfInfoDict
