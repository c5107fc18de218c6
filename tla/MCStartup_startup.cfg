\* Torrent files of every shape, whole and damaged, and magnet links.
CONSTANTS
    KeyOrder <- SortedKeys
    BytesIn <- StringLengths
    MaxDepth = 5
    HashLength = 20
    MagnetPiece = 5
    Torrents <- MCTorrents
    Magnets <- MCMagnets
    NumTrackers = 1
    OldSize = 7
SPECIFICATION Spec
INVARIANTS TypeOK RoundTrip CutIsRefused LossOnlyIfUnusable StartAgrees
