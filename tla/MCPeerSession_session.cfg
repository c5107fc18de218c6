\* Two pieces, the last one short or full.
CONSTANTS
    NumPieces = 2
    PieceLength = 2
    Totals <- ShortOrFull
    NoBitfield = NoBitfield
    MaxUnchokes = 2
    MaxMessages = 1
    MaxWire = 1
SPECIFICATION FairSpec
INVARIANTS TypeOK RequestsExact
PROPERTY OfferedArrives
