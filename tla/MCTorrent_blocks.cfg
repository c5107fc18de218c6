\* Two handlers, two pieces (the last one short), blocks of any shape.
CONSTANTS
    p1 = p1
    p2 = p2
    Peers = {p1, p2}
    NoPeer = NoPeer
    NoBlock = NoBlock
    PieceLength = 2
    ContentLength = 3
    InfoLength = 3
    NumPieces = 2
    Blocks <- AllBlocks
    NoProgressTicks = 1
    LastPieceTicks = 2
    MaxBlocks = 3
    MaxIOErrors = 1
SPECIFICATION Spec
SYMMETRY Symmetry
INVARIANTS TypeOK Integrity CompletedIntact Conservation CountersNotShared Discipline
PROPERTY VerifiedForGood
