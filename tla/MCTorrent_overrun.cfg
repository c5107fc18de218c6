\* Is the file right when Download returns nil, if blocks reach past their piece?
CONSTANTS
    p1 = p1
    Peers = {p1}
    NoPeer = NoPeer
    NoBlock = NoBlock
    PieceLength = 2
    ContentLength = 3
    InfoLength = 3
    NumPieces = 2
    Blocks <- AllBlocks
    NoProgressTicks = 1
    LastPieceTicks = 2
    MaxBlocks = 3
    MaxIOErrors = 0
SPECIFICATION Spec
INVARIANT ReturnsIntact
