\* Two handlers that receive whole pieces, with the fairness of the scheduler.
CONSTANTS
    p1 = p1
    p2 = p2
    Peers = {p1, p2}
    NoPeer = NoPeer
    NoBlock = NoBlock
    PieceLength = 2
    ContentLength = 3
    InfoLength = 3
    NumPieces = 2
    Blocks <- WholeBlocks
    NoProgressTicks = 1
    LastPieceTicks = 2
    MaxBlocks = 3
    MaxIOErrors = 1
SPECIFICATION FairSpec
INVARIANTS ExactAccounting ReturnsIntact
PROPERTY EventuallyReturns
