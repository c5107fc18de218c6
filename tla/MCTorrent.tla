----------------------------- MODULE MCTorrent -----------------------------
(* Instances of Torrent for TLC.                                           *)
EXTENDS Torrent, TLC

Symmetry == Permutations(Peers)

\* Every non-empty block inside its piece, and corrupted ones that reach past
\* the end of theirs, by one cell.
AllBlocks ==
    {b \in [index : Pieces, begin : 0 .. PieceLength - 1, len : 1 .. PieceLength + 1,
            good : BOOLEAN] :
        \/ ~PastEnd(b)
        \/ ~b.good /\ b.begin + b.len = calculatePieceLength(b.index) + 1}
=============================================================================
