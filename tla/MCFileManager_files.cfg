\* One file, and several at their full size; the disk may fail.
CONSTANTS
    Layouts <- OneOrThree
    PieceSize = 2
    NumPieces = 2
    Bytes = {0, 1}
    Zero = 0
    MaxLen = 3
SPECIFICATION Spec
INVARIANTS TypeOK SizesKept
PROPERTY IsFlatStore
