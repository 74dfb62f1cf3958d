SPECIFICATION Spec
CONSTANTS
    NumBlocks = 3
    Sizes = {0, 1, 2}
    Rooms = {6, 9, 12, 15}
    HeaderSize = 2
INVARIANTS
    IndInv
    DecompressedInPlace
    SameImage
