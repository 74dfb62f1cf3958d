SPECIFICATION WalkSpec
CONSTANTS
    Inputs <- Files
    DataSize <- Three
    WindowSizes <- Windows
    LibraryBits <- Bits
INVARIANTS
    PatchMeansRecords
    ImageIsDecodedChunks
    WalkIsSound
