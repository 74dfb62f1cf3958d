SPECIFICATION Spec
CONSTANTS
    Platform = "posix"
    HeaderSizes <- OneHeader
    ExeSizes <- TwoExes
    ImageSizes <- TwoImages
    HeaderOffsets <- InTheHeader
    Offsets <- InTheImage
    MaxBlocks = 1
INVARIANTS
    IndInv
    OutputTruthful
    HeaderDeltaReadsBase
    ImageDeltaReadsBase
    OverrunOnlyIf
