SPECIFICATION Spec
CONSTANTS
    Platform = "switch"
    HeaderSizes <- OneHeader
    ExeSizes <- TwoExes
    ImageSizes <- TwoImages
    HeaderOffsets <- InTheHeader
    Offsets <- InTheImage
    MaxBlocks = 1
INVARIANTS
    OpenMeansRead
