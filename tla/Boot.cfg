SPECIFICATION Spec
CONSTANTS
    LoadAddress = 2
    ImageSize = 6
    ThunkWords = 2
    SectionSets <- ThreeLayouts
    MaxImports = 2
    Databases <- Resources
    Entry = 3
INVARIANTS
    IndInv
    GameWhole
    ImportsResolved
    LookupsAnswer
