SPECIFICATION Spec
CONSTANTS
    Threads = {t1, t2}
    NoThread = NoThread
    Blocks = {b1, b2}
    Stale = Stale
    Header = Header
    Sizes = {0, 2, 6}
    Alignments = {0, 1, 8}
    PageAlignment = 16
    FragmentSizes = {8, 16, 32}
    VirtualBegin = 8
    VirtualEnd = 32
    PhysicalBegin = 64
    PhysicalEnd = 96
SYMMETRY Symmetry
INVARIANTS
    IndInv
    BlocksIntact
    FragmentsIntact
    SizeSound
    FreesOwnFragment
    EveryFragmentOwned
    ReAllocKeepsData
