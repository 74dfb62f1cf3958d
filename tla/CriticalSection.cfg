SPECIFICATION FairSpec
CONSTANTS
    Threads = {t1, t2, t3}
    NoThread = NoThread
    MaxDepth = 2
INVARIANTS
    MutualExclusion
    NoStrandedWaiter
    IndInv
PROPERTIES
    ImplementsRecursiveLock
    EntersUnlessOvertaken
CHECK_DEADLOCK TRUE
