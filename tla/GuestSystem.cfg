SPECIFICATION FairSpec
CONSTANTS
    Main = main
    MainContext = x0
    Handles = {h1, h2}
    Contexts = {x1, x2}
    NoHandle = NoHandle
    Garbage = Garbage
    None = None
    CallsMayFail = TRUE
    NoThread = NoThread
    MaxDepth = 2
    MaxEnters = 2
INVARIANTS
    OneThreadInside
    OwnerIsAlive
PROPERTY
    AbandonedForGood
    ThreadsEnd
CHECK_DEADLOCK FALSE
