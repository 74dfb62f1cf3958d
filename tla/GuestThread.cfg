SPECIFICATION FairSpec
CONSTANTS
    Callers = {c1, c2}
    Handles = {h1, h2}
    Contexts = {x1}
    NoHandle = NoHandle
    Garbage = Garbage
    None = None
    CallsMayFail = TRUE
INVARIANTS
    IndInv
PROPERTY
    UnsuspendedThreadsEnd
