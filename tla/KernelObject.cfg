SPECIFICATION FairSpec
CONSTANTS
    Threads = {t1, t2, t3}
    Headers = {h1, h2}
    GuestLink = GuestLink
    Signature = Signature
    NoThread = NoThread
    Null = Null
INVARIANTS
    QueryReturnsObject
    IndInv
PROPERTIES
    ImplementsOnceCell
    CallsReturn
