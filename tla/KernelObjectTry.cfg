SPECIFICATION Spec
CONSTANTS
    Threads = {t1, t2}
    Headers = {h1}
    GuestLink = GuestLink
    Signature = Signature
    NoThread = NoThread
    Null = Null
INVARIANT
    TryReturnsNullOrObject
