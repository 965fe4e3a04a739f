SPECIFICATION Spec
CONSTANTS
    Threads = {t1, t2}
    Sizes <- MCSizes
    BufferSize = 3
    SuspendThreshold = 2
    RestartThreshold = 0
    MaxCalls = 3
    NoCall = NoCall
INVARIANTS
    TypeOK
    InOrderOnce
    ThreadOrder
    InFlightBounded
PROPERTIES
    HeldForAReason
    RetryAccepted
    StreamSpec
