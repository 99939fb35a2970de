SPECIFICATION FairSpec
CONSTANTS
    Listings = {l}
    Presences = {o}
    N = 3
    Streams <- SomeStreams
    Width = 2
    MaxQueue = 1
    MaxRetry = 2
    MaxOvershoot = 1
    MaxFaults = 1
INVARIANTS
    CursorNeverPasses
PROPERTIES
    ImplementsIndex
    EveryEventSettles
CHECK_DEADLOCK FALSE
