SPECIFICATION FramesLiveSpec
CONSTANTS
    Stores <- MCStores
    Updates <- NoUpdates
    Leftovers <- MCLeftovers
    Fields <- MCFields
    Graphs <- MCGraphs
    Requests <- MCRequests
    Digests <- MCDigests
    Mask <- MCMask
    FlashSize = 4096
    MaxUpdates = 3
    BufSize = 1024
    MaxSends = 3
INVARIANTS
    TypeOK
    IteratorInside
    UpdateExact
    WholeMessages
    HandledAsTold
    ImageDelivered
    KeyAccepted
    BufferInside
PROPERTIES
    UpdateEnds
CHECK_DEADLOCK FALSE
