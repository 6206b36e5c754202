CONSTANTS
    QUE_SIZE <- QueSizes
    FrameBound <- FrameBounds
    ClockBound = 1
    None = None
SPECIFICATION FairSpec
INVARIANTS
    ServerInv
    MergeNeverBlocks
    GaplessStream
    BuffersReturned
PROPERTIES
    EveryFrameSent
    ShutdownTerminates
