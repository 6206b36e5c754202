CONSTANTS
    Streams = {s1, s2}
    Workers = {w1, w2}
    MAX_FRAMES = 2
    FrameTypes = {"VIDEO"}
    FrameBound = 3
    None = None
SPECIFICATION FairSpec
PROPERTIES
    EveryFrameServed
    StopCompletes
    ImplementsOrderedStreams
