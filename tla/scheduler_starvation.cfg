CONSTANTS
    Streams = {s1, s2, s3}
    Workers = {w1, w2}
    MAX_FRAMES = 1
    FrameTypes = {"VIDEO"}
    FrameBound = 2
    None = None
SPECIFICATION FairSpec
PROPERTY
    EveryFrameServed
ACTION_CONSTRAINT
    WatchingOnly
