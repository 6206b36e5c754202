CONSTANTS
    Streams = {s1, s2, s3}
    FrameSizes = {1, 2}
    ReadSizes = {1, 4}
    MAX_BUFFER_SIZE = 3
    FrameBound = 6
    SwitchBound = 2
SPECIFICATION Spec
CHECK_DEADLOCK FALSE
INVARIANTS
    SoundInv
    LostBySwitching
    AsleepOnlyIfFull
