CONSTANTS
    HEADER_SIZE = 2
    Sizes = {0, 3}
    FrameBound = 4
    MAX_FRAMES = 2
SPECIFICATION LifeSpec
INVARIANTS
    ClientInv
    OnlyQueuedStray
PROPERTIES
    Reception
    ExitCompletes
