CONSTANTS
    Streams = {s1, s2}
    Workers = {w1, w2, w3}
    MAX_FRAMES = 1
    FrameTypes = {"VIDEO", "AUDIO"}
    FrameBound = 2
    None = None
SPECIFICATION Spec
SYMMETRY Symmetry
INVARIANTS
    TypeOK
    OneWorkerPerStream
    NoStrandedFrame
    NoLostWakeup
    AtMostOneStaleAudio
