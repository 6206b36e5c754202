CONSTANTS
    BufferBound = 4
    Failing = {"open", "setup", "map", "queue", "streamOn", "dequeue", "requeue", "streamOff", "close"}
    FRAME = 4
    Periods = {2, 3, 4, 8}
    SampleBound = 24
SPECIFICATION CaptureSpec
INVARIANTS
    CameraInv
    FrameIntact
    MicrophoneInv
PROPERTIES
    EndsUnlessStarved
    StopObeyed
