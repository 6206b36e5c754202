CONSTANTS
    Producers = {p1, p2, p3}
    Consumers = {c1, c2, c3}
    Values = {a}
    maxSize_ = 2
    PushOps = {"push", "try_push", "try_push_for"}
    PopOps = {"pop", "try_pop", "try_pop_for"}
    CanReopen = FALSE
    None = None
SPECIFICATION FairSpec
INVARIANTS
    TypeOK
    NoLostElement
    NoLostRoom
    DrainedForGood
PROPERTIES
    CallsReturn
