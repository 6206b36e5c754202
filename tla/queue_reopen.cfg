CONSTANTS
    Producers = {p1, p2, p3}
    Consumers = {c1, c2, c3}
    Values = {a, b}
    maxSize_ = 2
    PushOps = {"push", "try_push", "try_push_for"}
    PopOps = {"pop", "try_pop", "try_pop_for", "peek"}
    CanReopen = TRUE
    None = None
SPECIFICATION Spec
SYMMETRY Symmetry
PROPERTY
    ImplementsBoundedQueue
