CONSTANTS
    Buffers = {x, y, z}
    Sizes = {0, 1, 2}
    BlockBound = 7
    None = None
SPECIFICATION Spec
SYMMETRY Symmetry
INVARIANTS
    OnePlace
    PoolInv
