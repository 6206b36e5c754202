CONSTANTS
    Bytes = {0, 1, 101}
    PayloadLength = 8
    Shapes <- MCShapes
    Sizes <- MCSizes
    PictureBound = 3
SPECIFICATION Spec
INVARIANT
    RowsAlwaysFit
