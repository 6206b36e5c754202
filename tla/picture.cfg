CONSTANTS
    Bytes = {0, 1, 101}
    PayloadLength = 8
    Shapes <- MCShapes
    Sizes <- MCSizes
    PictureBound = 3
SPECIFICATION FairSpec
INVARIANTS
    PictureInv
    StartsAtIDR
    FrameWhole
    RepaintComing
PROPERTIES
    PictureShown
