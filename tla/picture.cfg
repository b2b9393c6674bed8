SPECIFICATION PictureSpec
CONSTANTS
    Width = 3
    Height = 2
    CoordinateMod = 4
    Positions <- MCPositions
    FramebufferWidth = 3
    FramebufferAddress = 0
    DepthAddress = 24
    Draws <- MCDraws
    InFlight = 2
    Depths = {1, 2, 3}
    Colors = {0, 1, 2}
    Far = 3
    Background = 0
INVARIANTS
    HitsAreInside
    NearestTakenIsSeen
PROPERTY MergesAtomically
CHECK_DEADLOCK FALSE
