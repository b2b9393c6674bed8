SPECIFICATION FairStageSpec
CONSTANTS
    BatchSize = 2
    CustomComponents = {0, 1}
    Timeouts = {0, 5}
    MaxPixels = 4
    Triangles = 3
    MaxDelay = 2
    Nothing = Nothing
INVARIANTS
    LostBetweenBatches
    OnlyFirstIsLost
    BatchOfOneTriangle
    OwnAttributes
PROPERTY TriangleCompletes
