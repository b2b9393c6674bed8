SPECIFICATION StageSpec
CONSTANTS
    BatchSize = 2
    CustomComponents = {0}
    Timeouts = {5}
    MaxPixels = 2
    Triangles = 2
    MaxDelay = 1
    Nothing = Nothing
INVARIANT EveryFragmentIsTaken
