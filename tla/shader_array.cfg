CONSTANTS
    CacheSize = 2
    InvalidKey = InvalidKey
    NoValue = NoValue
    Limits <- MCLimits
    ClientsCount = 2
    UnitsCount = 2
    Addresses = {A, B, C}
    Reused = {A}
    Versions = 1
    RequestTicks = 1
    FetchTicks = 1
    FeedTicks = 1
    RunTicks = {1, 2}
    ReplyTicks = 1
    DrainTicks <- MCDrainTicks
    None = None
SPECIFICATION FairSpec
INVARIANTS UnitsAreMarked OwnResponse CacheIsLru ShaderIsCurrent
PROPERTIES Answered
