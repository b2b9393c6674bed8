SPECIFICATION LatencySpec
CONSTANTS
    ClientsCount = 3
    Writers <- MCWriters
    MemorySize = 2
    Addresses <- MCAddressesUnaligned
    Data <- MCData
    CounterMod = 2
INVARIANTS
    TypeOK
    CompletionReachesRequester
    LatchHasOneWriter
    RequestIsHeld
    IdleMeansQuiet
    AnsweredInTime
PROPERTY Linearizable
