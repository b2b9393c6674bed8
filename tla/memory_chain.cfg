SPECIFICATION FairSpec
CONSTANTS
    OuterCount = 2
    DirectCount = 1
    Writers <- MCWriters
    MemorySize = 1
    Addresses <- MCAddresses
    Data <- MCData
    CounterMod = 1
PROPERTIES
    ChainLinearizable
    ChainAnswered
