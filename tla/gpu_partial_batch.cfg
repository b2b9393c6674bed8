CONSTANTS
    Blits <- MCBlits
    Draw = Draw
    None = None
    SizeMod = 4
    MaxCommands = 2
    AccessTicks = {4}
    MemoryDwords = 2
    Framebuffer = 0
    Picture = "picture"
    InitialMemory <- MCMemory
    InitialBuffers <- MCBuffers
    LastBatches = {31, 32}
    BatchSize = 32
    WorkTicks = {1, 2}
SPECIFICATION Spec
PROPERTY CommandsInOrder
