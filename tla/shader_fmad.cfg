SPECIFICATION Spec
CONSTANTS
    MaxIsaSize = 512
    Directives <- MCDirectives
    MaxDirectives = 4
    Sources <- MCFmad
    MaxResets = 1
    MaxReused = 4
    PrimitiveCount = 2
    Triangles <- MCTriangles
    Fragments <- MCFragments
PROPERTY LinesDoAsDocumented
