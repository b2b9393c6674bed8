SPECIFICATION Spec
CONSTANTS
    MaxIsaSize = 51
    Directives <- MCDirectives
    MaxDirectives = 6
    Sources <- MCSources
    MaxResets = 1
    MaxReused = 4
    PrimitiveCount = 2
    Triangles <- MCTriangles
    Fragments <- MCFragments
INVARIANTS AcceptedIsServed CountsAgree AtInstruction FragmentInputs VertexInputs UniformsAndZeroes FragmentAnswer
PROPERTIES OtherLinesDoAsDocumented
