----------------------------- MODULE OutputMerger ------------------------------
(***************************************************************************)
(* The output merger (gpu/blocks/output_merger.cpp): up to three memory    *)
(* accesses for a shaded fragment.  A step is an access; accesses of the   *)
(* block are atomic by module MemoryRefinement, and other clients' may     *)
(* come between them.  A fragment is [x, y, z, color]; depths are integers *)
(* in place of floats, of which only the order counts.                     *)
(***************************************************************************)
EXTENDS Integers

CONSTANTS
    FramebufferWidth,
    FramebufferAddress, DepthAddress    \* in bytes

VARIABLES
    memory,     \* [dword index -> value]
    at,         \* what the block waits for
    fragment,   \* the one it merges
    depthTest   \* depth.inpEnable

mergerVars == <<memory, at, fragment, depthTest>>

Stages == {"fragment", "depth", "depthWritten", "colorWritten"}

\* The dword of a fragment's pixel in the buffer at base, depth or colour.
PixelIndex(base, f) == (base + (f.y * FramebufferWidth + f.x) * 4) \div 4

\* Transfer::receive() returns with f.
Receive(f) ==
    /\ at = "fragment"
    /\ fragment' = f
    /\ at' = IF depthTest THEN "depth" ELSE "colorWritten"
    /\ UNCHANGED <<memory, depthTest>>

\* Mutant: of two fragments of the same depth the last one wins.
MutLastWins ==
    LET currentDepth == memory[PixelIndex(DepthAddress, fragment)]
    IN  /\ at = "depth"
        /\ at' = IF fragment.z > currentDepth THEN "fragment" ELSE "depthWritten"
        /\ UNCHANGED <<memory, fragment, depthTest>>

\* Mutant: the new depth is not written.
MutDepthKept ==
    LET currentDepth == memory[PixelIndex(DepthAddress, fragment)]
    IN  /\ at = "depth"
        /\ at' = IF fragment.z >= currentDepth THEN "fragment" ELSE "colorWritten"
        /\ UNCHANGED <<memory, fragment, depthTest>>

\* The depth is read and the test made.
TestDepth ==
    LET currentDepth == memory[PixelIndex(DepthAddress, fragment)]
    IN  /\ at = "depth"
        /\ at' = IF fragment.z >= currentDepth THEN "fragment" ELSE "depthWritten"
        /\ UNCHANGED <<memory, fragment, depthTest>>

WriteDepth ==
    /\ at = "depthWritten"
    /\ memory' = [memory EXCEPT ![PixelIndex(DepthAddress, fragment)] = fragment.z]
    /\ at' = "colorWritten"
    /\ UNCHANGED <<fragment, depthTest>>

WriteColor ==
    /\ at = "colorWritten"
    /\ memory' = [memory EXCEPT ![PixelIndex(FramebufferAddress, fragment)] = fragment.color]
    /\ at' = "fragment"
    /\ UNCHANGED <<fragment, depthTest>>

Access == TestDepth \/ WriteDepth \/ WriteColor
=============================================================================
