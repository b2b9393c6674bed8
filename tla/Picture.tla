-------------------------------- MODULE Picture --------------------------------
(***************************************************************************)
(* A draw from the rasterizer to the memory: the rasterizer goes over the  *)
(* pixels for one triangle after the other, the fragment shader takes its  *)
(* fragments (all but the first of a triangle, which may be lost to the    *)
(* timeout: see module FragmentStage) and keeps their order, and the       *)
(* output merger merges them one by one.  Triangles are parallel to the    *)
(* screen, so a fragment has the depth of its triangle; module             *)
(* ShaderProgram shows what the depth of a fragment is otherwise.          *)
(***************************************************************************)
EXTENDS Rasterization, OutputMerger, FiniteSetsExt

CONSTANTS
    Draws,          \* [triangles, depthTest]; a triangle is [vertices, z, color]
    InFlight,       \* bound: fragments between rasterizer and output merger
    Depths, Colors, \* of triangles and of cleared buffers
    Far,            \* what the depth buffer was cleared to
    Background      \* what the framebuffer was cleared to

VARIABLES
    triangles,      \* of the draw
    triangle,       \* the one being rasterized
    shaded,         \* fragments on their way to the output merger, in order
    lost            \* history: <<triangle, pixel>> of those the fragment shader missed

pictureVars == <<vars, mergerVars, triangles, triangle, shaded, lost>>

Addresses(base) == {(base \div 4) + n : n \in 0 .. Width * Height - 1}

\* Both buffers have the size of the framebuffer and do not overlap.
ASSUME BuffersAssumption ==
    /\ FramebufferWidth = Width
    /\ FramebufferAddress \in Nat /\ DepthAddress \in Nat
    /\ Addresses(DepthAddress) \cap Addresses(FramebufferAddress) = {}

FlatTriangles == [vertices : [1 .. 3 -> Points], z : Depths, color : Colors]

ASSUME DrawsAssumption ==
    /\ Depths \subseteq Int /\ Far \in Depths /\ Background \in Colors
    /\ \A draw \in Draws : /\ draw.triangles \in Seq(FlatTriangles) /\ draw.triangles # <<>>
                          /\ draw.depthTest \in BOOLEAN

InitDraw ==
    \E draw \in Draws :
        /\ triangles = draw.triangles /\ depthTest = draw.depthTest
        /\ triangle = 1
        /\ vertices = draw.triangles[1].vertices
        /\ x = 0 /\ y = 0 /\ hits = <<>> /\ shaded = <<>> /\ lost = {}
        /\ memory = [a \in Addresses(DepthAddress) \cup Addresses(FramebufferAddress) |->
                        IF a \in Addresses(DepthAddress) THEN Far ELSE Background]
        /\ at = "fragment"
        /\ fragment = [x |-> 0, y |-> 0, z |-> 0, color |-> 0]

ShadedFragment(hit) ==
    [x |-> hit.x, y |-> hit.y, z |-> triangles[triangle].z, color |-> triangles[triangle].color]

\* The fragment shader takes the fragment, or misses it in giving up its wait for a
\* batch to begin: of each triangle only the first (OnlyFirstIsLost).
Taken(hit) == shaded' = Append(shaded, ShadedFragment(hit)) /\ UNCHANGED lost
Missed(hit) == Len(hits') = 1 /\ lost' = lost \cup {<<triangle, hit>>} /\ UNCHANGED shaded

\* A fragment is offered as the loop over the pixels hits one.
Rasterize ==
    /\ Len(shaded) < InFlight
    /\ Next
    /\ \/ hits' = hits /\ UNCHANGED <<shaded, lost>>
       \/ hits' # hits /\ (Taken(hits'[Len(hits')]) \/ Missed(hits'[Len(hits')]))
    /\ UNCHANGED <<mergerVars, triangles, triangle>>

\* The rasterizer goes on to the next triangle while fragments are on their way.
NextTriangle ==
    /\ y >= Height /\ triangle < Len(triangles)
    /\ triangle' = triangle + 1
    /\ vertices' = triangles[triangle + 1].vertices
    /\ x' = 0 /\ y' = 0 /\ hits' = <<>>
    /\ UNCHANGED <<mergerVars, triangles, shaded, lost>>

Merge ==
    /\ shaded # <<>>
    /\ Receive(Head(shaded))
    /\ shaded' = Tail(shaded)
    /\ UNCHANGED <<vars, triangles, triangle, lost>>

MemoryAccess == Access /\ UNCHANGED <<vars, triangles, triangle, shaded, lost>>

NextStep == Rasterize \/ NextTriangle \/ Merge \/ MemoryAccess

PictureSpec == InitDraw /\ [][NextStep]_pictureVars

-----------------------------------------------------------------------------
Drawn == y >= Height /\ triangle = Len(triangles) /\ shaded = <<>> /\ at = "fragment"

Proper == \A t \in DOMAIN triangles : ~Degenerate(triangles[t].vertices)

DepthOf(p) == memory[DepthAddress \div 4 + p.y * Width + p.x]
ColorOf(p) == memory[FramebufferAddress \div 4 + p.y * Width + p.x]

\* When a draw is over, each pixel has depth and colour of the nearest triangle it is
\* inside of, of the first of those if they are equally near, and nothing has changed
\* where there is none; without a depth test, of the last triangle and no depth.
\* Only a triangle whose fragment there was lost does not count.
NearestTakenIsSeen ==
    Drawn /\ Proper => \A p \in Pixels :
        LET over == {t \in DOMAIN triangles : /\ Inside(p, triangles[t].vertices) /\ <<t, p>> \notin lost
                                              /\ depthTest => triangles[t].z < Far}
            nearest == {t \in over : \A u \in over : triangles[t].z <= triangles[u].z}
            seen == triangles[IF depthTest THEN Min(nearest) ELSE Max(over)]
        IN  IF over = {}
            THEN DepthOf(p) = Far /\ ColorOf(p) = Background
            ELSE DepthOf(p) = (IF depthTest THEN seen.z ELSE Far) /\ ColorOf(p) = seen.color

\* The pixel that is being written has its colour from when its depth is written.
Shown(p) ==
    [z |-> DepthOf(p),
     color |-> IF at = "colorWritten" /\ p = [x |-> fragment.x, y |-> fragment.y]
               THEN fragment.color
               ELSE ColorOf(p)]

Atomic == INSTANCE AtomicPicture WITH pixel <- [p \in Pixels |-> Shown(p)]

\* Though they are written in two accesses, with steps of others between them, depth
\* and colour of a pixel change as one, and only to a nearer fragment's.
MergesAtomically == Atomic!Spec
=============================================================================
