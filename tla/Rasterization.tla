----------------------------- MODULE Rasterization -----------------------------
(***************************************************************************)
(* Which pixels a triangle hits: rasterize() and isPointInTriangle() of    *)
(* gpu/blocks/rasterizer.cpp, after the perspective division.  A step is   *)
(* an iteration of the loop over the pixels; how the fragments leave the   *)
(* rasterizer is the matter of module FragmentStage.                       *)
(*                                                                         *)
(* Positions are integers, for which the code's floats are exact as long   *)
(* as the products stay below 2^24.                                        *)
(***************************************************************************)
EXTENDS Integers, Sequences

CONSTANTS
    Width, Height,  \* the framebuffer
    CoordinateMod,  \* coordinates of a fragment wrap around here
    Positions       \* coordinates of vertices

\* A framebuffer of the width or height of CoordinateMod (2^16) would not fit
\* into the memory of the GPU; the loop would not end.
ASSUME RasterAssumption ==
    /\ Width \in Nat /\ Height \in Nat /\ CoordinateMod \in Nat
    /\ Width < CoordinateMod /\ Height < CoordinateMod
    /\ Positions \subseteq Int

VARIABLES
    vertices,   \* of the triangle
    x, y,       \* currentFragment
    hits        \* the pixels passed on so far, in order

vars == <<vertices, x, y, hits>>

Points == [x : Positions, y : Positions]

\* sign(): twice the area of the triangle p1 p2 p3, negative if it is clockwise.
Sign(p1, p2, p3) == (p1.x - p3.x) * (p2.y - p3.y) - (p2.x - p3.x) * (p1.y - p3.y)

Signs(pt, v1, v2, v3) == {Sign(pt, v1, v2), Sign(pt, v2, v3), Sign(pt, v3, v1)}

\* Mutant: pixels on an edge are missed.
MutEdgesMissed(pt, v1, v2, v3) ==
    \/ \A d \in Signs(pt, v1, v2, v3) : d < 0
    \/ \A d \in Signs(pt, v1, v2, v3) : d > 0

IsPointInTriangle(pt, v1, v2, v3) ==
    LET hasNeg == \E d \in Signs(pt, v1, v2, v3) : d < 0
        hasPos == \E d \in Signs(pt, v1, v2, v3) : d > 0
    IN  ~(hasNeg /\ hasPos)

Init ==
    /\ vertices \in [1 .. 3 -> Points]
    /\ x = 0 /\ y = 0
    /\ hits = <<>>

\* The inner loop goes on to the next pixel of the row.
Pixel ==
    /\ y < Height
    /\ x < Width
    /\ hits' = IF IsPointInTriangle([x |-> x, y |-> y], vertices[1], vertices[2], vertices[3])
               THEN Append(hits, [x |-> x, y |-> y])
               ELSE hits
    /\ x' = (x + 1) % CoordinateMod
    /\ UNCHANGED <<vertices, y>>

\* The outer loop goes on to the next row.
Row ==
    /\ y < Height
    /\ ~(x < Width)
    /\ x' = 0
    /\ y' = (y + 1) % CoordinateMod
    /\ UNCHANGED <<vertices, hits>>

Next == Pixel \/ Row

Spec == Init /\ [][Next]_vars

-----------------------------------------------------------------------------
(* Properties.                                                             *)

\* A pixel is inside if it is a weighted mean of the vertices.  For integer
\* points weights with a common denominator suffice: the area of the triangle,
\* or, if the vertices are on one line, 6 where no two of the coordinates are
\* more than 3 apart.
Denominator(v) ==
    LET area == Sign(v[1], v[2], v[3])
    IN  IF area > 0 THEN area ELSE IF area < 0 THEN -area ELSE 6

Inside(pt, v) ==
    \E a, b \in 0 .. Denominator(v) :
        LET n == Denominator(v)
            c == n - a - b
        IN  /\ c >= 0
            /\ n * pt.x = a * v[1].x + b * v[2].x + c * v[3].x
            /\ n * pt.y = a * v[1].y + b * v[2].y + c * v[3].y

Degenerate(v) == Sign(v[1], v[2], v[3]) = 0

Finished == y >= Height

HitPixels == {hits[i] : i \in 1 .. Len(hits)}

Pixels == [x : 0 .. Width - 1, y : 0 .. Height - 1]

\* A proper triangle of either winding hits exactly the pixels of the
\* framebuffer inside it or on its edges, whatever part of it is off screen.
HitsAreInside ==
    Finished /\ ~Degenerate(vertices) =>
        HitPixels = {p \in Pixels : Inside(p, vertices)}
=============================================================================
