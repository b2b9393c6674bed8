----------------------------- MODULE AtomicPicture -----------------------------
(***************************************************************************)
(* What a draw promises of each pixel: colour and depth change together,   *)
(* to those of a fragment that is nearer than what is there, or of any     *)
(* fragment when there is no depth test.                                   *)
(***************************************************************************)
EXTENDS Integers

CONSTANTS Pixels, Depths, Colors

VARIABLES pixel, depthTest

Init == pixel \in [Pixels -> [z : Depths, color : Colors]] /\ depthTest \in BOOLEAN

Merge(p) ==
    /\ pixel'[p] \in [z : Depths, color : Colors]
    /\ IF depthTest THEN pixel'[p].z < pixel[p].z ELSE pixel'[p].z = pixel[p].z
    /\ \A q \in Pixels \ {p} : pixel'[q] = pixel[q]

Next == (\E p \in Pixels : Merge(p)) /\ UNCHANGED depthTest

Spec == Init /\ [][Next]_<<pixel, depthTest>>
=============================================================================
