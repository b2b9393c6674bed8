------------------------------- MODULE MCPicture -------------------------------
(***************************************************************************)
(* Values for the constants of Picture: every single triangle with its     *)
(* vertices on and off screen, and pairs of some at different depths.      *)
(***************************************************************************)
EXTENDS Picture

MCPositions == -1 .. 2

At(px, py) == [x |-> px, y |-> py]
Flat(v, depth, c) == [vertices |-> v, z |-> depth, color |-> c]

Shapes ==
    {<<At(0, 0), At(2, 0), At(0, 1)>>, <<At(2, 1), At(2, 0), At(1, 0)>>, <<At(-1, -1), At(-1, 2), At(2, 1)>>,
     <<At(1, 0), At(1, 1), At(2, 1)>>, <<At(-1, 0), At(2, 0), At(2, 2)>>}

MCDraws ==
    {[triangles |-> <<Flat(v, 1, 1)>>, depthTest |-> TRUE] : v \in [1 .. 3 -> Points]}
    \cup {[triangles |-> <<Flat(v, a, 1), Flat(w, b, 2)>>, depthTest |-> test] :
            v \in Shapes, w \in Shapes, a \in 1 .. 3, b \in 1 .. 3, test \in BOOLEAN}
=============================================================================
