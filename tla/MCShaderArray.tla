----------------------------- MODULE MCShaderArray -----------------------------
\* Vertex and fragment shader with one request each; one client with three.
EXTENDS ShaderArray

MCLimits == {<<1, 1>>, <<3, 0>>}

\* Only the fragment shader reads on, unless its batch is full.
MCDrainTicks == <<{0}, {0, 2}>>
=============================================================================
