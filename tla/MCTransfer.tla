------------------------------ MODULE MCTransfer ------------------------------
(* Values for the constants of Transfer: the calls of the GPU's blocks.    *)
EXTENDS Transfer

\* The rasterizer sends a triangle's attributes, 3 packages, through 3 ports.
MCAttributes == [ports |-> 3, sends |-> <<9>>, receives |-> <<9>>, timeout |-> 0]

\* The vertex shader sends 13 dwords to the rasterizer, which reads 12 of them.
MCVertices == [ports |-> 12, sends |-> <<13>>, receives |-> <<12>>, timeout |-> 0]

\* The primitive assembler sends vertices with one custom component: the last
\* package does not fill the ports.
MCTriangle == [ports |-> 9, sends |-> <<12>>, receives |-> <<12>>, timeout |-> 0]

\* A request to a shader unit: the first array performs the handshake, two more
\* follow without.
MCRequest == [ports |-> 1, sends |-> <<3, 1, 2>>, receives |-> <<3, 1, 2>>, timeout |-> 0]

\* The shader frontend answers the fragment shader with 1 + 5 dwords per thread,
\* which reads a response of full size: here with one thread of at most two.
MCResponse == [ports |-> 1, sends |-> <<6>>, receives |-> <<11>>, timeout |-> 0]

\* The rasterizer sends a fragment, the receiver has a timeout; the fragment
\* shader sends one to the output merger, which has none.
MCUnshaded == [ports |-> 1, sends |-> <<1>>, receives |-> <<1>>, timeout |-> 5]
MCShaded == [MCUnshaded EXCEPT !.timeout = 0]

MCCalls == {MCAttributes, MCVertices, MCTriangle, MCRequest, MCResponse, MCUnshaded, MCShaded}

MCUnshadedOnly == {MCUnshaded}
=============================================================================
