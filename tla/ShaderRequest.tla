----------------------------- MODULE ShaderRequest -----------------------------
(***************************************************************************)
(* The requests of the two shading blocks and what the shader frontend     *)
(* makes of them.  A block describes the shader from its pins, the         *)
(* frontend counts dwords from that description and checks it against the  *)
(* header of the shader, and the unit counts from the header alone.        *)
(***************************************************************************)
EXTENDS PicoGpuBinary

VsThreads == 3

\* NonZeroCount::One + intToNonZeroCount(n)
OneMore(n) == (Encoded(1) + Encoded(n) + 1) % 4

\* The vertex shader's header: its first output is the position.
VsRequest(inputs, outputs, uniforms) ==
    [programType |-> "vs", threads |-> VsThreads,
     inputs |-> [count |-> Encoded(inputs.count), size |-> inputs.comp],
     outputs |-> [count |-> OneMore(outputs.count),
                  size |-> <<Encoded(4), outputs.comp[1], outputs.comp[2]>>],
     uniforms |-> [count |-> uniforms.count, size |-> uniforms.comp]]

\* Mutant: the depth is not announced.
MutDepthForgotten(fragments, customInputs, uniforms) ==
    [programType |-> "fs", threads |-> fragments,
     inputs |-> [count |-> OneMore(customInputs.count),
                 size |-> <<Encoded(2), customInputs.comp[1], customInputs.comp[2]>>],
     outputs |-> [count |-> Encoded(1), size |-> <<Encoded(4), Encoded(1), Encoded(1)>>],
     uniforms |-> [count |-> uniforms.count, size |-> uniforms.comp]]

\* The fragment shader's: position in, colour and depth out.
FsRequest(fragments, customInputs, uniforms) ==
    [programType |-> "fs", threads |-> fragments,
     inputs |-> [count |-> OneMore(customInputs.count),
                 size |-> <<Encoded(2), customInputs.comp[1], customInputs.comp[2]>>],
     outputs |-> [count |-> Encoded(2), size |-> <<Encoded(4), Encoded(1), Encoded(1)>>],
     uniforms |-> [count |-> uniforms.count, size |-> uniforms.comp]]

\* The values on the uniform pins that go with a request, value[k][c].
UniformData(uniforms, value) ==
    FlattenSeq([k \in 1 .. uniforms.count |-> SubSeq(value[k], 1, Decoded(uniforms.comp[k]))])

-----------------------------------------------------------------------------
SizesOf(part, count) == FoldLeft(+, 0, [k \in 1 .. count |-> Decoded(part.size[k])])

\* Mutant: the position of a vertex counts as many components as that of a fragment.
MutPositionOfTwo(r) ==
    LET sizes == SizesOf(r.inputs, Decoded(r.inputs.count))
    IN  (IF r.programType = "fs" THEN 2 * r.threads + Vertices * sizes ELSE sizes * r.threads)
        + SizesOf(r.uniforms, r.uniforms.count)

CalculateShaderInputsCount(r) ==
    LET attributes == Decoded(r.inputs.count)
        perThread == IF r.programType = "fs" THEN 2 ELSE SizesOf(r.inputs, attributes)
        perTriangle == IF r.programType = "fs"
                       THEN Vertices * (3 + SizesOf(r.inputs, attributes) - Decoded(r.inputs.size[1]))
                       ELSE 0
    IN  perThread * r.threads + perTriangle + SizesOf(r.uniforms, r.uniforms.count)

CalculateShaderOutputsCount(r) == SizesOf(r.outputs, Decoded(r.outputs.count)) * r.threads

\* The dwords each block receives for an answer, by its own count.  The fragment shader
\* receives those of a full batch, however many fragments it asked about.
VsOutputsCount(outputs) == (4 + TotalCustomComponents(outputs)) * VsThreads

FragmentDwords == 5
FsOutputsCount == SimdSize * FragmentDwords

\* validateRequest, with the checks of counts and sizes it stops the program on.
SameSizes(a, b, ks) == \A k \in ks : a.size[k] = b.size[k]

ValidateRequest(r, header) ==
    /\ header.inputs.count = r.inputs.count
    /\ IF r.programType = "fs"
       THEN r.inputs.size[1] = Encoded(2) /\ header.inputs.size[1] = Encoded(4)
       ELSE header.inputs.size[1] = r.inputs.size[1]
    /\ SameSizes(header.inputs, r.inputs, 2 .. Decoded(header.inputs.count))
    /\ header.outputs.count = r.outputs.count
    /\ SameSizes(header.outputs, r.outputs, 1 .. Decoded(header.outputs.count))
    /\ header.uniforms.count = r.uniforms.count
    /\ SameSizes(header.uniforms, r.uniforms, 1 .. header.uniforms.count)

\* getIsa can load header and program.
Loadable(header) == header.programLength # 0 /\ CommandSize + header.programLength <= MaxIsaSize
=============================================================================
