----------------------------- MODULE ShaderProgram -----------------------------
(***************************************************************************)
(* The life of a shader: a text is assembled line by line, perhaps into a  *)
(* binary that was used before; the host sets the pins of a shading block  *)
(* from the binary; the block sends a request; the frontend checks it      *)
(* against the binary it loads and feeds a shader unit, which runs it and  *)
(* answers.  Each part counts dwords and registers on its own, and nothing *)
(* on the way carries a length: they have to agree.                        *)
(*                                                                         *)
(* What goes in is fixed and different for every place: dword d of the     *)
(* vertex buffer is d + 1, uniforms are 100 and more.                      *)
(***************************************************************************)
EXTENDS ShaderUnit, ShaderRequest

CONSTANTS
    Directives,     \* [kind, reg, mask] that a text may have
    MaxDirectives,  \* bound
    Sources,        \* the instruction sections of texts
    MaxResets,      \* bound
    MaxReused,      \* bound: the words of a binary that is reset
    PrimitiveCount, \* triangles in the vertex buffer
    Triangles,      \* positions <<x, y, z>> of the vertices of triangles to shade
    Fragments       \* positions <<x, y>> in a batch of fragments

\* The lines the grammar has (parser.y): how many immediate values follow a mnemonic,
\* and that a swizzle has a source and four of its components.
IsLine(i) ==
    /\ i.mnemonic \in UnaryOps \cup BinaryOps \cup {"fmad", "finit", "iinit", "swizzle", "trap"}
    /\ i.dest \in Registers
    /\ i.mnemonic = "swizzle" =>
          /\ i.mask = 15
          /\ i.src \in Seq(Registers) /\ Len(i.src) = 5 /\ \A c \in 1 .. 4 : i.src[c + 1] \in 0 .. 3
    /\ i.imm \in Seq(Range(i.imm))
    /\ Len(i.imm) \in IF i.mnemonic \in {"finit", "iinit"} THEN 1 .. 4
                      ELSE IF i.mnemonic \in Range(OperationOf) THEN 0 .. 1 ELSE {0}

ASSUME ProgramAssumption ==
    /\ MaxIsaSize \in Nat /\ MaxDirectives \in Nat /\ MaxResets \in Nat /\ MaxReused \in Nat
    /\ PrimitiveCount \in Nat
    /\ Fragments \in Seq(Range(Fragments)) /\ Len(Fragments) <= SimdSize
    /\ \A d \in Directives : d.kind \in IoTypes \cup {"vs", "fs", "undefinedRegs"} /\ d.reg \in Registers
    /\ \A text \in Sources : text \in Seq(Range(text)) /\ \A n \in DOMAIN text : IsLine(text[n])

VARIABLES
    phase, lines, source, start, resets,
    request, stream, scene, response

programVars == <<phase, lines, source, start, resets, request, stream, scene, response>>
vars == <<binary, unitVars, programVars>>

Failures == {"refused", "rejected", "stopped"}
Phases == Failures \cup {"directives", "instructions", "assembled", "requested", "fed", "executing", "answered"}

-----------------------------------------------------------------------------
\* Inputs.
UniformValue == [k \in 1 .. MaxIo |-> [c \in 1 .. 4 |-> Whole(100 + 4 * k + c)]]
AttributeValue(v, k, c) == Whole(5 * v * v + 3 * k + c)
VertexBuffer(dword) == Whole(dword + 1)

\* Mutant: the address of a triangle counts dwords.
MutDwordAddress(inputs, triangle) ==
    LET components == Vertices * TotalCustomComponents(inputs)
    IN  [k \in 1 .. components |-> VertexBuffer((triangle * components + (k - 1) * 4) \div 4)]

\* PrimitiveAssembler: what is read for a triangle, from addresses in bytes.
FetchedVertices(inputs, triangle) ==
    LET components == Vertices * TotalCustomComponents(inputs)
        triangleAddress == triangle * components * 4
    IN  [k \in 1 .. components |-> VertexBuffer((triangleAddress + (k - 1) * 4) \div 4)]

\* The attributes of a triangle as the rasterizer gave them to the fragment shader.
TriangleAttributes(triangle, customInputs) ==
    FlattenSeq([v \in 1 .. Vertices |->
        [c \in 1 .. 3 |-> Whole(triangle[v][c])]
        \o FlattenSeq([k \in 1 .. customInputs.count |->
                          [c \in 1 .. Decoded(customInputs.comp[k]) |-> AttributeValue(v, k, c)]])])

-----------------------------------------------------------------------------
NoRequest == [programType |-> "none"]

Init ==
    /\ binary = NewBinary
    /\ isaMetadata = BlankHeader /\ isa = <<>> /\ pc = 0 /\ uniformDwords = <<>>
    \* what another shader left in the registers
    /\ gpr = [t \in Lanes(3) |-> [r \in Registers |-> Splat(Whole(77))]]
    /\ phase = "directives" /\ lines = 0 /\ source = <<>> /\ start = 0 /\ resets = 0
    /\ request = NoRequest /\ stream = <<>> /\ scene = <<>> /\ response = <<>>

\* One directive.  The type directives alone are not followed by a look at error.
ParseDirective(d) ==
    /\ phase = "directives" /\ lines < MaxDirectives
    /\ lines' = lines + 1
    /\ binary' = CASE d.kind \in IoTypes -> DirectiveInputOutput(binary, d.reg, d.mask, d.kind)
                   [] d.kind \in {"vs", "fs"} -> DirectiveShaderType(binary, d.kind)
                   [] OTHER -> DirectiveUndefinedRegs(binary)
    /\ phase' = IF binary'.error /\ d.kind \notin {"vs", "fs"} THEN "refused" ELSE phase
    /\ UNCHANGED <<unitVars, source, start, resets, request, stream, scene, response>>

FinalizeDirectives ==
    /\ phase = "directives" /\ lines > 0
    /\ binary' = FinalizedDirectives(binary)
    /\ phase' = IF binary'.error THEN "refused" ELSE "instructions"
    /\ start' = Len(binary'.words)
    /\ source' \in Sources
    /\ lines' = 0
    /\ UNCHANGED <<unitVars, resets, request, stream, scene, response>>

ParseInstruction ==
    /\ phase = "instructions" /\ lines < Len(source)
    /\ LET words == Assembled(source[lines + 1])
       IN  IF Fits(binary, words)
           THEN binary' = Encode(binary, words) /\ phase' = phase
           ELSE binary' = binary /\ phase' = "stopped"
    /\ lines' = lines + 1
    /\ UNCHANGED <<unitVars, source, start, resets, request, stream, scene, response>>

FinalizeInstructions ==
    /\ phase = "instructions" /\ lines = Len(source)
    /\ binary' = Finalized(binary)
    /\ phase' = IF Fits(binary, Epilogue(binary)) THEN "assembled" ELSE "stopped"
    /\ UNCHANGED <<unitVars, lines, source, start, resets, request, stream, scene, response>>

\* The host assembles another text into the same binary.
Reset ==
    /\ phase \in {"assembled", "refused"} /\ resets < MaxResets /\ Len(binary.words) <= MaxReused
    /\ binary' = Blanked(binary)
    /\ phase' = "directives" /\ lines' = 0 /\ source' = <<>> /\ start' = 0 /\ resets' = resets + 1
    /\ UNCHANGED <<unitVars, request, stream, scene, response>>

-----------------------------------------------------------------------------
\* The vertex shader's request for a triangle of the vertex buffer.
RequestVertices(triangle) ==
    LET inputs == VsCustomInputComponents(binary)
    IN  /\ phase = "assembled" /\ IsVs(binary)
        /\ request' = VsRequest(inputs, VsPsCustomComponents(binary), Uniforms(binary))
        /\ stream' = FetchedVertices(inputs, triangle) \o UniformData(Uniforms(binary), UniformValue)
        /\ scene' = <<triangle>>
        /\ phase' = "requested"
        /\ UNCHANGED <<binary, unitVars, lines, source, start, resets, response>>

\* The fragment shader's request for a batch of fragments of a triangle.
RequestFragments(triangle) ==
    LET customInputs == VsPsCustomComponents(binary)
    IN  /\ phase = "assembled" /\ IsFs(binary)
        /\ request' = FsRequest(Len(Fragments), customInputs, Uniforms(binary))
        /\ stream' = FlattenSeq([t \in DOMAIN Fragments |->
                                    <<Whole(Fragments[t][1]), Whole(Fragments[t][2])>>])
                     \o UniformData(Uniforms(binary), UniformValue)
                     \o TriangleAttributes(triangle, customInputs)
        /\ scene' = triangle
        /\ phase' = "requested"
        /\ UNCHANGED <<binary, unitVars, lines, source, start, resets, response>>

\* The frontend loads the shader, checks the request and stores it in a unit; it
\* passes on as many dwords of the request as it counts.
FeedUnit ==
    LET inputsCount == CalculateShaderInputsCount(request)
        accepted == Loadable(binary.header) /\ ValidateRequest(request, binary.header)
    IN  /\ phase = "requested" /\ Len(stream) >= inputsCount
        /\ IF accepted
           THEN StoreIsa(binary.header, binary.words) /\ phase' = "fed"
           ELSE UNCHANGED unitVars /\ phase' = "rejected"
        /\ stream' = SubSeq(stream, 1, inputsCount)
        /\ UNCHANGED <<binary, lines, source, start, resets, request, scene, response>>

StartUnit ==
    /\ phase = "fed"
    /\ InitializeInputRegisters(request.threads, stream)
    /\ phase' = "executing"
    /\ UNCHANGED <<binary, lines, source, start, resets, request, stream, scene, response>>

RunUnit ==
    /\ phase = "executing"
    /\ ExecuteInstruction
    /\ UNCHANGED <<binary, programVars>>

Answer ==
    /\ phase = "executing" /\ pc >= isaMetadata.programLength
    /\ response' = OutputStream
    /\ phase' = "answered"
    /\ UNCHANGED <<binary, unitVars, lines, source, start, resets, request, stream, scene>>

\* Nothing more is asked of the shader, or it is not usable.
Finished == phase \in Failures \cup {"answered"} /\ UNCHANGED vars

Assemble == (\E d \in Directives : ParseDirective(d)) \/ FinalizeDirectives \/ ParseInstruction \/ FinalizeInstructions
Serve ==
    \/ \E triangle \in 0 .. PrimitiveCount - 1 : RequestVertices(triangle)
    \/ \E triangle \in Triangles : RequestFragments(triangle)
    \/ FeedUnit \/ StartUnit \/ RunUnit \/ Answer

Next == Assemble \/ Reset \/ Serve \/ Finished

Spec == Init /\ [][Next]_vars

-----------------------------------------------------------------------------
\* Reference definitions: the triangle seen as areas, the vertex buffer as vertices.
Area(p, q, r) == (q[1] - p[1]) * (r[2] - p[2]) - (q[2] - p[2]) * (r[1] - p[1])

\* The share of vertex v in the point p, as an area, divided by the vertex's depth.
Share(tri, p, v) ==
    Fraction(CASE v = 1 -> Area(p, tri[2], tri[3])
               [] v = 2 -> Area(tri[1], p, tri[3])
               [] v = 3 -> Area(tri[1], tri[2], p), tri[v][3])
Weighted(tri, p, value) ==
    Plus(Plus(Times(value[1], Share(tri, p, 1)), Times(value[2], Share(tri, p, 2))), Times(value[3], Share(tri, p, 3)))

\* Perspective-correct: 1 / depth is linear over the triangle, and so is value / depth.
Depth(tri, p) == Over(Whole(Area(tri[1], tri[2], tri[3])), Weighted(tri, p, <<One, One, One>>))
Interpolated(tri, p, value) == Over(Weighted(tri, p, value), Weighted(tri, p, <<One, One, One>>))

AtUserCode == phase = "executing" /\ pc = start
Threads == 1 .. request.threads
Reg(t, r) == gpr[t - 1][r]
InputIndices == DOMAIN binary.io["input"]
\* Inputs whose register is no uniform as well, which documents forbid and the assembler accepts.
OwnInputs == {k \in InputIndices : Index(binary, "input", k) \notin Indices(binary, "uniform")}
\* Neither a uniform nor the user's code takes the register of the position.
PositionKept ==
    1 \in OwnInputs /\ \A n \in DOMAIN source : source[n].mnemonic # "trap" => source[n].dest # Index(binary, "input", 1)

-----------------------------------------------------------------------------
\* Every variable stays in its range: no more than three registers of a kind, a
\* program counter inside the stored words, registers of four components.
TypeOK ==
    /\ phase \in Phases /\ lines \in Nat /\ resets \in 0 .. MaxResets
    /\ \A t \in IoTypes : Len(binary.io[t]) <= MaxIo
    /\ pc \in 0 .. Len(isa)
    /\ \A t \in DOMAIN gpr : DOMAIN gpr[t] = Registers /\ \A r \in Registers : Len(gpr[t][r]) = 4

\* What the assembler accepts, the frontend accepts with the pins set from it
\* (validateRequest stops the whole program otherwise), if program and header
\* together are no longer than the instruction memory.  The assembler counts the
\* program alone (pico_gpu_binary.h:102) and accepts two lengths more, which getIsa
\* (shader_frontend.cpp:129) refuses: they are left out.
AcceptedIsServed == CommandSize + binary.header.programLength <= MaxIsaSize => phase # "rejected"

\* The block sends, the frontend passes on and the unit reads the same number of
\* dwords.  The unit answers with as many as the frontend counts; for vertices it is
\* what the block counts too, for fragments the block's full batch begins with
\* exactly the dwords of the fragments it asked about, which are all that it uses.
CountsAgree ==
    /\ phase = "requested" => Len(stream) = CalculateShaderInputsCount(request)
    /\ phase = "fed" => Len(stream) = DemandedCount(request.threads)
    /\ phase = "answered" =>
          /\ Len(response) = CalculateShaderOutputsCount(request)
          /\ IsVs(binary) => Len(response) = VsOutputsCount(VsPsCustomComponents(binary))
          /\ IsFs(binary) => /\ Len(response) = Len(Fragments) * FragmentDwords
                             /\ Len(response) <= FsOutputsCount

\* The unit's program counter is at the first word of an instruction whenever it
\* fetches one, and ends where the program ends.
AtInstruction ==
    phase = "executing" =>
        /\ pc <= isaMetadata.programLength
        /\ pc < isaMetadata.programLength => isa[pc + 1].op # "imm"

\* When the user's code of a fragment shader begins, the position is <<x, y>> with the
\* interpolated depth and 0, and each other input is interpolated in the
\* components of its mask and 0 in the rest, for whatever registers were chosen.
FragmentInputs ==
    AtUserCode /\ IsFs(binary) => \A t \in Threads, k \in OwnInputs :
        LET p == Fragments[t]
        IN  Reg(t, Index(binary, "input", k)) =
                IF k = 1
                THEN <<Whole(p[1]), Whole(p[2]), Depth(scene, p), Zero>>
                ELSE Padded([c \in 1 .. Components(binary, "input", k) |->
                        Interpolated(scene, p, [v \in 1 .. Vertices |-> AttributeValue(v, k - 1, c)])])

\* When the user's code of a vertex shader begins, thread t of a triangle has the
\* components of that vertex in the order of the directives, and 0 in the rest.
VertexInputs ==
    AtUserCode /\ IsVs(binary) => \A t \in Threads, k \in OwnInputs :
        LET Width(j) == Components(binary, "input", j)
            before == Total([j \in 1 .. k - 1 |-> Width(j)])
            vertex == (scene[1] * Vertices + t - 1) * Total([j \in InputIndices |-> Width(j)])
        IN  Reg(t, Index(binary, "input", k)) =
                Padded([c \in 1 .. Width(k) |-> VertexBuffer(vertex + before + c - 1)])

\* When the user's code begins, the uniforms have the values of the pins and every
\* register that is no input and no uniform is 0, unless the text allows otherwise:
\* nothing of an earlier shader or of the interpolation is left.
UniformsAndZeroes ==
    AtUserCode => \A t \in Threads :
        /\ \A k \in DOMAIN binary.io["uniform"] :
              Reg(t, Index(binary, "uniform", k)) =
                  Padded(SubSeq(UniformValue[k], 1, Components(binary, "uniform", k)))
        /\ ~binary.undefinedRegs =>
              \A r \in Registers \ (Indices(binary, "input") \cup Indices(binary, "uniform")) :
                  Reg(t, r) = BlankRegister

\* The answer to a batch of fragments is, for each, the colour the user's code left
\* and the depth of the fragment, as long as the code leaves the position alone.
FragmentAnswer ==
    phase = "answered" /\ IsFs(binary) => \A t \in Threads :
        LET data == Slice(response, (t - 1) * 5, 5)
        IN  /\ SubSeq(data, 1, 4) = Reg(t, Index(binary, "output", 1))
            /\ PositionKept => data[5] = Depth(scene, Fragments[t])

\* What docs/ShaderProgramming.md says of component c of the destination.
DocumentedResult(i, regs, c) ==
    LET a(k) == regs[i.src[k]]
        place == Cardinality({b \in 1 .. c : InMask(i.mask, b)})
        imm == i.imm[IF place <= Len(i.imm) THEN place ELSE Len(i.imm)]
    IN  IF ~InMask(i.mask, c) THEN regs[i.dest][c]
        ELSE CASE i.mnemonic \in {"finit", "iinit"} -> imm
               [] i.mnemonic = "swizzle" -> a(1)[i.src[c + 1] + 1]
               [] i.mnemonic = "fmad" -> Plus(Times(a(1)[c], a(2)[c]), a(3)[c])
               [] i.mnemonic = "fdot" -> Dot(a(1), a(2))
               [] i.mnemonic = "fcross" -> Cross(a(1), a(2))[c]
               [] i.mnemonic = "fcross2" -> Cross2(a(1), a(2), 1, 2)
               [] i.mnemonic = "fnorm" -> Normalized(a(1))[c]
               [] i.mnemonic \in UnaryOps \ {"fnorm"} -> UnaryFunction(i.mnemonic, a(1)[c])
               [] OTHER -> BinaryFunction(i.mnemonic, a(1)[c], IF i.imm = <<>> THEN a(2)[c] ELSE imm)

\* The words of the first n instructions of the user.
WordsOf(n) == Total([k \in 1 .. n |-> Len(Assembled(source[k]))])

\* The step of the unit is one through the n-th line of the user's code.
AtLine(n) == RunUnit /\ pc = start + WordsOf(n - 1)

\* It does to each lane what the documents say of that line, and to nothing but its
\* destination.
DoesAsDocumented(n) ==
    \A t \in DOMAIN gpr, r \in Registers :
        gpr'[t][r] = IF r = source[n].dest
                     THEN [c \in 1 .. 4 |-> DocumentedResult(source[n], gpr[t], c)]
                     ELSE gpr[t][r]

\* docs/ShaderProgramming.md makes no exceptions.
LinesDoAsDocumented ==
    [][\A n \in DOMAIN source : AtLine(n) /\ source[n].mnemonic # "trap" => DoesAsDocumented(n)]_vars

\* The lines of which the documents are right: fmad is encoded as another
\* instruction, fnorm and fcross ignore their mask, and a swizzle onto its own source
\* must not read a component that it has changed.
Unexceptional(i) ==
    /\ i.mnemonic \notin {"fmad", "trap"}
    /\ i.mnemonic \in {"fnorm", "fcross"} => i.mask = 15
    /\ i.mnemonic = "swizzle" /\ i.src[1] = i.dest =>
          \A c \in 1 .. 4 : LET b == i.src[c + 1] + 1
                           IN  b < c => i.src[b + 1] + 1 = b

\* A step of the unit through any other line does what the documents say of its
\* mnemonic, wherever the line is in the text and whatever was generated before it.
OtherLinesDoAsDocumented ==
    [][\A n \in DOMAIN source : AtLine(n) /\ Unexceptional(source[n]) => DoesAsDocumented(n)]_vars
=============================================================================
