------------------------------ MODULE ShaderUnit -------------------------------
(***************************************************************************)
(* What a shader unit computes (gpu/blocks/shader_array/shader_unit.cpp):  *)
(* it stores a shader, lays the stream of inputs out in the registers of   *)
(* its lanes, executes one instruction a tick in all of them and streams   *)
(* the output registers back.  How the streams are handed over is in       *)
(* modules Transfer and ShaderArray.  A register is a sequence of its four *)
(* components.                                                             *)
(***************************************************************************)
EXTENDS RegisterAllocator, SequencesExt

VARIABLES
    isaMetadata,    \* the header of the stored shader
    isa,            \* its words
    gpr,            \* [lanes that run -> [Registers -> register]]
    pc,             \* counts words from 0
    uniformDwords

unitVars == <<isaMetadata, isa, gpr, pc, uniformDwords>>

Lanes(threadCount) == 0 .. threadCount - 1
BlankRegister == <<Zero, Zero, Zero, Zero>>
Padded(values) == [c \in 1 .. 4 |-> IF c <= Len(values) THEN values[c] ELSE Zero]

Total(sizes) == FoldLeft(+, 0, sizes)
Slice(values, skip, n) == SubSeq(values, skip + 1, skip + n)
\* The part of a vertex's components that belongs to its k-th input.
Part(values, sizes, k) == Slice(values, Total(SubSeq(sizes, 1, k - 1)), sizes[k])

-----------------------------------------------------------------------------
\* Reading the header.
IsFragmentShader == isaMetadata.programType = "fs"
InputCount == Decoded(isaMetadata.inputs.count)
OutputCount == Decoded(isaMetadata.outputs.count)
UniformCount == isaMetadata.uniforms.count
\* A fragment shader's position comes with x, y and z, whatever the header says.
InputSizes == [k \in 1 .. InputCount |-> IF IsFragmentShader /\ k = 1 THEN 3 ELSE Decoded(isaMetadata.inputs.size[k])]
UniformSizes == [k \in 1 .. UniformCount |-> Decoded(isaMetadata.uniforms.size[k])]
InputRegister(k) == isaMetadata.inputs.reg[k]
UniformRegister(k) == isaMetadata.uniforms.reg[k]
InputRegisters == {InputRegister(k) : k \in 1 .. InputCount}
UniformRegisters == {UniformRegister(k) : k \in 1 .. UniformCount}

PerThreadCount == IF IsFragmentShader THEN 2 ELSE Total(InputSizes)
AttributesCount == IF IsFragmentShader THEN Vertices * Total(InputSizes) ELSE 0

\* Mutant: the allocator leaves out the uniforms' registers as well.
MutUniformsLeftOut(v, k) == Allocated(InputRegisters \cup UniformRegisters, (v - 1) * InputCount + k)

\* The allocator built from the header leaves out the input registers only.
AttributeRegister(v, k) == Allocated(InputRegisters, (v - 1) * InputCount + k)

\* The registers of a lane when its inputs are in: own are the dwords sent for
\* its thread, attributes those sent once for the vertices of the triangle.
InitialRegisters(own, attributes) ==
    LET Vertex(v) == Slice(attributes, (v - 1) * Total(InputSizes), Total(InputSizes))
        places == (1 .. Vertices) \X (1 .. InputCount)
        stored == [at \in places |-> AttributeRegister(at[1], at[2])]
    IN  [r \in Registers |->
            CASE r \in InputRegisters ->
                    LET k == CHOOSE k \in 1 .. InputCount : InputRegister(k) = r
                    IN  IF ~IsFragmentShader THEN Padded(Part(own, InputSizes, k))
                        ELSE IF k = 1 THEN Padded(own) ELSE BlankRegister
              [] IsFragmentShader /\ r \in {stored[at] : at \in places} ->
                    LET at == CHOOSE at \in places : stored[at] = r
                    IN  Padded(Part(Vertex(at[1]), InputSizes, at[2]))
              [] OTHER -> BlankRegister]

-----------------------------------------------------------------------------
\* Functions of instructions.
UnaryFunction(op, a) ==
    CASE op \in {"fneg", "ineg"} -> Minus(Zero, a)
      [] op = "frcp" -> Over(One, a)
      [] op = "mov" -> a

\* Integer division truncates.
IntegerOver(a, b) ==
    LET q == Over(a, b)
    IN  IF q[1] < 0 THEN Whole(-((-q[1]) \div q[2])) ELSE Whole(q[1] \div q[2])

BinaryFunction(op, a, b) ==
    CASE op \in {"fadd", "iadd"} -> Plus(a, b)
      [] op \in {"fsub", "isub"} -> Minus(a, b)
      [] op \in {"fmul", "imul"} -> Times(a, b)
      [] op = "fdiv" -> Over(a, b)
      [] op = "idiv" -> IntegerOver(a, b)
      [] op \in {"fmax", "imax"} -> IF Less(a, b) THEN b ELSE a
      [] op \in {"fmin", "imin"} -> IF Less(b, a) THEN b ELSE a

Cross2(a, b, i, j) == Minus(Times(a[i], b[j]), Times(a[j], b[i]))
Dot(a, b) == Plus(Plus(Times(a[1], b[1]), Times(a[2], b[2])),
                  Plus(Times(a[3], b[3]), Times(a[4], b[4])))
Cross(a, b) == <<Cross2(a, b, 2, 3), Cross2(a, b, 3, 1), Cross2(a, b, 1, 2), Zero>>
Normalized(a) == [c \in 1 .. 4 |-> Over(a[c], Root(Dot(a, a)))]

-----------------------------------------------------------------------------
(***************************************************************************)
(* An instruction on the registers of one lane.  Components are written    *)
(* one by one, but each is computed from the same component of the         *)
(* sources, or from copies: only swizzle can read what it has written.     *)
(***************************************************************************)
Masked(regs, dest, mask, value) ==
    [regs EXCEPT ![dest] = [c \in 1 .. 4 |-> IF InMask(mask, c) THEN value[c] ELSE @[c]]]
Splat(value) == [c \in 1 .. 4 |-> value]

\* The immediate value for component c: the next one for each component of the
\* mask, the last one again when they run out.
ImmediateFor(values, mask, c) ==
    LET earlier == Cardinality({b \in 1 .. c - 1 : InMask(mask, b)})
    IN  values[IF earlier < Len(values) THEN earlier + 1 ELSE Len(values)]

\* Mutant: source and destination components are exchanged.
MutSwizzleReversed(regs, word, c) ==
    [regs EXCEPT ![word.f[1]][word.f[2 + c] + 1] = regs[word.f[2]][c]]

SwizzleComponent(regs, word, c) ==
    [regs EXCEPT ![word.f[1]][c] = regs[word.f[2]][word.f[2 + c] + 1]]

\* loadUniforms, the same for each lane.
LoadUniforms(regs) ==
    [r \in Registers |->
        IF r \in UniformRegisters
        THEN LET k == CHOOSE k \in 1 .. UniformCount : UniformRegister(k) = r
             IN  Padded(Part(uniformDwords, UniformSizes, k))
        ELSE regs[r]]

ZeroInitializeUnused(regs) ==
    [r \in Registers |-> IF r \in UniformRegisters \cup InputRegisters THEN regs[r] ELSE BlankRegister]

ImmediateCount(word) == Decoded(word.f[IF word.op = "init" THEN 3 ELSE 4])
HasImmediates(word) == word.op = "init" \/ word.op \in DOMAIN OperationOf

\* Mutant: the immediate values of an init are counted like the others'.
MutSizeOfOne(word) == IF word.op = "init" THEN 2 ELSE IF HasImmediates(word) THEN 1 + ImmediateCount(word) ELSE 1

\* Words of an instruction.
Size(word) == IF HasImmediates(word) THEN 1 + ImmediateCount(word) ELSE 1

Execute(regs, word, values) ==
    LET f == word.f
        Src(k) == regs[f[k]]
    IN  CASE word.op = "fnorm" -> [regs EXCEPT ![f[1]] = Normalized(Src(2))]
          [] word.op = "fcross" -> [regs EXCEPT ![f[1]] = Cross(Src(2), Src(3))]
          [] word.op = "fdot" -> Masked(regs, f[1], f[4], Splat(Dot(Src(2), Src(3))))
          [] word.op = "fcross2" -> Masked(regs, f[1], f[4], Splat(Cross2(Src(2), Src(3), 1, 2)))
          [] word.op \in UnaryOps \ {"fnorm"} ->
                Masked(regs, f[1], f[3], [c \in 1 .. 4 |-> UnaryFunction(word.op, Src(2)[c])])
          [] word.op \in BinaryOps \ {"fcross", "fdot", "fcross2"} ->
                Masked(regs, f[1], f[4], [c \in 1 .. 4 |-> BinaryFunction(word.op, Src(2)[c], Src(3)[c])])
          [] word.op = "fmad" ->
                Masked(regs, f[1], f[5], [c \in 1 .. 4 |-> Plus(Times(Src(2)[c], Src(3)[c]), Src(4)[c])])
          [] word.op = "init" ->
                Masked(regs, f[1], f[2], [c \in 1 .. 4 |-> ImmediateFor(values, f[2], c)])
          [] word.op \in DOMAIN OperationOf ->
                Masked(regs, f[1], f[3],
                       [c \in 1 .. 4 |-> BinaryFunction(OperationOf[word.op], Src(2)[c],
                                                        ImmediateFor(values, f[3], c))])
          [] word.op = "swizzle" ->
                LET xy == SwizzleComponent(SwizzleComponent(regs, word, 1), word, 2)
                IN  SwizzleComponent(SwizzleComponent(xy, word, 3), word, 4)
          [] word.op = "lduni" -> LoadUniforms(regs)
          [] word.op = "initregs" -> ZeroInitializeUnused(regs)
          [] OTHER -> regs      \* trap

-----------------------------------------------------------------------------
\* processStoreIsaCommand: what was stored beyond the new program stays.
StoreIsa(header, words) ==
    /\ isaMetadata' = header
    /\ isa' = [k \in 1 .. Max({Len(isa), header.programLength}) |->
                  IF k <= header.programLength THEN words[k] ELSE isa[k]]
    /\ UNCHANGED <<gpr, pc, uniformDwords>>

\* How many dwords processExecuteIsaCommand waits for.
DemandedCount(threadCount) == threadCount * PerThreadCount + Total(UniformSizes) + AttributesCount

\* processExecuteIsaCommand up to executeInstructions, with the stream of inputs.
InitializeInputRegisters(threadCount, stream) ==
    LET perThread == threadCount * PerThreadCount
        attributes == Slice(stream, perThread + Total(UniformSizes), AttributesCount)
    IN  /\ Len(stream) >= DemandedCount(threadCount)
        /\ gpr' = [t \in Lanes(threadCount) |->
                      InitialRegisters(Slice(stream, t * PerThreadCount, PerThreadCount), attributes)]
        /\ uniformDwords' = Slice(stream, perThread, Total(UniformSizes))
        /\ pc' = 0
        /\ UNCHANGED <<isaMetadata, isa>>

\* One turn of the loop of executeInstructions.
ExecuteInstruction ==
    LET word == isa[pc + 1]
        values == [k \in 1 .. Size(word) - 1 |-> isa[pc + 1 + k].f[1]]
    IN  /\ pc < isaMetadata.programLength
        /\ gpr' = [t \in DOMAIN gpr |-> Execute(gpr[t], word, values)]
        /\ pc' = pc + Size(word)
        /\ UNCHANGED <<isaMetadata, isa, uniformDwords>>

\* appendOutputRegistersValues
OutputStream ==
    LET OfThread(t) == [k \in 1 .. OutputCount |->
                            Slice(gpr[t][isaMetadata.outputs.reg[k]], 0, Decoded(isaMetadata.outputs.size[k]))]
    IN  FlattenSeq([t \in 1 .. Cardinality(DOMAIN gpr) |-> FlattenSeq(OfThread(t - 1))])
=============================================================================
