----------------------------- MODULE PicoGpuBinary -----------------------------
(***************************************************************************)
(* The assembler's product (gpu/isa/assembler): PicoGpuBinary, called by   *)
(* the grammar of parser.y for one directive or instruction after the      *)
(* other.  The texts of errors are left out: error says there is one.      *)
(* A used register is [index, usage, mask].                                *)
(***************************************************************************)
EXTENDS RegisterAllocator, SequencesExt

CONSTANT MaxIsaSize

VARIABLE binary

IoTypes == {"input", "output", "uniform"}

BlankIo == [t \in IoTypes |-> <<>>]
NoIo == [count |-> 0, size |-> [k \in 1 .. MaxIo |-> 0], reg |-> [k \in 1 .. MaxIo |-> 0]]
BlankHeader == [programLength |-> 0, programType |-> "vs", hasNextCommand |-> FALSE,
                inputs |-> NoIo, outputs |-> NoIo, uniforms |-> NoIo]

\* The constructor; words are the data after the header.
NewBinary == [programType |-> "none", undefinedRegs |-> FALSE, io |-> BlankIo, error |-> FALSE,
              header |-> BlankHeader, words |-> <<>>]

\* reset() fills the data with zeros but keeps its length, and error.clear()
\* clears the state of the stream, not its text.
Blanked(b) == [NewBinary EXCEPT !.error = b.error,
                                !.words = [k \in DOMAIN b.words |-> BlankWord]]

Failed(b) == [b EXCEPT !.error = TRUE]
IsVs(b) == b.programType = "vs"
IsFs(b) == b.programType = "fs"

-----------------------------------------------------------------------------
\* Directives.
Indices(b, t) == {b.io[t][k].index : k \in DOMAIN b.io[t]}
Components(b, t, k) == IF k <= Len(b.io[t]) THEN CountBits(b.io[t][k].mask) ELSE 0
Index(b, t, k) == IF k <= Len(b.io[t]) THEN b.io[t][k].index ELSE 0

\* The test for a register that is both input and uniform looks at the registers
\* of the directive's own kind, so it never fails after the test before it.
DirectiveInputOutput(b, reg, mask, t) ==
    IF \/ mask \notin {8, 12, 14, 15}
       \/ reg \in Indices(b, t)
       \/ t \in {"input", "uniform"} /\ reg \in Indices(b, t)
       \/ Len(b.io[t]) = MaxIo
    THEN Failed(b)
    ELSE [b EXCEPT !.io[t] = Append(@, [index |-> reg, usage |-> "custom", mask |-> mask])]

DirectiveShaderType(b, type) ==
    IF b.programType # "none" THEN Failed(b) ELSE [b EXCEPT !.programType = type]

DirectiveUndefinedRegs(b) ==
    IF b.undefinedRegs THEN Failed(b) ELSE [b EXCEPT !.undefinedRegs = TRUE]

\* getSpace: room for more words, or the program stops.
Fits(b, words) == Len(b.words) + Len(words) < MaxIsaSize
Encode(b, words) == [b EXCEPT !.words = @ \o words]

-----------------------------------------------------------------------------
\* finalizeInputOutputDirectives
HeaderOf(b, t) ==
    [count |-> IF t = "uniform" THEN Len(b.io[t]) ELSE Encoded(Len(b.io[t])),
     size |-> [k \in 1 .. MaxIo |-> Encoded(Components(b, t, k))],
     reg |-> [k \in 1 .. MaxIo |-> Index(b, t, k)]]

\* A shader's position: a fixed vector of four, the first of its kind.
PositionIo(b, t) == (t = "output" /\ IsVs(b)) \/ (t = "input" /\ IsFs(b))
ColorIo(b, t) == t = "output" /\ IsFs(b)

RefusedIo(b, t) ==
    \/ t = "input" /\ IsVs(b) /\ b.io[t] = <<>>
    \/ PositionIo(b, t) /\ Components(b, t, 1) # 4
    \/ ColorIo(b, t) /\ (Len(b.io[t]) # 1 \/ Components(b, t, 1) # 4)

\* The depth goes out in the register the position came in.
AdjustedIo(b, t) ==
    LET fixed == [b EXCEPT !.io[t][1].usage = "fixed"]
        withDepth == DirectiveInputOutput(fixed, Index(b, "input", 1), 8, "output")
    IN  IF ColorIo(b, t)
        THEN IF Len(withDepth.io[t]) = 1 THEN withDepth
             ELSE [withDepth EXCEPT !.io[t][2].usage = "internal"]
        ELSE IF PositionIo(b, t) THEN fixed ELSE b

FinalizeIo(b, t) ==
    LET final == AdjustedIo(b, t)
        stored == CASE t = "input" -> [b.header EXCEPT !.inputs = HeaderOf(final, t)]
                    [] t = "output" -> [b.header EXCEPT !.outputs = HeaderOf(final, t)]
                    [] OTHER -> [b.header EXCEPT !.uniforms = HeaderOf(final, t)]
    IN  IF RefusedIo(b, t) THEN Failed(b) ELSE [final EXCEPT !.header = stored]

(***************************************************************************)
(* encodeAttributeInterpolationForFragmentShader: code put before the      *)
(* user's, for the triangle ABC and the point P whose x and y are in the   *)
(* first input.  In each lane it computes the weights of the vertices, the *)
(* depth 1 / (wA/zA + wB/zB + wC/zC), and with it the other inputs.        *)
(***************************************************************************)
InterpolationRegisters(b) ==
    LET count == Len(b.io["input"])
        used == Indices(b, "input")
        taken == Vertices * count
        edges == Min({3, 4 - count})           \* those that no input's register holds for a while
    IN  [attribute |-> [v \in 1 .. Vertices |-> [k \in 1 .. MaxIo |->
                           IF k <= count THEN Allocated(used, (v - 1) * count + k) ELSE 0]],
         AB |-> IF count > 1 THEN Index(b, "input", 2) ELSE Allocated(used, taken + 1),
         AC |-> IF count > 2 THEN Index(b, "input", 3) ELSE Allocated(used, taken + edges - 1),
         AP |-> Allocated(used, taken + edges),
         weightC |-> Allocated(used, taken + edges + 1),     \* first the area of ABP
         weightB |-> Allocated(used, taken + edges + 2),     \* first the area of ACP
         weightA |-> Allocated(used, taken + edges + 3)]     \* first the area of ABC

\* The weights and the depth, with the position in P and the depth in Z as well.
WeightsCode(P, regs) ==
    LET A == regs.attribute[1][1]   B == regs.attribute[2][1]   C == regs.attribute[3][1]
        AB == regs.AB   AC == regs.AC   AP == regs.AP
        weightA == regs.weightA   weightB == regs.weightB   weightC == regs.weightC
        ZInAll(dest, src) == Swizzle(dest, src, <<2, 2, 2, 2>>)
        Z == A
    IN  BinaryMath("fsub", AB, B, A, 12) \o BinaryMath("fsub", AC, C, A, 12)
        \o BinaryMath("fsub", AP, P, A, 12)
        \o BinaryMath("fcross2", weightC, AB, AP, 15) \o BinaryMath("fcross2", weightB, AP, AC, 15)
        \o BinaryMath("fcross2", weightA, AB, AC, 15)
        \o BinaryMath("fdiv", weightC, weightC, weightA, 15)
        \o BinaryMath("fdiv", weightB, weightB, weightA, 15)
        \o UnaryMathImm("init", weightA, 15, <<One, One, One, One>>)
        \o BinaryMath("fsub", weightA, weightA, weightB, 15)
        \o BinaryMath("fsub", weightA, weightA, weightC, 15)
        \o BinaryMath("fdiv", weightA, weightA, A, 2) \o BinaryMath("fdiv", weightB, weightB, B, 2)
        \o BinaryMath("fdiv", weightC, weightC, C, 2)
        \o ZInAll(weightA, weightA) \o ZInAll(weightB, weightB) \o ZInAll(weightC, weightC)
        \o BinaryMath("fadd", P, P, weightA, 2) \o BinaryMath("fadd", P, P, weightB, 2)
        \o BinaryMath("fadd", P, P, weightC, 2) \o UnaryMath("frcp", P, P, 2)
        \o ZInAll(Z, P)

\* The components of mask of the k-th input.
InputCode(dest, mask, regs, k) ==
    UnaryMathImm("init", dest, 15, <<Zero>>)
    \o TernaryMath("fmad", dest, regs.weightA, regs.attribute[1][k], dest, mask)
    \o TernaryMath("fmad", dest, regs.weightB, regs.attribute[2][k], dest, mask)
    \o TernaryMath("fmad", dest, regs.weightC, regs.attribute[3][k], dest, mask)
    \o BinaryMath("fmul", dest, dest, regs.attribute[1][1], 15)

Interpolation(b) ==
    LET regs == InterpolationRegisters(b)
    IN  WeightsCode(Index(b, "input", 1), regs)
        \o FlattenSeq([k \in 1 .. Max({Len(b.io["input"]), 1}) - 1 |->
                          InputCode(Index(b, "input", k + 1), b.io["input"][k + 1].mask, regs, k + 1)])

\* Mutant: uniforms are loaded before the interpolation, which uses their registers.
MutUniformsFirst(b) ==
    Nullary("lduni")
    \o (IF IsFs(b) THEN Interpolation(b) ELSE <<>>)
    \o (IF b.undefinedRegs THEN <<>> ELSE Nullary("initregs"))

\* The code put before the user's.
Preamble(b) ==
    (IF IsFs(b) THEN Interpolation(b) ELSE <<>>)
    \o Nullary("lduni")
    \o (IF b.undefinedRegs THEN <<>> ELSE Nullary("initregs"))

FinalizedDirectives(b) ==
    IF b.programType = "none"
    THEN Failed(b)
    ELSE LET typed == [b EXCEPT !.header.programType = b.programType]
             final == FinalizeIo(FinalizeIo(FinalizeIo(typed, "input"), "output"), "uniform")
         IN  Encode(final, Preamble(final))

\* Mutant: the component that goes out is still x.
MutNoSwizzle(b) == <<>>

\* The code put after the user's: the depth becomes the component that goes out.
Epilogue(b) ==
    IF IsFs(b)
    THEN Swizzle(Index(b, "input", 1), Index(b, "input", 1), <<2, 2, 2, 2>>)
    ELSE <<>>

Finalized(b) ==
    LET all == Encode(b, Epilogue(b))
    IN  [all EXCEPT !.header.programLength = Len(all.words)]

-----------------------------------------------------------------------------
\* CustomShaderComponents of the used registers ks, as the host sets them on pins.
Pins(b, t, ks) ==
    [count |-> Cardinality(ks),
     comp |-> [k \in 1 .. MaxIo |->
        Encoded(IF k <= Cardinality(ks)
                THEN Components(b, t, CHOOSE j \in ks : Cardinality({i \in ks : i < j}) = k - 1)
                ELSE 0)]]

VsCustomInputComponents(b) == Pins(b, "input", DOMAIN b.io["input"])
VsPsCustomComponents(b) ==
    LET t == IF IsVs(b) THEN "output" ELSE "input"
    IN  Pins(b, t, {k \in DOMAIN b.io[t] : b.io[t][k].usage = "custom"})
Uniforms(b) == Pins(b, "uniform", DOMAIN b.io["uniform"])

TotalCustomComponents(pins) == FoldLeft(+, 0, [k \in 1 .. pins.count |-> Decoded(pins.comp[k])])
=============================================================================
