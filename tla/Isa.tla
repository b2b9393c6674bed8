---------------------------------- MODULE Isa ----------------------------------
(***************************************************************************)
(* The instruction set: encoded counts, masks, the words of an instruction *)
(* and what the grammar makes of each mnemonic.                            *)
(*                                                                         *)
(* A program is a sequence of words.  A word [op, f] has its opcode and    *)
(* the bit fields that follow it, in order; registers, masks and pairs of  *)
(* patterns all fill fields of 4 bits, so a word written in one layout and *)
(* read in another shows here what it shows in the code.  An immediate     *)
(* value is a word of its own, with the pseudo-opcode "imm".               *)
(***************************************************************************)
EXTENDS Fractions, Sequences, FiniteSets

RegisterCount == 16
Registers == 0 .. RegisterCount - 1
MaxIo == 3                      \* maxInputOutputRegisters
CommandSize == 3                \* commandSizeInDwords
SimdSize == 32                  \* simdSize
Vertices == 3                   \* verticesInPrimitive

\* NonZeroCount in its fields of two bits: 0 is encoded like 4.
Encoded(n) == (n - 1) % 4
Decoded(c) == c + 1

IsBitSet(bits, n) == (bits \div 2 ^ n) % 2 = 1
CountBits(mask) == Cardinality({n \in 0 .. 3 : IsBitSet(mask, n)})

\* Component c (1 to 4 for x to w) is bit 4 - c of a mask.
InMask(mask, c) == IsBitSet(mask, 4 - c)

-----------------------------------------------------------------------------
\* Layouts.
Word(op, fields) == [op |-> op, f |-> fields]
Immediates(values) == [k \in DOMAIN values |-> Word("imm", <<values[k]>>)]

Nullary(op) == <<Word(op, <<>>)>>
UnaryMath(op, dest, src, mask) == <<Word(op, <<dest, src, mask>>)>>
BinaryMath(op, dest, src1, src2, mask) == <<Word(op, <<dest, src1, src2, mask>>)>>
TernaryMath(op, dest, src1, src2, src3, mask) == <<Word(op, <<dest, src1, src2, src3, mask>>)>>
UnaryMathImm(op, dest, mask, values) ==
    <<Word(op, <<dest, mask, Encoded(Len(values))>>)>> \o Immediates(values)
BinaryMathImm(op, dest, src, mask, values) ==
    <<Word(op, <<dest, src, mask, Encoded(Len(values))>>)>> \o Immediates(values)
Swizzle(dest, src, pattern) == <<Word("swizzle", <<dest, src>> \o pattern)>>

\* A word of zeros is an fadd of r0 and r0 to no component of r0.
BlankWord == Word("fadd", <<0, 0, 0, 0>>)

-----------------------------------------------------------------------------
\* Opcodes, by the layout the shader unit reads them in.
UnaryOps == {"fneg", "frcp", "ineg", "mov", "fnorm"}
BinaryOps == {"fadd", "fsub", "fmul", "fdiv", "fmax", "fmin", "fdot", "fcross", "fcross2",
              "iadd", "isub", "imul", "idiv", "imax", "imin"}
NullaryOps == {"trap", "lduni", "initregs"}

\* BinaryMathImm opcodes and the operation each has in common with its BinaryMath twin.
OperationOf == [fadd_imm |-> "fadd", fsub_imm |-> "fsub", fmul_imm |-> "fmul", fdiv_imm |-> "fdiv",
                iadd_imm |-> "iadd", isub_imm |-> "isub", imul_imm |-> "imul", idiv_imm |-> "idiv"]
ImmediateForm(op) == CHOOSE imm \in DOMAIN OperationOf : OperationOf[imm] = op

(***************************************************************************)
(* What the grammar encodes for a line of assembly: [mnemonic, dest, mask, *)
(* src (registers, for swizzle followed by the pattern), imm].  Only the   *)
(* init instructions take more than one immediate value, and FMAD is given *)
(* the opcode of FCROSS2.                                                  *)
(***************************************************************************)
Assembled(i) ==
    CASE i.mnemonic \in UnaryOps -> UnaryMath(i.mnemonic, i.dest, i.src[1], i.mask)
      [] i.mnemonic = "fcross" -> BinaryMath("fcross", i.dest, i.src[1], i.src[2], 15)
      [] i.mnemonic \in BinaryOps \ {"fcross"} ->
            IF i.imm = <<>>
            THEN BinaryMath(i.mnemonic, i.dest, i.src[1], i.src[2], i.mask)
            ELSE BinaryMathImm(ImmediateForm(i.mnemonic), i.dest, i.src[1], i.mask, i.imm)
      [] i.mnemonic = "fmad" -> TernaryMath("fcross2", i.dest, i.src[1], i.src[2], i.src[3], i.mask)
      [] i.mnemonic \in {"finit", "iinit"} -> UnaryMathImm("init", i.dest, i.mask, i.imm)
      [] i.mnemonic = "swizzle" -> Swizzle(i.dest, i.src[1], Tail(i.src))
      [] i.mnemonic \in NullaryOps -> Nullary(i.mnemonic)
=============================================================================
