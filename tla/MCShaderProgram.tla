---------------------------- MODULE MCShaderProgram ----------------------------
(***************************************************************************)
(* Values for the constants of ShaderProgram.  Registers: 0 is the         *)
(* position, 1 the result, 2 and 5 are other inputs, 4 a uniform, 7 is     *)
(* used by the code alone; 2 may also be a uniform, which the documents    *)
(* forbid.                                                                 *)
(***************************************************************************)
EXTENDS ShaderProgram

Io(kind, reg, mask) == [kind |-> kind, reg |-> reg, mask |-> mask]
Line(mnemonic, dest, mask, src, imm) ==
    [mnemonic |-> mnemonic, dest |-> dest, mask |-> mask, src |-> src, imm |-> imm]

MCDirectives ==
    {Io("vs", 0, 0), Io("fs", 0, 0), Io("undefinedRegs", 0, 0),
     Io("input", 0, 15), Io("input", 2, 12), Io("input", 5, 8), Io("input", 9, 14),
     Io("output", 1, 15), Io("output", 2, 14), Io("uniform", 4, 12), Io("uniform", 2, 8),
     Io("input", 3, 10)}

MCSources ==
    {<<Line("mov", 1, 15, <<0>>, <<>>)>>,
     <<Line("finit", 7, 13, <<>>, <<Whole(2), Whole(3)>>), Line("fadd", 1, 14, <<2, 7>>, <<>>)>>,
     <<Line("swizzle", 1, 15, <<0, 3, 2, 1, 0>>, <<>>), Line("fmul", 1, 10, <<1>>, <<Whole(3)>>),
       Line("trap", 0, 0, <<>>, <<>>), Line("fdot", 1, 5, <<0, 1>>, <<>>)>>,
     <<Line("iinit", 7, 15, <<>>, <<Whole(4), Whole(3), Whole(0)>>), Line("fcross", 1, 15, <<7, 0>>, <<>>),
       Line("fnorm", 7, 15, <<7>>, <<>>), Line("swizzle", 1, 15, <<1, 2, 2, 2, 2>>, <<>>)>>}

MCFmad == {<<Line("fmad", 1, 15, <<0, 2, 7>>, <<>>)>>}

MCTriangles == {<<<<0, 0, 1>>, <<4, 0, 2>>, <<0, 4, 4>>>>, <<<<1, 3, 3>>, <<3, 0, 1>>, <<-1, -1, 2>>>>}
MCFragments == <<<<1, 1>>, <<2, 1>>>>
=============================================================================
