--------------------------------- MODULE MCGpu ---------------------------------
\* A memory of two dwords, a buffer to write from and one to read into.
EXTENDS Gpu

Blit(type, ptr, buffer, size) == [type |-> type, ptr |-> ptr, buffer |-> buffer, size |-> size]

MCBlits == {Blit("CopyToMem", 0, "from", 2), Blit("FillMem", 0, "from", 2),
            Blit("CopyFromMem", 0, "to", 2)}

MCMemory == [a \in 0 .. 1 |-> "zero"]
MCBuffers == [b \in {"from", "to"} |->
                 IF b = "from" THEN [i \in 0 .. 1 |-> IF i = 0 THEN "one" ELSE "two"]
                 ELSE [i \in 0 .. 1 |-> "zero"]]
=============================================================================
