---------------------------- MODULE MemoryClients ----------------------------
(***************************************************************************)
(* The blocks that use the memory: primitive assembler, blitter, output    *)
(* merger and shader frontend.  They share one protocol, repeated at each  *)
(* of their memory accesses:                                               *)
(*                                                                         *)
(*    outEnable = 1; <other ports>; wait(); outEnable = 0;                 *)
(*    while (!inpCompleted) wait();                                        *)
(*    <other ports> = 0; read inpData;                                     *)
(*                                                                         *)
(* Which accesses a block makes, and when, is left open here: a block may  *)
(* make the next one in the very tick that ends the last one, as the       *)
(* output merger does between its depth test and its depth write.          *)
(***************************************************************************)
EXTENDS Integers

CONSTANTS
    Clients,        \* the blocks
    Writers,        \* those with write ports; the others are ReadOnly clients
    Addresses,      \* byte addresses they use
    Data            \* dwords they write

VARIABLES
    port,           \* [Clients -> requests]: what each block drives
    waiting,        \* [Clients -> BOOLEAN]: the block is in its wait loop
    got,            \* [Clients -> Data]: what its last read returned
    inpCompleted,   \* [Clients -> BOOLEAN]
    inpData         \* [Clients -> Data]: the data signal each block reads

Quiet == [enable |-> FALSE, write |-> FALSE, address |-> 0, data |-> 0]

ReadRequests == [enable : {TRUE}, write : {FALSE}, address : Addresses, data : {0}]

WriteRequests == [enable : {TRUE}, write : {TRUE}, address : Addresses, data : Data]

RequestsOf(c) == ReadRequests \cup (IF c \in Writers THEN WriteRequests ELSE {})

Init ==
    /\ port = [c \in Clients |-> Quiet]
    /\ waiting = [c \in Clients |-> FALSE]
    /\ got = [c \in Clients |-> 0]

\* The access of c ends in this tick.
Returns(c) == waiting[c] /\ inpCompleted[c]

\* The blocks that may make an access in this tick.
Free == {c \in Clients : waiting[c] => inpCompleted[c]}

\* Mutant: the enable signal is not lowered after a tick.
MutStillEnabled(request) == request

Lowered(request) == [request EXCEPT !.enable = FALSE]

\* One tick of every block: choice says what each free block asks for next,
\* Quiet if nothing.  The others are between the two halves of an access.
Tick ==
    \E choice \in [Free -> ReadRequests \cup WriteRequests \cup {Quiet}] :
        /\ \A c \in Free : choice[c] \in RequestsOf(c) \cup {Quiet}
        /\ port' = [c \in Clients |->
                        IF c \in Free THEN choice[c] ELSE Lowered(port[c])]
        /\ waiting' = [c \in Clients |-> IF c \in Free THEN choice[c].enable ELSE TRUE]
        /\ got' = [c \in Clients |->
                        IF Returns(c) /\ ~port[c].write THEN inpData[c] ELSE got[c]]
=============================================================================
