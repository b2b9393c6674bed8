--------------------------- MODULE RegisterAllocator ---------------------------
(***************************************************************************)
(* RegisterAllocator hands out the registers its mask leaves free, the     *)
(* lowest first.  Assembler and shader unit each make one from what they   *)
(* know of the inputs, and have to get the same registers in the same      *)
(* order.                                                                  *)
(***************************************************************************)
EXTENDS Isa

\* What the n-th call of allocate() returns when used are taken at the start.
Allocated(used, n) ==
    CHOOSE r \in Registers \ used : Cardinality({q \in Registers \ used : q < r}) = n - 1
=============================================================================
