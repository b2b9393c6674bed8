------------------------------- MODULE Memory -------------------------------
(***************************************************************************)
(* The single-channel memory of gpu/blocks/memory.h: MemorySize dwords,    *)
(* one operation per clock tick.                                           *)
(*                                                                         *)
(* A SystemC signal read during a tick has the value it had before the     *)
(* tick, and a value written during the tick is visible after it.  Work is *)
(* the step of the thread in one tick: unprimed variables are the signals  *)
(* it reads, primed ones the signals it writes.                            *)
(***************************************************************************)
EXTENDS Integers

CONSTANTS
    MemorySize,     \* template argument Size, in dwords
    Data            \* the dwords the memory may hold

VARIABLES
    rawMemory,      \* the dwords, indexed from 0
    request,        \* inputs inpEnable, inpWrite, inpAddress and inpData
    outData,        \* what a read returned
    outCompleted    \* the operation requested in the tick before is done

\* A byte address holds the dword it falls into: memoryDataTypeByteSize is 4.
DwordIndex(address) == address \div 4

Dwords == 0 .. MemorySize - 1

\* Signals start from the default value of their type.
Init ==
    /\ rawMemory = [i \in Dwords |-> 0]
    /\ outData = 0
    /\ outCompleted = FALSE

\* One iteration of Memory::work.  Both outputs fall back to 0 in every tick
\* that performs no operation.
Work ==
    LET index == DwordIndex(request.address) IN
    /\ outCompleted' = request.enable
    /\ outData' = IF request.enable /\ ~request.write THEN rawMemory[index] ELSE 0
    /\ rawMemory' = IF request.enable /\ request.write
                    THEN [rawMemory EXCEPT ![index] = request.data]
                    ELSE rawMemory
=============================================================================
