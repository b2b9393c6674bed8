----------------------------- MODULE MemoryChain -----------------------------
(***************************************************************************)
(* Two controllers in a row.  docs/Memory.md: "Because MemoryController    *)
(* module has the same interface for clients as Memory, it is possible to  *)
(* chain them, i.e. connect a MemoryController as a client of another      *)
(* MemoryController".  An inner controller owns the memory; its client 0   *)
(* is an outer controller with clients of its own, its other clients are   *)
(* blocks.  The latency of the outer controller's "memory" varies.         *)
(***************************************************************************)
EXTENDS Integers, FiniteSets

CONSTANTS
    OuterCount,     \* clients of the outer controller
    DirectCount,    \* blocks connected to the inner controller
    Writers,        \* blocks that also write
    MemorySize, Addresses, Data, CounterMod

\* The blocks of the outer controller come first.
Clients == 0 .. OuterCount + DirectCount - 1
Outer == 0 .. OuterCount - 1

Dwords == 0 .. MemorySize - 1

ASSUME ChainAssumption ==
    /\ OuterCount \in Nat \ {0}
    /\ DirectCount \in Nat
    /\ MemorySize \in Nat \ {0}
    /\ CounterMod \in Nat \ {0}
    /\ Writers \subseteq Clients
    /\ Addresses \subseteq 0 .. 4 * MemorySize - 1
    /\ 0 \in Data

VARIABLES
    port, waiting, got,                                 \* the blocks
    outerLatched, outerCompleted, outerData,            \* the outer controller
    outerPhase, outerCurrent, outerClear, outerWrite,
    outerBusy, outerReads, outerWrites,
    link,                                               \* outer to inner
    innerLatched, innerCompleted, innerData,            \* the inner controller
    innerPhase, innerCurrent, innerClear, innerWrite,
    innerBusy, innerReads, innerWrites,
    memory,                                             \* inner to memory
    rawMemory, memCompleted, memData                    \* the memory

blockVars == <<port, waiting, got>>
outerVars == <<outerLatched, outerCompleted, outerData, outerPhase, outerCurrent,
               outerClear, outerWrite, outerBusy, outerReads, outerWrites, link>>
innerVars == <<innerLatched, innerCompleted, innerData, innerPhase, innerCurrent,
               innerClear, innerWrite, innerBusy, innerReads, innerWrites, memory>>
memoryVars == <<rawMemory, memCompleted, memData>>
vars == <<blockVars, outerVars, innerVars, memoryVars>>

\* The inner controller's number for a block connected to it, and back.
Slot(c) == c - OuterCount + 1
InnerPort == [s \in 0 .. DirectCount |->
                  IF s = 0 THEN link ELSE port[s - 1 + OuterCount]]

Blocks == INSTANCE MemoryClients WITH
    inpCompleted <- [c \in Clients |->
        IF c \in Outer THEN outerCompleted[c] ELSE innerCompleted[Slot(c)]],
    inpData <- [c \in Clients |-> IF c \in Outer THEN outerData ELSE innerData]

OuterController == INSTANCE MemoryController WITH
    ClientsCount <- OuterCount,
    latched <- outerLatched, outCompleted <- outerCompleted, outData <- outerData,
    memory <- link, memCompleted <- innerCompleted[0], memData <- innerData,
    phase <- outerPhase, currentClient <- outerCurrent,
    clientForOutputClear <- outerClear, memoryWrite <- outerWrite,
    outBusy <- outerBusy, outReadsPerformed <- outerReads, outWritesPerformed <- outerWrites

InnerController == INSTANCE MemoryController WITH
    ClientsCount <- DirectCount + 1, port <- InnerPort,
    latched <- innerLatched, outCompleted <- innerCompleted, outData <- innerData,
    phase <- innerPhase, currentClient <- innerCurrent,
    clientForOutputClear <- innerClear, memoryWrite <- innerWrite,
    outBusy <- innerBusy, outReadsPerformed <- innerReads, outWritesPerformed <- innerWrites

Ram == INSTANCE Memory WITH request <- memory, outData <- memData,
                            outCompleted <- memCompleted

Init == Blocks!Init /\ OuterController!Init /\ InnerController!Init /\ Ram!Init

Tick == Blocks!Tick /\ OuterController!Tick /\ InnerController!Tick /\ Ram!Work

Spec == Init /\ [][Tick]_vars

\* The clock runs for as long as the simulation does.
FairSpec == Spec /\ WF_vars(Tick)

-----------------------------------------------------------------------------
(* The chain implements AtomicMemory, too.                                 *)

\* The memory, or the inner controller on its way back, holds the answer to the
\* inner client s.
InnerAnswers(s) == innerCompleted[s] \/ (memCompleted /\ innerCurrent = s)
InnerAnswer(s) == IF innerCompleted[s] THEN innerData ELSE memData

OuterAnswers(c) == outerCompleted[c] \/ (InnerAnswers(0) /\ outerCurrent = c)
OuterAnswer(c) == IF outerCompleted[c] THEN outerData ELSE InnerAnswer(0)

Served(c) == IF c \in Outer THEN OuterAnswers(c) ELSE InnerAnswers(Slot(c))
Answer(c) == IF c \in Outer THEN OuterAnswer(c) ELSE InnerAnswer(Slot(c))

CallOf(c) ==
    IF ~waiting[c]
    THEN [stage |-> "none", write |-> FALSE, index |-> 0, data |-> 0]
    ELSE [stage |-> IF Served(c) THEN "served" ELSE "asked",
          write |-> port[c].write,
          index |-> Ram!DwordIndex(port[c].address),
          data  |-> CASE port[c].write -> port[c].data
                      [] ~port[c].write /\ Served(c) -> Answer(c)
                      [] OTHER -> 0]

Performed(counted, write) ==
    IF memCompleted /\ innerWrite = write THEN (counted + 1) % CounterMod ELSE counted

Atomic == INSTANCE AtomicMemory WITH
    contents <- rawMemory,
    call     <- [c \in Clients |-> CallOf(c)],
    reads    <- Performed(innerReads, FALSE),
    writes   <- Performed(innerWrites, TRUE)

\* A chain of controllers is as good as one: accesses through either controller
\* take effect atomically, in one order, and are answered to who made them.
ChainLinearizable == Atomic!Spec

\* Every block is eventually answered, though the blocks of the outer controller
\* share one slot of the inner one.
ChainAnswered ==
    \A c \in Clients : waiting[c] ~> IF c \in Outer THEN outerCompleted[c]
                                                      ELSE innerCompleted[Slot(c)]
=============================================================================
