----------------------------- MODULE MemorySystem -----------------------------
(***************************************************************************)
(* The memory, its controller and their clients wired together, as in      *)
(* gpu/gpu.cpp (Gpu::connectInternalPorts).  All the threads wait for the  *)
(* rising edge of one clock, so a step of the system is one tick of all of *)
(* them.                                                                   *)
(***************************************************************************)
EXTENDS Integers, FiniteSets

CONSTANTS
    ClientsCount,   \* clients of the controller
    Writers,        \* those that also write
    MemorySize,     \* dwords of memory
    Addresses,      \* byte addresses the clients use
    Data,           \* dwords the clients write
    CounterMod      \* the profiling counters wrap around here

Clients == 0 .. ClientsCount - 1

Dwords == 0 .. MemorySize - 1

ASSUME CountsAssumption ==
    /\ ClientsCount \in Nat \ {0}
    /\ MemorySize \in Nat \ {0}
    /\ CounterMod \in Nat \ {0}

\* The controller's static_assert, and the range docs/Memory.md leaves to the
\* clients: an address outside the memory is undefined behaviour.
ASSUME ClientsAssumption ==
    /\ Writers \subseteq Clients
    /\ Addresses \subseteq 0 .. 4 * MemorySize - 1

ASSUME DataAssumption == 0 \in Data

VARIABLES
    port, waiting, got,                                 \* the clients
    latched, outCompleted, outData, phase,              \* the controller
    currentClient, clientForOutputClear, memoryWrite,
    outBusy, outReadsPerformed, outWritesPerformed,
    memory,                                             \* controller to memory
    rawMemory, memCompleted, memData                    \* the memory

clientVars == <<port, waiting, got>>
controllerVars == <<latched, outCompleted, outData, phase, currentClient,
                    clientForOutputClear, memoryWrite, outBusy, outReadsPerformed,
                    outWritesPerformed, memory>>
memoryVars == <<rawMemory, memCompleted, memData>>
vars == <<clientVars, controllerVars, memoryVars>>

\* All the blocks read the data of the controller's one output.
Blocks == INSTANCE MemoryClients WITH inpCompleted <- outCompleted,
                                      inpData <- [c \in Clients |-> outData]
Controller == INSTANCE MemoryController
Ram == INSTANCE Memory WITH request <- memory, outData <- memData,
                            outCompleted <- memCompleted

Init == Blocks!Init /\ Controller!Init /\ Ram!Init

Tick == Blocks!Tick /\ Controller!Tick /\ Ram!Work

Spec == Init /\ [][Tick]_vars

-----------------------------------------------------------------------------
(* Properties.                                                             *)

Requests == [enable : BOOLEAN, write : BOOLEAN, address : Addresses \cup {0}, data : Data]

\* The type invariant: every signal and local variable of memory.h,
\* memory_controller.h and of the clients' protocol stays in its range.
TypeOK ==
    /\ port \in [Clients -> Requests]
    /\ waiting \in [Clients -> BOOLEAN]
    /\ got \in [Clients -> Data]
    /\ latched \in [Clients -> Requests]
    /\ outCompleted \in [Clients -> BOOLEAN]
    /\ outData \in Data
    /\ phase \in {"scan", "drive", "wait"}
    /\ currentClient \in Clients
    /\ clientForOutputClear \in Clients \cup {Controller!NoClient}
    /\ memoryWrite \in BOOLEAN
    /\ outBusy \in BOOLEAN
    /\ outReadsPerformed \in 0 .. CounterMod - 1
    /\ outWritesPerformed \in 0 .. CounterMod - 1
    /\ memory \in Requests
    /\ rawMemory \in [Dwords -> Data]
    /\ memCompleted \in BOOLEAN
    /\ memData \in Data

\* A completion pulse of memory_controller.h reaches a client that waits for
\* one and has no further request latched, and only one client at a time: the
\* data port is shared, so a second pulse would hand it another client's data.
CompletionReachesRequester ==
    \A c \in Clients : outCompleted[c] =>
        /\ waiting[c]
        /\ ~latched[c].enable
        /\ \A d \in Clients \ {c} : ~outCompleted[d]

\* Why SC_UNCHECKED_WRITERS is harmless on clientsLatched[c].enable: main never
\* clears the flag in a tick in which listenClients sets it, so no request is
\* lost (or served twice) by the order in which the kernel runs the threads.
LatchHasOneWriter ==
    \A c \in Clients : phase = "wait" /\ memCompleted /\ currentClient = c => ~port[c].enable

\* A request that its block has raised is never forgotten before its answer:
\* it is on the block's ports, in its latch, or being answered.
RequestIsHeld ==
    \A c \in Clients : waiting[c] =>
        \/ port[c].enable
        \/ /\ latched[c].enable
           /\ latched[c].write = port[c].write
           /\ latched[c].address = port[c].address
           /\ latched[c].write => latched[c].data = port[c].data
        \/ outCompleted[c]

\* profiling.outBusy low means that no operation is in the memory or on its
\* way to it, and that no client is being answered: what waitForIdle relies on.
IdleMeansQuiet ==
    ~outBusy =>
        /\ phase = "scan"
        /\ ~memory.enable /\ ~memCompleted
        /\ \A c \in Clients : ~outCompleted[c]
=============================================================================
