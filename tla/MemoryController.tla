--------------------------- MODULE MemoryController ---------------------------
(***************************************************************************)
(* The arbiter of gpu/blocks/memory_controller.h.  Two threads share it:   *)
(* listenClients latches the requests of all the clients, main serves the  *)
(* latched requests one at a time, in round-robin order.  Both run in      *)
(* every tick and see the signals as they were before it, so a step is the *)
(* conjunction of a step of each.                                          *)
(*                                                                         *)
(* The one signal both threads write is clientsLatched[c].enable, declared *)
(* SC_UNCHECKED_WRITERS: if both write it in one tick, the write that      *)
(* stays is that of the thread the kernel happens to run last.             *)
(***************************************************************************)
EXTENDS Integers

CONSTANTS
    ClientsCount,   \* template argument clientsCount
    CounterMod      \* the profiling counters wrap around here (2^32)

VARIABLES
    port,                   \* [Clients -> requests]: inputs from the clients
    latched,                \* [Clients -> requests]: clientsLatched
    outCompleted,           \* [Clients -> BOOLEAN]: completion pulses
    outData,                \* the data of a completed read, shared by the clients
    memory,                 \* the request driven to the memory
    memCompleted, memData,  \* what the memory answers
    phase,                  \* where main waits
    currentClient,
    clientForOutputClear,
    memoryWrite,            \* whether the operation in progress is a write
    outBusy, outReadsPerformed, outWritesPerformed      \* profiling

vars == <<port, latched, outCompleted, outData, memory, memCompleted, memData, phase,
          currentClient, clientForOutputClear, memoryWrite, outBusy, outReadsPerformed,
          outWritesPerformed>>

Clients == 0 .. ClientsCount - 1

NoClient == -1

\* All inputs of a memory-like block low.
NoRequest == [enable |-> FALSE, write |-> FALSE, address |-> 0, data |-> 0]

\* The first pass over the clients begins at client 0.
MutStartPastEnd == ClientsCount
StartClient == ClientsCount - 1

Init ==
    /\ latched = [c \in Clients |-> NoRequest]
    /\ outCompleted = [c \in Clients |-> FALSE]
    /\ outData = 0
    /\ memory = NoRequest
    /\ phase = "scan"
    /\ currentClient = StartClient
    /\ clientForOutputClear = NoClient
    /\ memoryWrite = FALSE
    /\ outBusy = FALSE
    /\ outReadsPerformed = 0
    /\ outWritesPerformed = 0

-----------------------------------------------------------------------------
(* listenClients, and the part of main that writes the same signal.        *)

\* Mutants: the latch follows the ports; only one client is latched per tick.
MutListenAlways(c) == port[c]
MutListenFirst(c) ==
    IF port[c].enable /\ \A d \in Clients : port[d].enable => c <= d
    THEN port[c] ELSE latched[c]

\* What listenClients leaves in the latch of client c.
Listen(c) == IF port[c].enable THEN port[c] ELSE latched[c]

\* Mutant: main does not clear the flag of the client it has served.
MutLatchKeeps(cleared) == latched' = [c \in Clients |-> Listen(c)]

\* The latches after a tick in which main clears the enable flag of the
\* clients in cleared; listenLast says which thread the kernel ran last.
Latch(cleared) ==
    \E listenLast \in BOOLEAN :
        latched' = [c \in Clients |->
            IF c \in cleared /\ ~(port[c].enable /\ listenLast)
            THEN [Listen(c) EXCEPT !.enable = FALSE]
            ELSE Listen(c)]

-----------------------------------------------------------------------------
(* main.  "scan": at the wait() that opens the loop; "drive": at the       *)
(* wait() after the request was put on the memory's ports; "wait": in      *)
(* waitForMemory.                                                          *)

\* Mutant: every pass begins at client 0.
MutDistanceFixed(c) == c

\* The number of clients main skips on its way from currentClient to c.
Distance(c) == (c + ClientsCount - currentClient - 1) % ClientsCount

\* c is the first client with a latched request after currentClient.
Selected(c) ==
    /\ latched[c].enable
    /\ \A d \in Clients : latched[d].enable => Distance(c) <= Distance(d)

\* Mutant: outBusy is never raised.
MutBusyForgotten(b) == outBusy' = FALSE

Busy(b) == outBusy' = b

\* Mutant: nothing clears the completion.
MutKeepOutput == UNCHANGED <<outCompleted, outData, clientForOutputClear>>

\* The completion given in the previous pass is a pulse of one tick.
ClearOutput ==
    /\ outCompleted' = [c \in Clients |-> outCompleted[c] /\ c # clientForOutputClear]
    /\ outData' = IF clientForOutputClear = NoClient THEN outData ELSE 0
    /\ clientForOutputClear' = NoClient

\* The for loop comes full circle and finds no request.
ScanNothing ==
    /\ phase = "scan"
    /\ \A c \in Clients : ~latched[c].enable
    /\ ClearOutput
    /\ Latch({})
    /\ Busy(FALSE)
    /\ UNCHANGED <<memory, phase, currentClient, memoryWrite, outReadsPerformed,
                   outWritesPerformed>>

\* The for loop stops at client c and forwards its request to the memory.
Select(c) ==
    /\ phase = "scan"
    /\ Selected(c)
    /\ ClearOutput
    /\ Latch({})
    /\ Busy(TRUE)
    /\ currentClient' = c
    /\ memoryWrite' = latched[c].write
    /\ memory' = [enable  |-> TRUE,
                  write   |-> latched[c].write,
                  address |-> latched[c].address,
                  data    |-> IF latched[c].write THEN latched[c].data ELSE memory.data]
    /\ phase' = "drive"
    /\ UNCHANGED <<outReadsPerformed, outWritesPerformed>>

\* The request stays on the memory's ports for one tick.
Release ==
    /\ phase = "drive"
    /\ memory' = [memory EXCEPT !.enable = FALSE, !.write = FALSE]
    /\ phase' = "wait"
    /\ Latch({})
    /\ UNCHANGED <<outCompleted, outData, currentClient, clientForOutputClear, memoryWrite,
                   outBusy, outReadsPerformed, outWritesPerformed>>

\* Mutant: the memory is taken to need one tick.
MutFixedLatency == TRUE

MemoryDone == memCompleted

\* waitForMemory goes round once more.
KeepWaiting ==
    /\ phase = "wait"
    /\ ~MemoryDone
    /\ Latch({})
    /\ UNCHANGED <<outCompleted, outData, memory, phase, currentClient,
                   clientForOutputClear, memoryWrite, outBusy, outReadsPerformed,
                   outWritesPerformed>>

\* The memory is done: count the operation, answer the client and forget its
\* request.
Complete ==
    /\ phase = "wait"
    /\ MemoryDone
    /\ IF memoryWrite
       THEN /\ outWritesPerformed' = (outWritesPerformed + 1) % CounterMod
            /\ UNCHANGED <<outReadsPerformed, outData>>
       ELSE /\ outReadsPerformed' = (outReadsPerformed + 1) % CounterMod
            /\ outData' = memData
            /\ UNCHANGED outWritesPerformed
    /\ outCompleted' = [outCompleted EXCEPT ![currentClient] = TRUE]
    /\ clientForOutputClear' = currentClient
    /\ Latch({currentClient})
    /\ phase' = "scan"
    /\ memoryWrite' = FALSE
    /\ UNCHANGED <<memory, currentClient, outBusy>>

\* One clock tick of the controller.
Tick ==
    \/ ScanNothing
    \/ \E c \in Clients : Select(c)
    \/ Release
    \/ KeepWaiting
    \/ Complete
=============================================================================
