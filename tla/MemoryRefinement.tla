--------------------------- MODULE MemoryRefinement ---------------------------
(***************************************************************************)
(* The memory subsystem implements AtomicMemory: an access takes effect in *)
(* the tick in which the memory performs it.                               *)
(***************************************************************************)
EXTENDS MemorySystem

BeingAnswered(c) == memCompleted /\ currentClient = c

CallOf(c) ==
    IF ~waiting[c]
    THEN [stage |-> "none", write |-> FALSE, index |-> 0, data |-> 0]
    ELSE [stage |-> IF outCompleted[c] \/ BeingAnswered(c) THEN "served" ELSE "asked",
          write |-> port[c].write,
          index |-> Ram!DwordIndex(port[c].address),
          data  |-> IF port[c].write THEN port[c].data
                    ELSE IF outCompleted[c] THEN outData
                    ELSE IF BeingAnswered(c) THEN memData ELSE 0]

\* Operations the memory has performed: those counted, and the one about to be.
Performed(counted, write) ==
    IF memCompleted /\ memoryWrite = write THEN (counted + 1) % CounterMod ELSE counted

Atomic == INSTANCE AtomicMemory WITH
    contents <- rawMemory,
    call     <- [c \in Clients |-> CallOf(c)],
    reads    <- Performed(outReadsPerformed, FALSE),
    writes   <- Performed(outWritesPerformed, TRUE)

\* The accesses of all the clients are linearizable: each takes effect at one
\* instant between its request and its completion, a read returns what the last
\* write before it stored, its data reach the client that asked, and the
\* profiling counters count each access once.
Linearizable == Atomic!Spec
=============================================================================
