---------------------------- MODULE MemoryLatency ----------------------------
(***************************************************************************)
(* How long a client of the memory subsystem waits: MemorySystem with a    *)
(* stop-watch per client, which counts the ticks since the block raised    *)
(* its request.                                                            *)
(***************************************************************************)
EXTENDS MemorySystem

VARIABLE age

LatencyInit == Init /\ age = [c \in Clients |-> 0]

LatencyTick ==
    /\ Tick
    /\ age' = [c \in Clients |->
                   IF waiting[c] /\ ~outCompleted[c] THEN age[c] + 1 ELSE 0]

LatencySpec == LatencyInit /\ [][LatencyTick]_<<vars, age>>

\* A request is latched in one tick and served in three (drive, operation,
\* answer); the latching is hidden when another request is being served.
\* memory_controller_test.cpp counts 4 ticks for a request alone and 7 for the
\* second of two.  Whenever a request arrives, it waits for every other client
\* at most once, whatever those clients ask for meanwhile.
WorstLatency == 4 + 3 * (ClientsCount - 1)

AnsweredInTime == \A c \in Clients : age[c] <= WorstLatency
=============================================================================
