----------------------------- MODULE AtomicMemory -----------------------------
(***************************************************************************)
(* What the memory subsystem promises its clients: an array of dwords in   *)
(* which every access takes effect at one instant between the request and  *)
(* the completion its client sees, one access at a time, and a completion  *)
(* reaches the client that made the request.  docs/Memory.md: the          *)
(* controller "selects one request at a time, forwards it to the actual    *)
(* memory and signals completion to the client, which originally made the  *)
(* request".                                                               *)
(***************************************************************************)
EXTENDS Integers

CONSTANTS
    Clients,
    Dwords,         \* indices of the array
    Data,           \* its values, 0 among them
    CounterMod      \* the counters of operations wrap around here

VARIABLES
    contents,           \* [Dwords -> Data]
    call,               \* [Clients -> Calls]
    got,                \* [Clients -> Data]: what the last read returned
    reads, writes       \* operations performed so far

vars == <<contents, call, got, reads, writes>>

Stages == {"none", "asked", "served"}

\* The data of an access is what a write stores, or what a read found once it
\* has been served.
Calls == [stage : Stages, write : BOOLEAN, index : Dwords, data : Data]

NoCall == [stage |-> "none", write |-> FALSE, index |-> 0, data |-> 0]

\* A client with no access in progress may ask for one.
NextCalls == {NoCall} \cup {k \in Calls : k.stage = "asked"}

Init ==
    /\ contents = [i \in Dwords |-> 0]
    /\ call = [c \in Clients |-> NoCall]
    /\ got = [c \in Clients |-> 0]
    /\ reads = 0
    /\ writes = 0

\* Client c's access takes effect.
Serve(c) ==
    LET k == call[c] IN
    /\ k.stage = "asked"
    /\ call'[c] = [stage |-> "served", write |-> k.write, index |-> k.index,
                   data |-> IF k.write THEN k.data ELSE contents[k.index]]
    /\ got'[c] = got[c]
    /\ contents' = IF k.write THEN [contents EXCEPT ![k.index] = k.data] ELSE contents
    /\ reads' = IF k.write THEN reads ELSE (reads + 1) % CounterMod
    /\ writes' = IF k.write THEN (writes + 1) % CounterMod ELSE writes

\* Client c does nothing, asks, or takes its answer and perhaps asks again.
Proceed(c) ==
    \/ call'[c] = call[c] /\ got'[c] = got[c]
    \/ /\ call[c].stage = "none"
       /\ call'[c] \in NextCalls
       /\ got'[c] = got[c]
    \/ /\ call[c].stage = "served"
       /\ call'[c] \in NextCalls
       /\ got'[c] = IF call[c].write THEN got[c] ELSE call[c].data

\* The clients work in parallel; the array serves at most one of them.
Next ==
    /\ call' \in [Clients -> Calls]
    /\ got' \in [Clients -> Data]
    /\ \/ /\ \A c \in Clients : Proceed(c)
          /\ UNCHANGED <<contents, reads, writes>>
       \/ \E s \in Clients :
            /\ Serve(s)
            /\ \A c \in Clients \ {s} : Proceed(c)

Spec == Init /\ [][Next]_vars
=============================================================================
