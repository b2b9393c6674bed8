------------------------ MODULE MemoryControllerProofs ------------------------
(***************************************************************************)
(* What one controller does with the requests of its clients, whatever is  *)
(* connected to it on either side.  The clients and the memory appear only *)
(* by what they promise (ClientStep, MemoryStep), so that the lemmas hold  *)
(* of a controller wherever it stands in a chain of them.                  *)
(***************************************************************************)
EXTENDS MemoryController, TLAPS

CONSTANTS Addresses, Data

VARIABLES
    waiting,                \* client c waits for a completion
    asked,                  \* the request it waits for
    memServed, memAnswer    \* the request driven to the memory has taken effect

Requests == [enable : BOOLEAN, write : BOOLEAN, address : Addresses, data : Data]

\* What the lemmas assume of the constants.
ConstantsOK ==
    /\ ClientsCount \in Nat \ {0}
    /\ CounterMod \in Nat \ {0}
    /\ 0 \in Data
    /\ 0 \in Addresses

\* The signals of the controller, and those of its neighbours.
OwnType ==
    /\ latched \in [Clients -> Requests]
    /\ outCompleted \in [Clients -> BOOLEAN]
    /\ outData \in Data
    /\ memory \in Requests
    /\ phase \in {"scan", "drive", "wait"}
    /\ currentClient \in Clients
    /\ clientForOutputClear \in Clients \cup {NoClient}
    /\ memoryWrite \in BOOLEAN
    /\ outReadsPerformed \in 0 .. CounterMod - 1
    /\ outWritesPerformed \in 0 .. CounterMod - 1

NeighbourType ==
    /\ \A c \in Clients : /\ port[c] \in Requests
                          /\ waiting[c] \in BOOLEAN
                          /\ asked[c] \in Requests /\ asked[c].enable
    /\ memCompleted \in BOOLEAN
    /\ memData \in Data

-----------------------------------------------------------------------------
(* The inductive invariant of a controller among its neighbours.           *)

\* A request is on its client's ports, then in its latch until it is answered.
ClientInv(c) ==
    /\ port[c].enable => /\ waiting[c] /\ ~latched[c].enable /\ ~outCompleted[c]
                         /\ port[c] = asked[c]
    /\ latched[c].enable => /\ waiting[c] /\ ~outCompleted[c]
                            /\ latched[c] = asked[c]
    /\ outCompleted[c] => waiting[c]
    /\ waiting[c] => port[c].enable \/ latched[c].enable \/ outCompleted[c]

\* A pulse is given between two requests to the memory and main knows to whom.
PulseInv ==
    \A c \in Clients : outCompleted[c] <=> phase = "scan" /\ clientForOutputClear = c

\* Main drives the latched request for one tick and then waits for its answer.
PhaseInv ==
    /\ memory.enable <=> phase = "drive"
    /\ memCompleted => phase = "wait"
    /\ phase = "drive" => memory.write = memoryWrite
    /\ phase # "scan" =>
        LET request == latched[currentClient]
        IN  /\ request.enable
            /\ memoryWrite = request.write
            /\ memory.address = request.address
            /\ memoryWrite => memory.data = request.data
            /\ clientForOutputClear = NoClient

ServiceInv ==
    /\ OwnType /\ NeighbourType
    /\ \A c \in Clients : ClientInv(c)
    /\ PulseInv
    /\ PhaseInv

\* A client in its wait loop keeps its request and has lowered its enable
\* signal; one that is not, or sees its completion, decides anew.
ClientStep(c) ==
    /\ waiting[c] /\ ~outCompleted[c] =>
            waiting'[c] /\ ~port'[c].enable /\ asked'[c] = asked[c]
    /\ ~waiting[c] \/ outCompleted[c] =>
            /\ waiting'[c] = port'[c].enable
            /\ port'[c].enable => port'[c] = asked'[c]

\* The memory completes nothing it was not asked for, and nothing twice.
MemoryStep == memCompleted' => phase = "drive" \/ (phase = "wait" /\ ~memCompleted)

Neighbours == MemoryStep /\ \A c \in Clients : ClientStep(c)

-----------------------------------------------------------------------------

USE DEF MemoryDone, Busy, StartClient, NoRequest

LEMMA Completes == ASSUME ServiceInv, Tick, phase = "wait", memCompleted PROVE Complete
BY DEF Tick, ScanNothing, Select, Release, KeepWaiting

LEMMA CompleteFacts ==
    ASSUME ServiceInv, Complete
    PROVE  /\ currentClient \in Clients
           /\ latched[currentClient].enable
           /\ waiting[currentClient]
           /\ ~outCompleted[currentClient]
           /\ ~port[currentClient].enable
<1>. PICK c \in Clients : c = currentClient
    BY DEF ServiceInv, OwnType
<1>. QED
    BY DEF ServiceInv, Complete, PhaseInv, ClientInv

\* With no request raised by a client whose latch main clears, the order of the
\* two threads does not matter.
LEMMA LatchStep ==
    ASSUME ServiceInv, NEW cleared, Latch(cleared), NEW c \in Clients,
           c \in cleared => ~port[c].enable
    PROVE  latched'[c] = IF c \in cleared THEN [latched[c] EXCEPT !.enable = FALSE]
                         ELSE Listen(c)
BY DEF Latch, Listen

LEMMA LatchType ==
    ASSUME ServiceInv, NEW cleared, Latch(cleared)
    PROVE  latched' \in [Clients -> Requests]
<1>1. \A c \in Clients : Listen(c) \in Requests
    BY DEF ServiceInv, OwnType, NeighbourType, Listen
<1>2. \A c \in Clients : [Listen(c) EXCEPT !.enable = FALSE] \in Requests
    BY <1>1 DEF Requests
<1>. QED
    BY <1>1, <1>2 DEF Latch

\* What a tick does to latches and pulses, in the two cases that matter to the
\* clients.
LEMMA PulseStep ==
    ASSUME ServiceInv, Tick
    PROVE  \/ /\ ~Complete
              /\ Latch({})
              /\ \A c \in Clients : ~outCompleted'[c]
           \/ /\ Complete
              /\ Latch({currentClient})
              /\ \A c \in Clients : outCompleted'[c] <=> c = currentClient
<1>. USE DEF ServiceInv, OwnType
<1>1. CASE ScanNothing
    BY <1>1 DEF ScanNothing, ClearOutput, PulseInv, Complete
<1>2. ASSUME NEW d \in Clients, Select(d)
      PROVE  ~Complete /\ Latch({}) /\ \A c \in Clients : ~outCompleted'[c]
    BY <1>2 DEF Select, ClearOutput, PulseInv, Complete
<1>3. CASE Release
    BY <1>3 DEF Release, PulseInv, Complete
<1>4. CASE KeepWaiting
    BY <1>4 DEF KeepWaiting, PulseInv, Complete
<1>5. CASE Complete
    BY <1>5 DEF Complete, PulseInv
<1>. QED
    BY <1>1, <1>2, <1>3, <1>4, <1>5 DEF Tick

\* No tick takes a signal or a local variable of the controller out of its range.
LEMMA OwnTypeStep == ConstantsOK /\ ServiceInv /\ Tick => OwnType'
<1>. SUFFICES ASSUME ConstantsOK, ServiceInv, Tick PROVE OwnType'
    OBVIOUS
<1>. USE DEF ConstantsOK, ServiceInv, OwnType, NeighbourType
<1>0. latched' \in [Clients -> Requests]
    BY PulseStep, LatchType
<1>1. CASE ScanNothing
    BY <1>0, <1>1 DEF ScanNothing, ClearOutput
<1>2. ASSUME NEW c \in Clients, Select(c)
      PROVE  OwnType'
    <2>1. latched[c] \in Requests
        OBVIOUS
    <2>2. memory' \in Requests
        BY <1>2, <2>1 DEF Select, Requests
    <2>. QED
        BY <1>0, <1>2, <2>1, <2>2 DEF Select, ClearOutput, Requests
<1>3. CASE Release
    <2>1. memory' \in Requests
        BY <1>3 DEF Release, Requests
    <2>. QED
        BY <1>0, <1>3, <2>1 DEF Release
<1>4. CASE KeepWaiting
    BY <1>0, <1>4 DEF KeepWaiting
<1>5. CASE Complete
    <2>1. /\ outReadsPerformed' \in 0 .. CounterMod - 1
          /\ outWritesPerformed' \in 0 .. CounterMod - 1
        BY <1>5 DEF Complete
    <2>. QED
        BY <1>0, <1>5, <2>1 DEF Complete
<1>. QED
    BY <1>1, <1>2, <1>3, <1>4, <1>5 DEF Tick

LEMMA ClientInvStep ==
    ASSUME ServiceInv, NeighbourType', Tick, NEW c \in Clients, ClientStep(c)
    PROVE  ClientInv(c)'
<1>1. ClientInv(c)
    BY DEF ServiceInv
<1>2. /\ port[c] \in Requests /\ latched[c] \in Requests /\ asked[c] \in Requests
      /\ port'[c] \in Requests /\ asked[c].enable
    BY DEF ServiceInv, OwnType, NeighbourType
<1>3. ASSUME latched'[c] = Listen(c), ~outCompleted'[c]
      PROVE  ClientInv(c)'
    <2>1. CASE waiting[c] /\ ~outCompleted[c]
        BY <1>1, <1>2, <1>3, <2>1 DEF ClientStep, ClientInv, Listen
    <2>2. CASE ~waiting[c] \/ outCompleted[c]
        <3>1. ~port[c].enable /\ ~latched[c].enable
            BY <1>1, <2>2 DEF ClientInv
        <3>2. latched'[c] = latched[c]
            BY <1>3, <3>1 DEF Listen
        <3>. QED
            BY <1>3, <2>2, <3>1, <3>2 DEF ClientStep, ClientInv
    <2>. QED
        BY <2>1, <2>2
<1>4. CASE Latch({}) /\ \A d \in Clients : ~outCompleted'[d]
    BY <1>3, <1>4 DEF Latch
<1>5. CASE /\ Complete
           /\ Latch({currentClient})
           /\ \A d \in Clients : outCompleted'[d] <=> d = currentClient
    <2>1. latched'[c] = IF c = currentClient THEN [latched[c] EXCEPT !.enable = FALSE]
                        ELSE Listen(c)
        BY <1>5, LatchStep, CompleteFacts
    <2>2. CASE c = currentClient
        <3>1. ~latched'[c].enable /\ outCompleted'[c]
            BY <1>2, <1>5, <2>1, <2>2 DEF Requests
        <3>2. waiting'[c] /\ ~port'[c].enable
            BY <1>5, <2>2, CompleteFacts DEF ClientStep
        <3>. QED
            BY <3>1, <3>2 DEF ClientInv
    <2>3. CASE c # currentClient
        BY <1>3, <1>5, <2>1, <2>3
    <2>. QED
        BY <2>2, <2>3
<1>. QED
    BY <1>4, <1>5, PulseStep

\* A latched request stays in its latch until its answer.
LEMMA LatchedStays ==
    ASSUME ServiceInv, Tick, NEW c \in Clients, latched[c].enable,
           ~(Complete /\ c = currentClient)
    PROVE  latched'[c] = latched[c]
<1>1. ~port[c].enable
    BY DEF ServiceInv, ClientInv
<1>2. CASE Latch({})
    BY <1>1, <1>2 DEF Latch, Listen
<1>3. CASE Complete /\ Latch({currentClient})
    BY <1>1, <1>3 DEF Latch, Listen
<1>. QED
    BY <1>2, <1>3, PulseStep

LEMMA PhaseStep ==
    ASSUME ServiceInv, OwnType', Tick, MemoryStep
    PROVE  (PulseInv /\ PhaseInv)'
<1>. USE DEF ServiceInv, MemoryStep
<1>1. CASE ScanNothing
    <2>1. \A c \in Clients : ~outCompleted'[c]
        BY <1>1 DEF ScanNothing, ClearOutput, PulseInv, OwnType
    <2>. QED
        BY <1>1, <2>1 DEF ScanNothing, ClearOutput, PulseInv, PhaseInv, OwnType, Clients, NoClient
<1>2. ASSUME NEW d \in Clients, Select(d)
      PROVE  (PulseInv /\ PhaseInv)'
    <2>1. latched[d].enable /\ latched'[d] = latched[d]
        <3>1. latched[d].enable /\ ~Complete
            BY <1>2 DEF Select, Selected, Complete
        <3>. QED
            BY <3>1, LatchedStays
    <2>2. \A c \in Clients : ~outCompleted'[c]
        BY <1>2 DEF Select, ClearOutput, PulseInv, OwnType
    <2>3. PulseInv'
        BY <1>2, <2>2 DEF Select, PulseInv
    <2>4. PhaseInv'
        BY <1>2, <2>1 DEF Select, ClearOutput, PhaseInv
    <2>. QED
        BY <2>3, <2>4
<1>3. CASE Release
    <2>1. latched'[currentClient] = latched[currentClient]
        BY <1>3, LatchedStays DEF Release, PhaseInv, OwnType, Complete
    <2>2. ~memory'.enable /\ memory'.address = memory.address /\ memory'.data = memory.data
        BY <1>3 DEF Release, OwnType, Requests
    <2>3. PulseInv'
        BY <1>3 DEF Release, PulseInv
    <2>4. PhaseInv'
        BY <1>3, <2>1, <2>2 DEF Release, PhaseInv
    <2>. QED
        BY <2>3, <2>4
<1>4. CASE KeepWaiting
    <2>1. latched'[currentClient] = latched[currentClient]
        BY <1>4, LatchedStays DEF KeepWaiting, PhaseInv, OwnType, Complete
    <2>2. PulseInv'
        BY <1>4 DEF KeepWaiting, PulseInv
    <2>3. PhaseInv'
        BY <1>4, <2>1 DEF KeepWaiting, PhaseInv
    <2>. QED
        BY <2>2, <2>3
<1>5. CASE Complete
    <2>1. PulseInv'
        BY <1>5 DEF Complete, PulseInv, OwnType
    <2>2. PhaseInv'
        BY <1>5 DEF Complete, PhaseInv
    <2>. QED
        BY <2>1, <2>2
<1>. QED
    BY <1>1, <1>2, <1>3, <1>4, <1>5 DEF Tick

\* A controller among neighbours that keep the protocol keeps its invariant.
LEMMA ServiceStep ==
    ConstantsOK /\ ServiceInv /\ NeighbourType' /\ Tick /\ Neighbours => ServiceInv'
<1>. SUFFICES ASSUME ConstantsOK, ServiceInv, NeighbourType', Tick, Neighbours
              PROVE  ServiceInv'
    OBVIOUS
<1>1. OwnType'
    BY OwnTypeStep
<1>2. \A c \in Clients : ClientInv(c)'
    BY ClientInvStep DEF Neighbours
<1>3. (PulseInv /\ PhaseInv)'
    BY <1>1, PhaseStep DEF Neighbours
<1>. QED
    BY <1>1, <1>2, <1>3 DEF ServiceInv

LEMMA ServiceInit ==
    ConstantsOK /\ NeighbourType /\ Init /\ ~memCompleted
        /\ (\A c \in Clients : ~port[c].enable /\ ~waiting[c]) => ServiceInv
<1>. SUFFICES ASSUME ConstantsOK, NeighbourType, Init, ~memCompleted,
                     \A c \in Clients : ~port[c].enable /\ ~waiting[c]
              PROVE  ServiceInv
    OBVIOUS
<1>1. OwnType
    <2>1. NoRequest \in Requests /\ ClientsCount - 1 \in Clients /\ 0 \in 0 .. CounterMod - 1
        BY DEF ConstantsOK, Requests, Clients
    <2>. QED
        BY <2>1 DEF ConstantsOK, Init, OwnType
<1>. QED
    BY <1>1 DEF ServiceInv, ClientInv, PulseInv, PhaseInv, Init, Clients, NoClient, ConstantsOK

-----------------------------------------------------------------------------
(* The controller passes the answer of the memory on.                      *)

\* The controller, or what is below it, holds the answer to client c.
Answers(c) == outCompleted[c] \/ (memServed /\ currentClient = c)
Answer(c) == IF outCompleted[c] THEN outData ELSE memAnswer

\* The memory answers by a completion what has taken effect while main waits.
ServedInv ==
    /\ memServed => phase = "wait"
    /\ memCompleted => memServed /\ memAnswer = memData

\* A client whose request is not latched has no answer but a completion.
LEMMA NotAnswered ==
    ASSUME ServiceInv, ServedInv, NEW c \in Clients, ~latched[c].enable, ~outCompleted[c]
    PROVE  ~Answers(c)
BY DEF ServiceInv, ServedInv, PhaseInv, Answers

\* The tick in which a request takes effect is the memory's; every other tick
\* leaves an answer, or the lack of one, as it is.
LEMMA AnswerStep ==
    ASSUME ServiceInv, ServedInv, ServedInv', Tick, NEW c \in Clients,
           waiting[c], ~outCompleted[c]
    PROVE  IF phase # "scan" /\ currentClient = c /\ ~memCompleted
           THEN /\ Answers(c) <=> memServed
                /\ Answer(c) = memAnswer
                /\ Answers(c)' <=> memServed'
                /\ Answer(c)' = memAnswer'
           ELSE /\ Answers(c)' <=> Answers(c)
                /\ Answers(c) /\ ~asked[c].write => Answer(c)' = Answer(c)
<1>0. phase \in {"scan", "drive", "wait"} /\ currentClient \in Clients
      /\ outCompleted \in [Clients -> BOOLEAN]
    BY DEF ServiceInv, OwnType
<1>1. CASE phase # "scan" /\ currentClient = c /\ ~memCompleted
    <2>1. ~Complete
        BY <1>1 DEF Complete
    <2>2. ~outCompleted'[c]
        BY <2>1, PulseStep
    <2>3. currentClient' = c
        BY <1>1, <2>1 DEF Tick, ScanNothing, Select, Release, KeepWaiting
    <2>. QED
        BY <1>1, <2>2, <2>3 DEF Answers, Answer
<1>2. CASE Complete
    <2>1. outCompleted'[c] <=> c = currentClient
        BY <1>2, PulseStep
    <2>2. phase = "wait" /\ memCompleted /\ phase' = "scan" /\ currentClient' = currentClient
        BY <1>2 DEF Complete
    <2>3. memServed /\ memAnswer = memData /\ ~memServed'
        BY <2>2 DEF ServedInv
    <2>4. c = currentClient /\ ~asked[c].write => outData' = memData
        <3>. SUFFICES ASSUME c = currentClient, ~asked[c].write PROVE outData' = memData
            OBVIOUS
        <3>1. latched[c] = asked[c] /\ memoryWrite = latched[c].write
            BY <2>2 DEF ServiceInv, PhaseInv, ClientInv
        <3>. QED
            BY <1>2, <3>1 DEF Complete
    <2>. QED
        BY <2>1, <2>2, <2>3, <2>4 DEF Answers, Answer
<1>3. CASE ~Complete /\ ~(phase # "scan" /\ currentClient = c /\ ~memCompleted)
    <2>1. ~outCompleted'[c]
        BY <1>3, PulseStep
    <2>2. memCompleted => phase = "wait" /\ Complete
        BY Completes DEF ServiceInv, PhaseInv
    <2>3. CASE phase = "scan"
        <3>1. phase' # "wait"
            BY <1>3, <2>3 DEF Tick, ScanNothing, Select, Release, KeepWaiting
        <3>. QED
            BY <2>1, <2>2, <2>3, <3>1, <1>3 DEF Answers, Answer, ServedInv
    <2>4. CASE phase # "scan"
        <3>1. currentClient # c /\ currentClient' = currentClient
            BY <1>3, <2>2, <2>4 DEF Tick, ScanNothing, Select, Release, KeepWaiting
        <3>. QED
            BY <2>1, <2>2, <2>4, <3>1, <1>3 DEF Answers, Answer
    <2>. QED
        BY <2>3, <2>4
<1>. QED
    BY <1>1, <1>2, <1>3, Completes DEF ServiceInv, PhaseInv
=============================================================================
