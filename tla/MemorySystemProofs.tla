-------------------------- MODULE MemorySystemProofs --------------------------
(***************************************************************************)
(* Theorems about MemorySystem, about the time its clients wait            *)
(* (MemoryLatency) and about the atomic memory it implements               *)
(* (MemoryRefinement), for any number of clients, any memory size, any set *)
(* of addresses and data.                                                  *)
(***************************************************************************)
EXTENDS MemoryLatency, MemoryRefinement, TLAPS

\* What block c asks for while it waits.
BlockAsks(c) == [port[c] EXCEPT !.enable = TRUE]

\* The controller between the blocks and the memory, which serves a request in
\* the tick in which it sees it.
Service == INSTANCE MemoryControllerProofs WITH
    Addresses <- Addresses \cup {0}, asked <- [c \in Clients |-> BlockAsks(c)],
    memServed <- memCompleted, memAnswer <- memData

-----------------------------------------------------------------------------
(* The inductive invariant: the controller serves its clients, main keeps  *)
(* step with the memory, and outBusy covers the service and the answer.    *)

LockStepInv == memCompleted <=> phase = "wait"

BusyInv == phase # "scan" \/ clientForOutputClear # Service!NoClient => outBusy

IInv == TypeOK /\ Service!ServiceInv /\ LockStepInv /\ BusyInv

-----------------------------------------------------------------------------
(* Types.                                                                  *)

LEMMA Constants == Service!ConstantsOK
BY CountsAssumption, DataAssumption DEF Service!ConstantsOK

\* The lemmas about controllers speak of this one.
LEMMA Same ==
    /\ Service!Clients = Clients
    /\ Service!Requests = Requests
    /\ Ram!Dwords = Dwords
    /\ Service!NoClient = Controller!NoClient
BY DEF Service!Clients, Clients, Service!Requests, Requests, Ram!Dwords, Dwords,
    Service!NoClient, Controller!NoClient

LEMMA SameTick == Controller!Tick <=> Service!Tick
BY DEF
    Controller!NoClient, Controller!NoRequest, Controller!Clients, Controller!StartClient,
    Controller!Listen, Controller!Latch, Controller!MemoryDone, Controller!Distance,
    Controller!Selected, Controller!Busy, Controller!ClearOutput, Controller!ScanNothing,
    Controller!Select, Controller!Release, Controller!KeepWaiting, Controller!Complete,
    Controller!Tick, Service!NoClient, Service!NoRequest, Service!Clients,
    Service!StartClient, Service!Listen, Service!Latch, Service!MemoryDone,
    Service!Distance, Service!Selected, Service!Busy, Service!ClearOutput,
    Service!ScanNothing, Service!Select, Service!Release, Service!KeepWaiting,
    Service!Complete, Service!Tick

LEMMA SameInit == Controller!Init <=> Service!Init
BY DEF Controller!Init, Service!Init, Controller!NoRequest, Service!NoRequest, Controller!NoClient,
    Service!NoClient, Controller!StartClient, Service!StartClient, Controller!Clients, Service!Clients

USE Same DEF Service!MemoryDone, Service!Busy, Service!StartClient, Service!NoRequest, Service!NoClient,
             Controller!NoClient, Blocks!Lowered, Blocks!Quiet

BlocksType ==
    /\ port \in [Clients -> Requests]
    /\ waiting \in [Clients -> BOOLEAN]
    /\ got \in [Clients -> Data]

RamType ==
    /\ rawMemory \in [Dwords -> Data]
    /\ memCompleted \in BOOLEAN
    /\ memData \in Data

LEMMA Types == TypeOK <=> BlocksType /\ RamType /\ Service!OwnType /\ outBusy \in BOOLEAN
BY DEF TypeOK, BlocksType, RamType, Service!OwnType

LEMMA NeighbourTypes == BlocksType /\ RamType => Service!NeighbourType
BY DEF BlocksType, RamType, Service!NeighbourType, BlockAsks, Requests

\* A byte address of the memory lies in one of its dwords.
LEMMA IndexInRange ==
    ASSUME NEW a \in Addresses \cup {0}
    PROVE  Ram!DwordIndex(a) \in Dwords
<1>1. a \in 0 .. 4 * MemorySize - 1
    BY CountsAssumption, ClientsAssumption
<1>. QED
    BY <1>1, CountsAssumption DEF Ram!DwordIndex, Dwords

LEMMA RamStep == ASSUME TypeOK, Ram!Work PROVE RamType'
<1>1. Ram!DwordIndex(memory.address) \in Dwords
    BY IndexInRange DEF TypeOK, Requests
<1>2. memory.data \in Data /\ memory.enable \in BOOLEAN
    BY DEF TypeOK, Requests
<1>. QED
    BY <1>1, <1>2, DataAssumption DEF TypeOK, Ram!Work, RamType

LEMMA BlocksTypeStep == ASSUME TypeOK, Blocks!Tick PROVE BlocksType'
<1>1. PICK choice \in [Blocks!Free -> Blocks!ReadRequests \cup Blocks!WriteRequests \cup {Blocks!Quiet}] :
        /\ port' = [c \in Clients |-> IF c \in Blocks!Free THEN choice[c]
                                      ELSE [port[c] EXCEPT !.enable = FALSE]]
        /\ waiting' = [c \in Clients |-> IF c \in Blocks!Free THEN choice[c].enable ELSE TRUE]
        /\ got' = [c \in Clients |-> IF Blocks!Returns(c) /\ ~port[c].write
                                     THEN [d \in Clients |-> outData][c] ELSE got[c]]
    BY DEF Blocks!Tick
<1>2. Blocks!ReadRequests \cup Blocks!WriteRequests \cup {Blocks!Quiet} \subseteq Requests
    <2>1. Blocks!ReadRequests \subseteq Requests
        BY DataAssumption DEF Blocks!ReadRequests, Requests
    <2>2. Blocks!WriteRequests \subseteq Requests
        BY DEF Blocks!WriteRequests, Requests
    <2>3. Blocks!Quiet \in Requests
        BY DataAssumption DEF Requests
    <2>. QED
        BY <2>1, <2>2, <2>3
<1>3. \A c \in Blocks!Free : choice[c] \in Requests
    BY <1>1, <1>2
<1>4. port' \in [Clients -> Requests]
    BY <1>1, <1>3 DEF TypeOK, Requests
<1>5. waiting' \in [Clients -> BOOLEAN]
    BY <1>1, <1>3 DEF TypeOK, Requests
<1>6. got' \in [Clients -> Data]
    BY <1>1 DEF TypeOK
<1>. QED
    BY <1>4, <1>5, <1>6 DEF BlocksType

-----------------------------------------------------------------------------
(* The life of a request.                                                  *)

\* A block in its wait loop only lowers its enable signal; one that is not, or
\* that sees its completion, decides anew.
LEMMA BlocksStep ==
    ASSUME TypeOK, Blocks!Tick, NEW c \in Clients
    PROVE  /\ waiting[c] /\ ~outCompleted[c] =>
                port'[c] = [port[c] EXCEPT !.enable = FALSE] /\ waiting'[c]
           /\ ~waiting[c] \/ outCompleted[c] => waiting'[c] = port'[c].enable
BY DEF Blocks!Tick, Blocks!Free, TypeOK

\* The blocks and the memory keep the protocol the controller relies on.
LEMMA KeepProtocol ==
    ASSUME IInv, Tick
    PROVE  Service!Neighbours
<1>1. Service!MemoryStep
    BY DEF Tick, Ram!Work, Service!MemoryStep, IInv, Service!ServiceInv, Service!PhaseInv
<1>2. ASSUME NEW c \in Clients
      PROVE  Service!ClientStep(c)
    <2>1. port[c] \in Requests /\ port'[c] \in Requests
        BY BlocksTypeStep DEF IInv, Tick, TypeOK, BlocksType
    <2>2. CASE waiting[c] /\ ~outCompleted[c]
        <3>1. port'[c] = [port[c] EXCEPT !.enable = FALSE] /\ waiting'[c]
            BY <2>2, BlocksStep DEF IInv, Tick
        <3>. QED
            BY <2>1, <2>2, <3>1 DEF Service!ClientStep, BlockAsks, Requests
    <2>3. CASE ~waiting[c] \/ outCompleted[c]
        <3>1. waiting'[c] = port'[c].enable
            BY <2>3, BlocksStep DEF IInv, Tick
        <3>. QED
            BY <2>1, <2>3, <3>1 DEF Service!ClientStep, BlockAsks, Requests
    <2>. QED
        BY <2>2, <2>3
<1>. QED
    BY <1>1, <1>2 DEF Service!Neighbours

\* main is at "drive" while the memory sees a request, at "wait" when it has
\* answered it, and outBusy is up until the answer has been given.
LEMMA MainStep ==
    ASSUME IInv, Tick
    PROVE  LockStepInv' /\ BusyInv' /\ outBusy' \in BOOLEAN
<1>1. Service!Tick /\ (memCompleted' <=> phase = "drive")
    BY SameTick DEF Tick, Ram!Work, IInv, Service!ServiceInv, Service!PhaseInv
<1>. USE DEF IInv, LockStepInv, BusyInv, TypeOK
<1>2. CASE Service!ScanNothing
    BY <1>1, <1>2 DEF Service!ScanNothing, Service!ClearOutput
<1>3. ASSUME NEW c \in Clients, Service!Select(c)
      PROVE  LockStepInv' /\ BusyInv' /\ outBusy' \in BOOLEAN
    BY <1>1, <1>3 DEF Service!Select
<1>4. CASE Service!Release
    BY <1>1, <1>4 DEF Service!Release
<1>5. CASE Service!KeepWaiting
    BY <1>1, <1>5 DEF Service!KeepWaiting
<1>6. CASE Service!Complete
    BY <1>1, <1>6 DEF Service!Complete
<1>. QED
    BY <1>1, <1>2, <1>3, <1>4, <1>5, <1>6 DEF Service!Tick

LEMMA InitIInv == Init => IInv
<1>. SUFFICES ASSUME Init PROVE IInv
    OBVIOUS
<1>1. Service!Init /\ Blocks!Init /\ Ram!Init
    BY SameInit DEF Init
<1>2. BlocksType /\ RamType
    BY <1>1, DataAssumption DEF Blocks!Init, Ram!Init, BlocksType, RamType, Requests
<1>3. Service!ServiceInv
    BY <1>1, <1>2, Constants, NeighbourTypes, Service!ServiceInit DEF Blocks!Init, Ram!Init
<1>. QED
    BY <1>1, <1>2, <1>3, Types DEF IInv, LockStepInv, BusyInv, Service!Init, Ram!Init, Service!ServiceInv

LEMMA TickIInv == IInv /\ [Tick]_vars => IInv'
<1>. SUFFICES ASSUME IInv, [Tick]_vars PROVE IInv'
    OBVIOUS
<1>1. CASE Tick
    <2>1. BlocksType' /\ RamType'
        BY <1>1, BlocksTypeStep, RamStep DEF IInv, Tick
    <2>2. Service!NeighbourType'
        <3>1. (BlocksType /\ RamType => Service!NeighbourType)'
            BY NeighbourTypes, PTL
        <3>. QED
            BY <2>1, <3>1
    <2>3. Service!ServiceInv'
        BY <1>1, <2>2, Constants, KeepProtocol, SameTick, Service!ServiceStep DEF IInv, Tick
    <2>4. TypeOK'
        <3>1. (BlocksType /\ RamType /\ Service!OwnType /\ outBusy \in BOOLEAN => TypeOK)'
            BY Types, PTL
        <3>. QED
            BY <1>1, <2>1, <2>3, <3>1, MainStep DEF Service!ServiceInv
    <2>. QED
        BY <1>1, <2>3, <2>4, MainStep DEF IInv
<1>2. CASE UNCHANGED vars
    <2>. USE <1>2 DEF vars, clientVars, controllerVars, memoryVars
    <2>1. TypeOK' /\ LockStepInv' /\ BusyInv'
        BY DEF IInv, TypeOK, LockStepInv, BusyInv
    <2>2. Service!ServiceInv'
        BY DEF IInv, BlockAsks, Service!ServiceInv, Service!OwnType, Service!NeighbourType,
            Service!ClientInv, Service!PulseInv, Service!PhaseInv
    <2>. QED
        BY <2>1, <2>2 DEF IInv
<1>. QED
    BY <1>1, <1>2

LEMMA Inductive == Spec => []IInv
BY InitIInv, TickIInv, PTL DEF Spec

\* The parts of the invariant that speak of one client.
LEMMA ClientFacts ==
    ASSUME IInv, NEW c \in Clients
    PROVE  /\ port[c] \in Requests
           /\ port[c].enable => waiting[c] /\ ~latched[c].enable /\ ~outCompleted[c]
           /\ latched[c].enable => /\ waiting[c] /\ ~outCompleted[c]
                                   /\ latched[c].write = port[c].write
                                   /\ latched[c].address = port[c].address
                                   /\ latched[c].data = port[c].data
           /\ outCompleted[c] => waiting[c]
           /\ waiting[c] => port[c].enable \/ latched[c].enable \/ outCompleted[c]
           /\ phase # "scan" /\ c = currentClient => latched[c].enable
BY DEF IInv, TypeOK, Requests, BlockAsks, Service!ServiceInv, Service!ClientInv, Service!PhaseInv

\* What a tick is for the controller, and what it knows before it.
LEMMA TickFacts ==
    ASSUME IInv, Tick
    PROVE  /\ Service!Tick /\ Service!ServiceInv /\ TypeOK
           /\ phase \in {"scan", "drive", "wait"}
           /\ memory.enable <=> phase = "drive"
           /\ memCompleted <=> phase = "wait"
           /\ memCompleted' <=> phase = "drive"
           /\ phase = "wait" => Service!Complete
<1>1. Service!Tick
    BY SameTick DEF Tick
<1>2. phase = "wait" => Service!Complete
    BY <1>1, Service!Completes DEF IInv, LockStepInv
<1>. QED
    BY <1>1, <1>2 DEF Tick, Ram!Work, IInv, TypeOK, LockStepInv, Service!ServiceInv, Service!PhaseInv

\* Whatever the clients ask for, the memory subsystem stays type-correct: its
\* memory is indexed only inside its range, its counters wrap around, and main
\* never leaves the range of its client numbers.
THEOREM TypeCorrect == Spec => []TypeOK
BY Inductive, PTL DEF IInv

\* A completion reaches the client that waits for it, and only that one: the
\* data on the shared output are its own.
THEOREM CompletionSafe == Spec => []CompletionReachesRequester
<1>1. IInv => CompletionReachesRequester
    BY ClientFacts DEF IInv, Service!ServiceInv, Service!PulseInv, CompletionReachesRequester
<1>. QED
    BY <1>1, Inductive, PTL

\* The two threads of the controller never write one enable latch in the same
\* tick, for any number of clients.
THEOREM LatchSafe == Spec => []LatchHasOneWriter
<1>1. IInv => LatchHasOneWriter
    BY ClientFacts DEF LatchHasOneWriter
<1>. QED
    BY <1>1, Inductive, PTL

\* No request is forgotten or changed between its block and its answer.
THEOREM RequestSafe == Spec => []RequestIsHeld
<1>1. IInv => RequestIsHeld
    BY ClientFacts DEF RequestIsHeld
<1>. QED
    BY <1>1, Inductive, PTL

\* An idle controller has nothing in the memory and nobody to answer.
THEOREM IdleSafe == Spec => []IdleMeansQuiet
<1>1. IInv => IdleMeansQuiet
    BY DEF IInv, LockStepInv, BusyInv, Service!ServiceInv, Service!PhaseInv, Service!PulseInv,
        IdleMeansQuiet, Clients
<1>. QED
    BY <1>1, Inductive, PTL

-----------------------------------------------------------------------------
(* How long a client waits.                                                *)

\* The ticks a latched request still waits at most: those of the request in
\* service, of one for each client that comes before c, and its own three.
Remaining(c) ==
    LET turns == 3 * (Service!Distance(c) + 1)
    IN  CASE ~latched[c].enable -> 0
          [] latched[c].enable /\ phase = "scan" -> turns
          [] latched[c].enable /\ phase # "scan" ->
                (IF phase = "drive" THEN 2 ELSE 1) + (IF c = currentClient THEN 0 ELSE turns)

\* The inductive invariant behind the bound.
LatencyInv ==
    \A c \in Clients :
        /\ age[c] \in Nat
        /\ port[c].enable \/ ~waiting[c] => age[c] = 0
        /\ age[c] + Remaining(c) <= WorstLatency

\* main's way from one client to another, without the modulus.
LEMMA Mod ==
    ASSUME NEW n \in Nat \ {0}, NEW x \in 0 .. 2 * n - 1
    PROVE  x % n = IF x < n THEN x ELSE x - n
OBVIOUS

LEMMA DistanceIs ==
    ASSUME TypeOK, NEW c \in Clients
    PROVE  Service!Distance(c) =
              IF c > currentClient THEN c - currentClient - 1 ELSE c - currentClient - 1 + ClientsCount
<1>. DEFINE x == c + ClientsCount - currentClient - 1
<1>1. ClientsCount \in Nat \ {0} /\ c \in Int /\ currentClient \in Int
    BY CountsAssumption DEF TypeOK, Clients
<1>2. x \in 0 .. 2 * ClientsCount - 1
    BY <1>1 DEF TypeOK, Clients
<1>3. x % ClientsCount = IF x < ClientsCount THEN x ELSE x - ClientsCount
    BY <1>1, <1>2, Mod
<1>. QED
    BY <1>1, <1>3 DEF Service!Distance, TypeOK, Clients

LEMMA DistanceType ==
    ASSUME TypeOK, NEW c \in Clients
    PROVE  /\ Service!Distance(c) \in 0 .. ClientsCount - 1
           /\ c # currentClient => Service!Distance(c) < ClientsCount - 1
<1>1. Service!Distance(c) =
            IF c > currentClient THEN c - currentClient - 1 ELSE c - currentClient - 1 + ClientsCount
    BY DistanceIs
<1>2. ClientsCount \in Nat \ {0} /\ c \in 0 .. ClientsCount - 1 /\ currentClient \in 0 .. ClientsCount - 1
    BY CountsAssumption DEF TypeOK, Clients
<1>. QED
    BY <1>1, <1>2

\* Serving a client that comes before c brings main nearer to c.
LEMMA ServingBringsNearer ==
    ASSUME TypeOK, TypeOK', NEW c \in Clients, NEW d \in Clients, d # c, currentClient' = d,
           Service!Distance(d) <= Service!Distance(c)
    PROVE  Service!Distance(c)' < Service!Distance(c)
<1>1. /\ Service!Distance(c) =
            IF c > currentClient THEN c - currentClient - 1 ELSE c - currentClient - 1 + ClientsCount
      /\ Service!Distance(d) =
            IF d > currentClient THEN d - currentClient - 1 ELSE d - currentClient - 1 + ClientsCount
    BY DistanceIs
<1>2. Service!Distance(c)' = IF c > d THEN c - d - 1 ELSE c - d - 1 + ClientsCount
    <2>. DEFINE x == c + ClientsCount - d - 1
    <2>1. ClientsCount \in Nat \ {0} /\ x \in 0 .. 2 * ClientsCount - 1
        BY CountsAssumption DEF Clients
    <2>2. x % ClientsCount = IF x < ClientsCount THEN x ELSE x - ClientsCount
        BY <2>1, Mod
    <2>. QED
        BY <2>1, <2>2 DEF Service!Distance, Clients
<1>. QED
    BY <1>1, <1>2, CountsAssumption DEF TypeOK, Clients

\* A client's latch, seen by the client: what is latched stays until it is answered.
LEMMA LatchedStep ==
    ASSUME IInv, Tick, NEW c \in Clients
    PROVE  /\ ~port[c].enable /\ ~latched[c].enable => ~latched'[c].enable
           /\ latched[c].enable /\ ~(phase = "wait" /\ c = currentClient) => latched'[c].enable
           /\ latched[c].enable /\ phase = "wait" /\ c = currentClient => ~latched'[c].enable
<1>1. Service!Tick /\ Service!ServiceInv /\ TypeOK /\ (latched[c].enable => ~port[c].enable)
    BY TickFacts, ClientFacts
<1>2. latched[c] \in Requests
    BY <1>1 DEF TypeOK
<1>3. CASE phase = "wait"
    <2>1. Service!Complete
        BY <1>3, TickFacts
    <2>2. Service!Latch({currentClient}) /\ (c = currentClient => ~port[c].enable)
        BY <1>1, <2>1, Service!CompleteFacts DEF Service!Complete
    <2>3. latched'[c] = IF c \in {currentClient} THEN [latched[c] EXCEPT !.enable = FALSE]
                        ELSE Service!Listen(c)
        BY <1>1, <2>2, Service!LatchStep
    <2>. QED
        BY <1>1, <1>2, <1>3, <2>3 DEF Service!Listen, Requests
<1>4. CASE phase # "wait"
    <2>1. Service!Latch({})
        BY <1>1, <1>4, Service!PulseStep DEF Service!Complete
    <2>2. latched'[c] = Service!Listen(c)
        BY <2>1 DEF Service!Latch
    <2>. QED
        BY <1>1, <1>4, <2>2 DEF Service!Listen
<1>. QED
    BY <1>3, <1>4

\* A tick takes a latched request nearer to its answer.
LEMMA RemainingFalls ==
    ASSUME IInv, IInv', Tick, NEW c \in Clients, latched[c].enable
    PROVE  Remaining(c)' \in Int /\ Remaining(c)' <= Remaining(c) - 1
<1>. PICK D \in Int : D = Service!Distance(c)
    BY DistanceType DEF IInv
<1>. PICK E \in Int : E = Service!Distance(c)'
    <2>1. TypeOK' /\ ClientsCount \in Nat \ {0}
        BY CountsAssumption DEF IInv
    <2>2. (c + ClientsCount - currentClient' - 1) \in Int
        BY <2>1 DEF TypeOK, Clients
    <2>. QED
        BY <2>1, <2>2 DEF Service!Distance
<1>1. TypeOK /\ TypeOK' /\ D >= 0 /\ Service!Tick
    BY DistanceType, TickFacts DEF IInv
<1>2. phase \in {"scan", "drive", "wait"}
    BY <1>1 DEF TypeOK
<1>3. CASE phase = "scan"
    <2>1. PICK d \in Clients : Service!Select(d)
        <3>1. ~Service!ScanNothing
            BY DEF Service!ScanNothing
        <3>. QED
            BY <1>1, <1>3, <3>1 DEF Service!Tick, Service!Release, Service!KeepWaiting, Service!Complete
    <2>2. phase' = "drive" /\ currentClient' = d /\ latched'[c].enable
        BY <1>3, <2>1, LatchedStep DEF Service!Select
    <2>3. Service!Distance(d) <= D
        BY <2>1 DEF Service!Select, Service!Selected
    <2>4. Remaining(c) = 3 * (D + 1)
        BY <1>3 DEF Remaining
    <2>5. Remaining(c)' = 2 + IF c = d THEN 0 ELSE 3 * (E + 1)
        BY <2>2 DEF Remaining
    <2>6. c # d => E < D
        BY <1>1, <2>2, <2>3, ServingBringsNearer
    <2>. QED
        BY <1>1, <2>4, <2>5, <2>6
<1>4. CASE phase = "drive"
    <2>1. Service!Release
        BY <1>1, <1>4 DEF Service!Tick, Service!ScanNothing, Service!Select, Service!KeepWaiting,
            Service!Complete
    <2>2. phase' = "wait" /\ currentClient' = currentClient /\ latched'[c].enable
        BY <1>4, <2>1, LatchedStep DEF Service!Release
    <2>3. E = D
        BY <2>2 DEF Service!Distance
    <2>4. Remaining(c) = 2 + IF c = currentClient THEN 0 ELSE 3 * (D + 1)
        BY <1>4 DEF Remaining
    <2>5. Remaining(c)' = 1 + IF c = currentClient THEN 0 ELSE 3 * (E + 1)
        BY <2>2 DEF Remaining
    <2>. QED
        BY <2>3, <2>4, <2>5
<1>5. CASE phase = "wait"
    <2>1. Service!Complete
        BY <1>5, TickFacts
    <2>2. phase' = "scan" /\ currentClient' = currentClient
        BY <2>1 DEF Service!Complete
    <2>3. latched'[c].enable <=> c # currentClient
        BY <1>1, <1>5, LatchedStep DEF TypeOK, Requests
    <2>4. E = D
        BY <2>2 DEF Service!Distance
    <2>5. Remaining(c) = 1 + IF c = currentClient THEN 0 ELSE 3 * (D + 1)
        BY <1>5 DEF Remaining
    <2>6. Remaining(c)' = IF c = currentClient THEN 0 ELSE 3 * (E + 1)
        BY <2>2, <2>3 DEF Remaining
    <2>. QED
        BY <2>4, <2>5, <2>6
<1>. QED
    BY <1>2, <1>3, <1>4, <1>5

\* A request that has just been latched waits for the request in service and for
\* each other client once.
LEMMA RemainingAtMost ==
    ASSUME IInv, NEW c \in Clients, phase # "scan" => c # currentClient
    PROVE  Remaining(c) \in Int /\ Remaining(c) <= WorstLatency - 1
<1>1. TypeOK /\ ClientsCount \in Nat \ {0}
    BY CountsAssumption DEF IInv
<1>. PICK D \in Int : D = Service!Distance(c)
    BY <1>1, DistanceType
<1>2. /\ D >= 0 /\ D <= ClientsCount - 1
      /\ phase # "scan" => D < ClientsCount - 1
    BY <1>1, DistanceType
<1>3. CASE ~latched[c].enable
    BY <1>1, <1>3 DEF Remaining, WorstLatency
<1>4. CASE latched[c].enable /\ phase = "scan"
    BY <1>1, <1>2, <1>4 DEF Remaining, WorstLatency
<1>5. CASE latched[c].enable /\ phase # "scan"
    BY <1>1, <1>2, <1>5 DEF Remaining, WorstLatency
<1>. QED
    BY <1>3, <1>4, <1>5

LEMMA LatencyStep == IInv /\ IInv' /\ LatencyInv /\ LatencyTick => LatencyInv'
<1>. SUFFICES ASSUME IInv, IInv', LatencyInv, LatencyTick, NEW c \in Clients
              PROVE  /\ age'[c] \in Nat
                     /\ port'[c].enable \/ ~waiting'[c] => age'[c] = 0
                     /\ age'[c] + Remaining(c)' <= WorstLatency
    BY DEF LatencyInv, WorstLatency
<1>1. Tick /\ TypeOK /\ ClientsCount \in Nat \ {0} /\ WorstLatency \in Nat
    BY CountsAssumption DEF LatencyTick, IInv, WorstLatency
<1>2. /\ age'[c] = IF waiting[c] /\ ~outCompleted[c] THEN age[c] + 1 ELSE 0
      /\ age[c] \in Nat /\ age[c] + Remaining(c) <= WorstLatency
      /\ port[c].enable => age[c] = 0
    BY DEF LatencyTick, LatencyInv
<1>3. /\ waiting[c] /\ ~outCompleted[c] => ~port'[c].enable /\ waiting'[c]
      /\ port[c] \in Requests
    BY <1>1, BlocksStep DEF Tick, TypeOK, Requests
<1>4. CASE latched[c].enable
    <2>1. waiting[c] /\ ~outCompleted[c]
        BY <1>4, ClientFacts
    <2>2. Remaining(c)' \in Int /\ Remaining(c)' <= Remaining(c) - 1
        BY <1>1, <1>4, RemainingFalls
    <2>3. Remaining(c) \in Int
        <3>. PICK D \in Int : D = Service!Distance(c)
            BY <1>1, DistanceType
        <3>. QED
            BY DEF Remaining
    <2>. QED
        BY <1>1, <1>2, <1>3, <2>1, <2>2, <2>3
<1>5. CASE port[c].enable
    <2>1. waiting[c] /\ ~outCompleted[c] /\ ~latched[c].enable
        BY <1>5, ClientFacts
    <2>2. phase' # "scan" => c # currentClient'
        <3>1. Service!Tick /\ (phase # "scan" => c # currentClient)
            BY <1>1, <2>1, TickFacts, ClientFacts
        <3>. QED
            BY <2>1, <3>1 DEF Service!Tick, Service!ScanNothing, Service!Select, Service!Selected,
                Service!Release, Service!KeepWaiting, Service!Complete
    <2>3. (IInv /\ (phase # "scan" => c # currentClient) =>
            Remaining(c) \in Int /\ Remaining(c) <= WorstLatency - 1)'
        BY RemainingAtMost, PTL
    <2>. QED
        BY <1>1, <1>2, <1>3, <1>5, <2>1, <2>2, <2>3
<1>6. CASE ~latched[c].enable /\ ~port[c].enable
    <2>1. ~waiting[c] \/ outCompleted[c]
        BY <1>6, ClientFacts
    <2>2. ~latched'[c].enable
        BY <1>1, <1>6, LatchedStep
    <2>. QED
        BY <1>1, <1>2, <2>1, <2>2 DEF Remaining
<1>. QED
    BY <1>4, <1>5, <1>6

\* Whatever the clients ask for and however many they are, a client is answered
\* within 4 ticks and 3 more for each other client.
THEOREM LatencyBound == LatencySpec => []AnsweredInTime
<1>1. LatencyInit => LatencyInv
    <2>. SUFFICES ASSUME LatencyInit, NEW c \in Clients
                  PROVE  age[c] = 0 /\ ~latched[c].enable
        BY CountsAssumption DEF LatencyInv, Remaining, WorstLatency
    <2>. QED
        BY SameInit DEF LatencyInit, Init, Service!Init
<1>2. IInv /\ LatencyInv /\ [LatencyTick]_<<vars, age>> => IInv' /\ LatencyInv'
    <2>. SUFFICES ASSUME IInv, LatencyInv, [LatencyTick]_<<vars, age>>
                  PROVE  IInv' /\ LatencyInv'
        OBVIOUS
    <2>1. CASE LatencyTick
        BY <2>1, TickIInv, LatencyStep DEF LatencyTick
    <2>2. CASE UNCHANGED <<vars, age>>
        <3>1. IInv'
            BY <2>2, TickIInv
        <3>2. LatencyInv'
            BY <2>2 DEF LatencyInv, Remaining, WorstLatency, Service!Distance, vars, clientVars,
                controllerVars
        <3>. QED
            BY <3>1, <3>2
    <2>. QED
        BY <2>1, <2>2
<1>3. IInv /\ LatencyInv => AnsweredInTime
    <2>. SUFFICES ASSUME IInv, LatencyInv, NEW c \in Clients
                  PROVE  age[c] <= WorstLatency
        BY DEF AnsweredInTime
    <2>1. Service!Distance(c) \in Nat
        BY DistanceType, CountsAssumption DEF IInv
    <2>2. Remaining(c) \in Nat
        BY <2>1 DEF Remaining
    <2>3. age[c] \in Nat /\ age[c] + Remaining(c) <= WorstLatency /\ WorstLatency \in Nat
        BY CountsAssumption DEF LatencyInv, WorstLatency
    <2>. QED
        BY <2>2, <2>3
<1>. QED
    BY InitIInv, <1>1, <1>2, <1>3, PTL DEF LatencySpec, LatencyInit

-----------------------------------------------------------------------------
(* The atomic memory.                                                      *)

\* The abstract call of each client is a call of the atomic memory.
LEMMA CallType == TypeOK => \A c \in Clients : CallOf(c) \in Atomic!Calls
<1>. SUFFICES ASSUME TypeOK, NEW c \in Clients PROVE CallOf(c) \in Atomic!Calls
    OBVIOUS
<1>1. port[c] \in Requests /\ outData \in Data /\ memData \in Data
    BY DEF TypeOK
<1>2. Ram!DwordIndex(port[c].address) \in Dwords
    BY <1>1, IndexInRange DEF Requests
<1>3. 0 \in Dwords
    BY CountsAssumption DEF Dwords
<1>. QED
    BY <1>1, <1>2, <1>3, DataAssumption DEF CallOf, Atomic!Calls, Atomic!Stages, Requests

LEMMA CallTypeNext == (TypeOK => \A c \in Clients : CallOf(c) \in Atomic!Calls)'
BY CallType, PTL

\* Only a latched request is driven to the memory, so a client that has just
\* asked, or has no request, is not being answered.
LEMMA NotAnswered ==
    ASSUME IInv, NEW c \in Clients, ~latched[c].enable
    PROVE  ~BeingAnswered(c)
BY ClientFacts DEF IInv, LockStepInv, BeingAnswered

\* A request on the ports is an open call.
LEMMA FreshCall ==
    IInv => \A c \in Clients : waiting[c] = port[c].enable => CallOf(c) \in Atomic!NextCalls
<1>. SUFFICES ASSUME IInv, NEW c \in Clients, waiting[c] = port[c].enable
              PROVE  CallOf(c) \in Atomic!NextCalls
    OBVIOUS
<1>1. CASE ~waiting[c]
    BY <1>1 DEF CallOf, Atomic!NextCalls, Atomic!NoCall
<1>2. CASE waiting[c]
    <2>1. ~outCompleted[c] /\ ~latched[c].enable
        BY <1>2, ClientFacts
    <2>2. CallOf(c).stage = "asked"
        BY <1>2, <2>1, NotAnswered DEF CallOf
    <2>. QED
        BY <2>2, CallType DEF IInv, Atomic!NextCalls
<1>3. waiting[c] \in BOOLEAN
    BY DEF IInv, TypeOK
<1>. QED
    BY <1>1, <1>2, <1>3

LEMMA FreshCallNext ==
    (IInv => \A c \in Clients : waiting[c] = port[c].enable => CallOf(c) \in Atomic!NextCalls)'
BY FreshCall, PTL

LEMMA SameCalls ==
    ASSUME NEW c \in Clients
    PROVE  /\ [d \in Clients |-> CallOf(d)][c] = CallOf(c)
           /\ [d \in Clients |-> CallOf(d)]'[c] = CallOf(c)'
OBVIOUS

\* What a client reads in a tick.
LEMMA GotStep ==
    ASSUME TypeOK, Blocks!Tick, NEW c \in Clients
    PROVE  got'[c] = IF waiting[c] /\ outCompleted[c] /\ ~port[c].write THEN outData ELSE got[c]
BY DEF Blocks!Tick, Blocks!Returns, TypeOK

\* A client that is not in its wait loop, or leaves it, takes its answer and
\* perhaps asks again.
LEMMA FreeProceeds ==
    ASSUME IInv, IInv', Blocks!Tick, NEW c \in Clients, ~waiting[c] \/ outCompleted[c]
    PROVE  Atomic!Proceed(c)
<1>1. waiting'[c] = port'[c].enable
    BY BlocksStep DEF IInv
<1>2. CallOf(c)' \in Atomic!NextCalls
    <2>1. (CallOf(c) \in Atomic!NextCalls)'
        BY <1>1, FreshCallNext
    <2>. QED
        BY <2>1
<1>3. got'[c] = IF waiting[c] /\ outCompleted[c] /\ ~port[c].write THEN outData ELSE got[c]
    BY GotStep DEF IInv
<1>4. CASE ~waiting[c]
    <2>1. CallOf(c).stage = "none" /\ got'[c] = got[c]
        BY <1>3, <1>4 DEF CallOf
    <2>. QED
        BY <1>2, <2>1, SameCalls DEF Atomic!Proceed
<1>5. CASE waiting[c] /\ outCompleted[c]
    <2>1. /\ CallOf(c).stage = "served"
          /\ CallOf(c).write = port[c].write
          /\ ~port[c].write => CallOf(c).data = outData
        BY <1>5 DEF CallOf
    <2>. QED
        BY <1>2, <1>3, <1>5, <2>1, SameCalls DEF Atomic!Proceed
<1>. QED
    BY <1>4, <1>5

\* A client that stays in its wait loop sees its call unchanged, but for the
\* tick in which the memory performs its operation.
LEMMA HeldProceeds ==
    ASSUME IInv, Tick, NEW c \in Clients, waiting[c], ~outCompleted[c],
           ~(phase = "drive" /\ c = currentClient)
    PROVE  Atomic!Proceed(c)
<1>1. /\ port'[c] = [port[c] EXCEPT !.enable = FALSE]
      /\ waiting'[c]
      /\ port[c] \in Requests
    BY BlocksStep DEF IInv, Tick, TypeOK
<1>2. /\ port'[c].write = port[c].write
      /\ port'[c].address = port[c].address
      /\ port'[c].data = port[c].data
    BY <1>1 DEF Requests
<1>3. got'[c] = got[c]
    BY GotStep DEF IInv, Tick
<1>4. CASE ~Service!Complete
    <2>1. phase # "wait" /\ ~memCompleted /\ ~outCompleted'[c]
        BY <1>4, TickFacts, Service!PulseStep
    <2>2. phase = "drive" => currentClient' = currentClient
        BY <1>4, TickFacts DEF Service!Tick, Service!ScanNothing, Service!Select, Service!Release,
                               Service!KeepWaiting
    <2>3. ~BeingAnswered(c) /\ ~BeingAnswered(c)'
        BY <2>1, <2>2, TickFacts DEF BeingAnswered
    <2>4. CallOf(c)' = CallOf(c)
        BY <1>1, <1>2, <2>1, <2>3 DEF CallOf
    <2>. QED
        BY <1>3, <2>4, SameCalls DEF Atomic!Proceed
<1>5. CASE Service!Complete
    <2>1. memCompleted /\ ~memCompleted'
        BY <1>5, TickFacts DEF Service!Complete
    <2>2. outCompleted'[c] <=> c = currentClient
        BY <1>5, TickFacts, Service!PulseStep
    <2>3. /\ BeingAnswered(c) <=> c = currentClient
          /\ ~BeingAnswered(c)'
        BY <2>1 DEF BeingAnswered
    <2>4. ASSUME c = currentClient, ~port[c].write
          PROVE  outData' = memData
        <3>1. latched[c].enable /\ memoryWrite = latched[c].write
            BY <2>1, <2>4, TickFacts DEF Service!ServiceInv, Service!PhaseInv
        <3>2. latched[c].write = port[c].write
            BY <3>1, ClientFacts
        <3>. QED
            BY <1>5, <2>4, <3>1, <3>2 DEF Service!Complete
    <2>5. CallOf(c)' = CallOf(c)
        BY <1>1, <1>2, <2>2, <2>3, <2>4 DEF CallOf
    <2>. QED
        BY <1>3, <2>5, SameCalls DEF Atomic!Proceed
<1>. QED
    BY <1>4, <1>5

\* The tick in which the memory performs an operation serves the client whose
\* request main has put on its ports.
LEMMA DriveServes ==
    ASSUME IInv, Tick, phase = "drive"
    PROVE  Atomic!Serve(currentClient)
<1>. SUFFICES ASSUME NEW c \in Clients, c = currentClient PROVE Atomic!Serve(c)
    BY DEF IInv, TypeOK
<1>. DEFINE index == Ram!DwordIndex(port[c].address)
<1>1. /\ port[c] \in Requests
      /\ latched[c].enable /\ waiting[c] /\ ~outCompleted[c]
      /\ memory.enable /\ ~memCompleted
    BY ClientFacts, TickFacts
<1>2. /\ memoryWrite = port[c].write
      /\ memory.write = port[c].write
      /\ memory.address = port[c].address
      /\ port[c].write => memory.data = port[c].data
    BY <1>1, ClientFacts, TickFacts DEF Service!ServiceInv, Service!PhaseInv
<1>3. /\ port'[c] = [port[c] EXCEPT !.enable = FALSE]
      /\ waiting'[c]
      /\ got'[c] = got[c]
    BY <1>1, BlocksStep, GotStep DEF IInv, Tick
<1>4. /\ port'[c].write = port[c].write
      /\ port'[c].address = port[c].address
      /\ port'[c].data = port[c].data
    BY <1>1, <1>3 DEF Requests
<1>5. Service!Release
    BY TickFacts DEF Service!Tick, Service!ScanNothing, Service!Select, Service!KeepWaiting,
                     Service!Complete
<1>6. UNCHANGED <<outCompleted, currentClient, memoryWrite, outReadsPerformed,
                 outWritesPerformed>>
    BY <1>5 DEF Service!Release
<1>7. /\ memCompleted'
      /\ memData' = IF ~port[c].write THEN rawMemory[index] ELSE 0
      /\ rawMemory' = IF port[c].write THEN [rawMemory EXCEPT ![index] = port[c].data]
                      ELSE rawMemory
    BY <1>1, <1>2 DEF Tick, Ram!Work
<1>8. CallOf(c) = [stage |-> "asked", write |-> port[c].write, index |-> index,
                   data |-> IF port[c].write THEN port[c].data ELSE 0]
    BY <1>1 DEF CallOf, BeingAnswered
<1>9. CallOf(c)' = [stage |-> "served", write |-> port[c].write, index |-> index,
                    data |-> IF port[c].write THEN port[c].data ELSE rawMemory[index]]
    BY <1>1, <1>3, <1>4, <1>6, <1>7 DEF CallOf, BeingAnswered
<1>10. /\ Performed(outReadsPerformed, FALSE)' =
            IF port[c].write THEN Performed(outReadsPerformed, FALSE)
            ELSE (Performed(outReadsPerformed, FALSE) + 1) % CounterMod
       /\ Performed(outWritesPerformed, TRUE)' =
            IF port[c].write THEN (Performed(outWritesPerformed, TRUE) + 1) % CounterMod
            ELSE Performed(outWritesPerformed, TRUE)
    <2>1. port[c].write \in BOOLEAN
        BY <1>1 DEF Requests
    <2>. QED
        BY <1>1, <1>2, <1>6, <1>7, <2>1 DEF Performed
<1>. DEFINE k == CallOf(c)
<1>11. /\ k.stage = "asked" /\ k.write = port[c].write /\ k.index = index
       /\ k.write => k.data = port[c].data
       /\ [d \in Clients |-> CallOf(d)][c] = k
    BY <1>8
<1>12. CallOf(c)' = [stage |-> "served", write |-> k.write, index |-> k.index,
                     data |-> IF k.write THEN k.data ELSE rawMemory[k.index]]
    BY <1>9, <1>11
<1>. HIDE DEF k, index
<1>. QED
    BY <1>1, <1>3, <1>7, <1>10, <1>11, <1>12, SameCalls DEF Atomic!Serve, k

\* In every other tick the array and the numbers of operations stay the same.
LEMMA OtherwiseNothing ==
    ASSUME IInv, Tick, phase # "drive"
    PROVE  UNCHANGED <<rawMemory, Performed(outReadsPerformed, FALSE),
                       Performed(outWritesPerformed, TRUE)>>
<1>1. rawMemory' = rawMemory /\ ~memCompleted'
    BY TickFacts DEF Tick, Ram!Work
<1>2. CASE Service!Complete
    <2>1. memCompleted /\ memoryWrite \in BOOLEAN
        BY <1>2, TickFacts DEF Service!Complete, TypeOK
    <2>. QED
        BY <1>1, <1>2, <2>1 DEF Service!Complete, Performed
<1>3. CASE ~Service!Complete
    <2>1. ~memCompleted
        BY <1>3, TickFacts
    <2>2. UNCHANGED <<outReadsPerformed, outWritesPerformed>>
        BY <1>3, TickFacts DEF Service!Tick, Service!ScanNothing, Service!Select, Service!Release,
                               Service!KeepWaiting
    <2>. QED
        BY <1>1, <2>1, <2>2 DEF Performed
<1>. QED
    BY <1>2, <1>3

\* One tick of the memory subsystem is a step of the atomic memory.
LEMMA TickIsAtomic ==
    ASSUME IInv, IInv', Tick
    PROVE  Atomic!Next
<1>1. [c \in Clients |-> CallOf(c)]' \in [Clients -> Atomic!Calls] /\ got' \in [Clients -> Data]
    BY CallTypeNext DEF IInv, TypeOK
<1>2. \A c \in Clients : ~(phase = "drive" /\ c = currentClient) => Atomic!Proceed(c)
    BY FreeProceeds, HeldProceeds DEF Tick
<1>3. CASE phase = "drive"
    <2>1. currentClient \in Clients /\ Atomic!Serve(currentClient)
        BY <1>3, DriveServes DEF IInv, TypeOK
    <2>2. \A c \in Clients \ {currentClient} : Atomic!Proceed(c)
        BY <1>2
    <2>. QED
        BY <1>1, <2>1, <2>2 DEF Atomic!Next
<1>4. CASE phase # "drive"
    <2>1. \A c \in Clients : Atomic!Proceed(c)
        BY <1>2, <1>4
    <2>. QED
        BY <1>1, <1>4, <2>1, OtherwiseNothing DEF Atomic!Next
<1>. QED
    BY <1>3, <1>4

\* The memory begins empty and without calls.
LEMMA InitAtomic == Init => Atomic!Init
<1>. SUFFICES ASSUME Init PROVE Atomic!Init
    OBVIOUS
<1>1. \A c \in Clients : CallOf(c) = Atomic!NoCall
    BY DEF Init, Blocks!Init, CallOf, Atomic!NoCall
<1>2. got = [c \in Clients |-> 0] /\ rawMemory = [i \in Dwords |-> 0]
    BY DEF Init, Blocks!Init, Ram!Init
<1>3. /\ phase = "scan" /\ ~memCompleted
      /\ outReadsPerformed = 0 /\ outWritesPerformed = 0
    BY SameInit DEF Init, Service!Init, Ram!Init
<1>. QED
    BY <1>1, <1>2, <1>3 DEF Atomic!Init, Performed

\* Nothing of the atomic memory depends on anything but the subsystem.
LEMMA StutterAtomic == UNCHANGED vars => UNCHANGED Atomic!vars
BY DEF vars, clientVars, controllerVars, memoryVars, Atomic!vars, CallOf, BeingAnswered, Performed

\* For any number of clients, any memory and any addresses and data, the memory
\* subsystem is linearizable: it implements the atomic memory, the instant of an
\* access being the tick in which memory.h performs it.
THEOREM Refinement == Spec => Linearizable
<1>1. IInv /\ IInv' /\ [Tick]_vars => [Atomic!Next]_(Atomic!vars)
    BY TickIsAtomic, StutterAtomic
<1>. QED
    BY <1>1, InitIInv, TickIInv, InitAtomic, PTL DEF Spec, Linearizable, Atomic!Spec
=============================================================================
