--------------------------- MODULE MemoryChainProofs ---------------------------
(***************************************************************************)
(* A chain of two controllers implements the atomic memory, for any        *)
(* numbers of blocks on either controller, any memory size, any addresses  *)
(* and data.                                                               *)
(***************************************************************************)
EXTENDS MemoryChain, TLAPS

\* Block c asks for what is on its ports; the outer controller asks the inner
\* one for what it drives, though it lowers write along with enable.
BlockAsks(c) == [port[c] EXCEPT !.enable = TRUE]
LinkAsks == [enable |-> TRUE, write |-> outerWrite, address |-> link.address, data |-> link.data]

\* The block connected to the inner controller as its client s.
Block(s) == s - 1 + OuterCount

OuterService == INSTANCE MemoryControllerProofs WITH
    ClientsCount <- OuterCount, Addresses <- Addresses \cup {0},
    latched <- outerLatched, outCompleted <- outerCompleted, outData <- outerData,
    memory <- link, memCompleted <- innerCompleted[0], memData <- innerData,
    phase <- outerPhase, currentClient <- outerCurrent,
    clientForOutputClear <- outerClear, memoryWrite <- outerWrite,
    outBusy <- outerBusy, outReadsPerformed <- outerReads, outWritesPerformed <- outerWrites,
    asked <- [c \in Clients |-> BlockAsks(c)],
    memServed <- InnerAnswers(0), memAnswer <- InnerAnswer(0)

InnerService == INSTANCE MemoryControllerProofs WITH
    ClientsCount <- DirectCount + 1, Addresses <- Addresses \cup {0}, port <- InnerPort,
    latched <- innerLatched, outCompleted <- innerCompleted, outData <- innerData,
    phase <- innerPhase, currentClient <- innerCurrent,
    clientForOutputClear <- innerClear, memoryWrite <- innerWrite,
    outBusy <- innerBusy, outReadsPerformed <- innerReads, outWritesPerformed <- innerWrites,
    waiting <- [s \in 0 .. DirectCount |->
                    IF s = 0 THEN outerPhase # "scan" ELSE waiting[Block(s)]],
    asked <- [s \in 0 .. DirectCount |-> IF s = 0 THEN LinkAsks ELSE BlockAsks(Block(s))],
    memServed <- memCompleted, memAnswer <- memData

Requests == [enable : BOOLEAN, write : BOOLEAN, address : Addresses \cup {0}, data : Data]

BlocksType ==
    /\ port \in [Clients -> Requests]
    /\ waiting \in [Clients -> BOOLEAN]
    /\ got \in [Clients -> Data]

RamType ==
    /\ rawMemory \in [Dwords -> Data]
    /\ memCompleted \in BOOLEAN
    /\ memData \in Data

\* The inductive invariant: either controller serves its clients, the outer one
\* as a client of the inner one, and the inner one keeps step with the memory.
ChainInv ==
    /\ BlocksType /\ RamType
    /\ OuterService!ServiceInv
    /\ InnerService!ServiceInv
    /\ memCompleted <=> innerPhase = "wait"

-----------------------------------------------------------------------------
(* The two controllers and their clients.                                  *)

LEMMA Constants == OuterService!ConstantsOK /\ InnerService!ConstantsOK
BY ChainAssumption DEF OuterService!ConstantsOK, InnerService!ConstantsOK

LEMMA Numbers ==
    /\ OuterService!Clients = Outer
    /\ InnerService!Clients = 0 .. DirectCount
    /\ Ram!Dwords = Dwords
    /\ 0 \in 0 .. DirectCount
    /\ Outer \subseteq Clients
    /\ \A c \in Clients \ Outer : Slot(c) \in 0 .. DirectCount /\ Slot(c) # 0 /\ Block(Slot(c)) = c
    /\ \A s \in 0 .. DirectCount : s # 0 =>
            Block(s) \in Clients \ Outer /\ Slot(Block(s)) = s
BY ChainAssumption
DEF OuterService!Clients, InnerService!Clients, Outer, Clients, Slot, Block, Ram!Dwords, Dwords

\* The lemmas speak of the controllers of the chain.
LEMMA OuterTick == OuterController!Tick <=> OuterService!Tick
BY DEF
    OuterController!NoClient, OuterController!NoRequest, OuterController!Clients,
    OuterController!StartClient, OuterController!Listen, OuterController!Latch,
    OuterController!MemoryDone, OuterController!Distance, OuterController!Selected,
    OuterController!Busy, OuterController!ClearOutput, OuterController!ScanNothing,
    OuterController!Select, OuterController!Release, OuterController!KeepWaiting,
    OuterController!Complete, OuterController!Tick, OuterService!NoClient,
    OuterService!NoRequest, OuterService!Clients, OuterService!StartClient,
    OuterService!Listen, OuterService!Latch, OuterService!MemoryDone, OuterService!Distance,
    OuterService!Selected, OuterService!Busy, OuterService!ClearOutput,
    OuterService!ScanNothing, OuterService!Select, OuterService!Release,
    OuterService!KeepWaiting, OuterService!Complete, OuterService!Tick

LEMMA InnerTick == InnerController!Tick <=> InnerService!Tick
BY DEF
    InnerController!NoClient, InnerController!NoRequest, InnerController!Clients,
    InnerController!StartClient, InnerController!Listen, InnerController!Latch,
    InnerController!MemoryDone, InnerController!Distance, InnerController!Selected,
    InnerController!Busy, InnerController!ClearOutput, InnerController!ScanNothing,
    InnerController!Select, InnerController!Release, InnerController!KeepWaiting,
    InnerController!Complete, InnerController!Tick, InnerService!NoClient,
    InnerService!NoRequest, InnerService!Clients, InnerService!StartClient,
    InnerService!Listen, InnerService!Latch, InnerService!MemoryDone, InnerService!Distance,
    InnerService!Selected, InnerService!Busy, InnerService!ClearOutput,
    InnerService!ScanNothing, InnerService!Select, InnerService!Release,
    InnerService!KeepWaiting, InnerService!Complete, InnerService!Tick

LEMMA Inits ==
    /\ OuterController!Init <=> OuterService!Init
    /\ InnerController!Init <=> InnerService!Init
BY DEF OuterController!Init, OuterService!Init, InnerController!Init, InnerService!Init,
    OuterController!NoRequest, OuterService!NoRequest, InnerController!NoRequest, InnerService!NoRequest,
    OuterController!NoClient, OuterService!NoClient, InnerController!NoClient, InnerService!NoClient,
    OuterController!StartClient, OuterService!StartClient, InnerController!StartClient,
    InnerService!StartClient, OuterController!Clients, OuterService!Clients, InnerController!Clients,
    InnerService!Clients

\* Client c's completion and data, whichever controller it is connected to.
Completed(c) == IF c \in Outer THEN outerCompleted[c] ELSE innerCompleted[Slot(c)]
DataFor(c) == IF c \in Outer THEN outerData ELSE innerData

LEMMA SameTypes == OuterService!Requests = Requests /\ InnerService!Requests = Requests
BY DEF OuterService!Requests, InnerService!Requests, Requests

\* The types of the signals a block sees.
LEMMA SignalTypes ==
    ASSUME ChainInv
    PROVE  /\ outerCompleted \in [Outer -> BOOLEAN]
           /\ innerCompleted \in [0 .. DirectCount -> BOOLEAN]
           /\ outerLatched \in [Outer -> Requests]
           /\ innerLatched \in [0 .. DirectCount -> Requests]
           /\ outerData \in Data /\ innerData \in Data
           /\ link \in Requests /\ memory \in Requests
           /\ outerCurrent \in Outer /\ innerCurrent \in 0 .. DirectCount
           /\ outerPhase \in {"scan", "drive", "wait"}
           /\ innerPhase \in {"scan", "drive", "wait"}
           /\ outerWrite \in BOOLEAN /\ innerWrite \in BOOLEAN
           /\ innerReads \in 0 .. CounterMod - 1 /\ innerWrites \in 0 .. CounterMod - 1
BY Numbers, SameTypes
DEF ChainInv, OuterService!ServiceInv, InnerService!ServiceInv, OuterService!OwnType, InnerService!OwnType

\* A block in its wait loop only lowers its enable signal; one that is not, or
\* that sees its completion, decides anew.
LEMMA BlocksStep ==
    ASSUME ChainInv, Blocks!Tick
    PROVE  /\ BlocksType'
           /\ \A c \in Clients :
                /\ waiting[c] /\ ~Completed(c) =>
                        port'[c] = [port[c] EXCEPT !.enable = FALSE] /\ waiting'[c]
                /\ ~waiting[c] \/ Completed(c) => waiting'[c] = port'[c].enable
                /\ got'[c] = IF waiting[c] /\ Completed(c) /\ ~port[c].write
                             THEN DataFor(c) ELSE got[c]
<1>1. PICK choice \in [Blocks!Free -> Blocks!ReadRequests \cup Blocks!WriteRequests \cup {Blocks!Quiet}] :
        /\ port' = [c \in Clients |-> IF c \in Blocks!Free THEN choice[c]
                                      ELSE [port[c] EXCEPT !.enable = FALSE]]
        /\ waiting' = [c \in Clients |-> IF c \in Blocks!Free THEN choice[c].enable ELSE TRUE]
        /\ got' = [c \in Clients |-> IF Blocks!Returns(c) /\ ~port[c].write
                                     THEN DataFor(c) ELSE got[c]]
    BY DEF Blocks!Tick, Blocks!Lowered, DataFor
<1>2. Blocks!ReadRequests \cup Blocks!WriteRequests \cup {Blocks!Quiet} \subseteq Requests
    <2>1. Blocks!ReadRequests \subseteq Requests
        BY ChainAssumption DEF Blocks!ReadRequests, Requests
    <2>2. Blocks!WriteRequests \subseteq Requests
        BY DEF Blocks!WriteRequests, Requests
    <2>3. Blocks!Quiet \in Requests
        BY ChainAssumption DEF Requests, Blocks!Quiet
    <2>. QED
        BY <2>1, <2>2, <2>3
<1>3. \A c \in Blocks!Free : choice[c] \in Requests /\ choice[c].enable \in BOOLEAN
    BY <1>1, <1>2 DEF Requests
<1>4. \A c \in Clients : /\ Blocks!Returns(c) <=> waiting[c] /\ Completed(c)
                         /\ c \in Blocks!Free <=> (waiting[c] => Completed(c))
                         /\ DataFor(c) \in Data
    BY SignalTypes DEF Blocks!Returns, Blocks!Free, Completed, DataFor
<1>5. BlocksType'
    <2>1. port \in [Clients -> Requests] /\ got \in [Clients -> Data]
        BY DEF ChainInv, BlocksType
    <2>2. \A c \in Clients : [port[c] EXCEPT !.enable = FALSE] \in Requests
        BY <2>1 DEF Requests
    <2>3. port' \in [Clients -> Requests]
        BY <1>1, <1>3, <2>2
    <2>4. waiting' \in [Clients -> BOOLEAN]
        BY <1>1, <1>3
    <2>5. got' \in [Clients -> Data]
        BY <1>1, <1>4, <2>1
    <2>. QED
        BY <2>3, <2>4, <2>5 DEF BlocksType
<1>6. ASSUME NEW c \in Clients
      PROVE  /\ waiting[c] /\ ~Completed(c) =>
                    port'[c] = [port[c] EXCEPT !.enable = FALSE] /\ waiting'[c]
             /\ ~waiting[c] \/ Completed(c) => waiting'[c] = port'[c].enable
             /\ got'[c] = IF waiting[c] /\ Completed(c) /\ ~port[c].write
                          THEN DataFor(c) ELSE got[c]
    BY <1>1, <1>4
<1>. QED
    BY <1>5, <1>6
-----------------------------------------------------------------------------
(* The invariant.                                                          *)

\* What a client of either controller waits for, by the client's number.
LEMMA Views ==
    /\ \A s \in 0 .. DirectCount : s # 0 => InnerPort[s] = port[Block(s)]
    /\ InnerPort[0] = link
    /\ \A s \in 0 .. DirectCount : s # 0 => InnerPort'[s] = port'[Block(s)]
    /\ InnerPort'[0] = link'
BY Numbers DEF InnerPort, Block

LEMMA NeighbourTypes ==
    BlocksType /\ RamType /\ OuterService!OwnType /\ InnerService!OwnType
        => OuterService!NeighbourType /\ InnerService!NeighbourType
<1>. SUFFICES ASSUME BlocksType, RamType, OuterService!OwnType, InnerService!OwnType
              PROVE  OuterService!NeighbourType /\ InnerService!NeighbourType
    OBVIOUS
<1>1. \A c \in Clients : port[c] \in Requests /\ waiting[c] \in BOOLEAN /\ BlockAsks(c) \in Requests
                         /\ BlockAsks(c).enable
    BY DEF BlocksType, Requests, BlockAsks
<1>2. link \in Requests /\ outerWrite \in BOOLEAN /\ outerPhase \in {"scan", "drive", "wait"}
    BY SameTypes DEF OuterService!OwnType
<1>3. LinkAsks \in Requests /\ LinkAsks.enable
    BY <1>2 DEF LinkAsks, Requests
<1>4. innerCompleted[0] \in BOOLEAN /\ innerData \in Data
    BY Numbers DEF InnerService!OwnType
<1>5. OuterService!NeighbourType
    BY <1>1, <1>4, Numbers, SameTypes DEF OuterService!NeighbourType
<1>6. \A s \in 0 .. DirectCount : InnerPort[s] \in Requests
    BY <1>1, <1>2, Numbers, Views
<1>7. InnerService!NeighbourType
    BY <1>1, <1>2, <1>3, <1>6, Numbers, SameTypes DEF InnerService!NeighbourType, RamType
<1>. QED
    BY <1>5, <1>7

\* The blocks keep the protocol their controllers rely on.
LEMMA BlockKeepsProtocol ==
    ASSUME ChainInv, Blocks!Tick, NEW c \in Clients
    PROVE  /\ waiting[c] /\ ~Completed(c) =>
                waiting'[c] /\ ~port'[c].enable /\ BlockAsks(c)' = BlockAsks(c)
           /\ ~waiting[c] \/ Completed(c) =>
                /\ waiting'[c] = port'[c].enable
                /\ port'[c].enable => port'[c] = BlockAsks(c)'
<1>1. port[c] \in Requests /\ port'[c] \in Requests
    BY BlocksStep DEF ChainInv, BlocksType
<1>2. CASE waiting[c] /\ ~Completed(c)
    <2>1. port'[c] = [port[c] EXCEPT !.enable = FALSE] /\ waiting'[c]
        BY <1>2, BlocksStep
    <2>. QED
        BY <1>1, <1>2, <2>1 DEF BlockAsks, Requests
<1>3. CASE ~waiting[c] \/ Completed(c)
    <2>1. waiting'[c] = port'[c].enable
        BY <1>3, BlocksStep
    <2>. QED
        BY <1>1, <1>3, <2>1 DEF BlockAsks, Requests
<1>. QED
    BY <1>2, <1>3

\* The inner controller answers the outer one only when it waits, and once.
LEMMA OuterNeighbours ==
    ASSUME ChainInv, Blocks!Tick, InnerService!Tick
    PROVE  OuterService!Neighbours
<1>1. OuterService!MemoryStep
    <2>1. ASSUME innerCompleted'[0]
          PROVE  outerPhase # "scan" /\ ~innerCompleted[0]
        <3>1. InnerService!Complete /\ 0 = innerCurrent
            BY <2>1, InnerService!PulseStep, Numbers DEF ChainInv
        <3>2. /\ [s \in 0 .. DirectCount |-> IF s = 0 THEN outerPhase # "scan"
                                             ELSE waiting[Block(s)]][innerCurrent]
              /\ ~innerCompleted[innerCurrent]
            BY <3>1, InnerService!CompleteFacts DEF ChainInv
        <3>. QED
            BY <3>1, <3>2, Numbers
    <2>. QED
        BY <2>1, SignalTypes DEF OuterService!MemoryStep
<1>2. ASSUME NEW c \in Outer
      PROVE  OuterService!ClientStep(c)
    <2>1. c \in Clients /\ Completed(c) = outerCompleted[c]
        BY Numbers DEF Completed
    <2>. QED
        BY <2>1, BlockKeepsProtocol DEF OuterService!ClientStep
<1>. QED
    BY <1>1, <1>2, Numbers DEF OuterService!Neighbours

\* The outer controller is a client like any block.
LEMMA LinkKeepsProtocol ==
    ASSUME ChainInv, OuterService!Tick
    PROVE  /\ outerPhase # "scan" /\ ~innerCompleted[0] =>
                outerPhase' # "scan" /\ ~link'.enable /\ LinkAsks' = LinkAsks
           /\ outerPhase = "scan" \/ innerCompleted[0] =>
                /\ (outerPhase' # "scan") = link'.enable
                /\ link'.enable => link' = LinkAsks'
<1>1. /\ link \in Requests
      /\ outerPhase \in {"scan", "drive", "wait"}
      /\ link.enable <=> outerPhase = "drive"
      /\ innerCompleted[0] => outerPhase = "wait"
    BY SignalTypes DEF ChainInv, OuterService!ServiceInv, OuterService!PhaseInv
<1>. USE DEF OuterService!MemoryDone
<1>2. CASE OuterService!ScanNothing
    <2>1. outerPhase' = outerPhase /\ link' = link /\ outerPhase = "scan"
        BY <1>2 DEF OuterService!ScanNothing
    <2>2. link.enable = FALSE /\ ~innerCompleted[0]
        BY <1>1, <2>1 DEF Requests
    <2>. QED
        BY <2>1, <2>2
<1>3. ASSUME NEW c \in OuterService!Clients, OuterService!Select(c)
      PROVE  /\ outerPhase = "scan" /\ outerPhase' # "scan"
             /\ link'.enable /\ link' = LinkAsks'
    <2>1. outerLatched[c] \in Requests
        BY SignalTypes, Numbers
    <2>. QED
        BY <1>3, <2>1 DEF OuterService!Select, LinkAsks, Requests
<1>4. CASE OuterService!Release
    BY <1>1, <1>4 DEF OuterService!Release, LinkAsks, Requests
<1>5. CASE OuterService!KeepWaiting
    BY <1>1, <1>5 DEF OuterService!KeepWaiting, LinkAsks, Requests
<1>6. CASE OuterService!Complete
    BY <1>1, <1>6 DEF OuterService!Complete, LinkAsks, Requests
<1>. QED
    BY <1>1, <1>2, <1>3, <1>4, <1>5, <1>6 DEF OuterService!Tick

LEMMA InnerNeighbours ==
    ASSUME ChainInv, Blocks!Tick, OuterService!Tick, Ram!Work
    PROVE  InnerService!Neighbours
<1>1. InnerService!MemoryStep
    BY DEF Ram!Work, InnerService!MemoryStep, ChainInv, InnerService!ServiceInv, InnerService!PhaseInv
<1>2. ASSUME NEW s \in 0 .. DirectCount
      PROVE  InnerService!ClientStep(s)
    <2>1. CASE s = 0
        BY <2>1, LinkKeepsProtocol, Numbers, Views DEF InnerService!ClientStep
    <2>2. CASE s # 0
        <3>. PICK c \in Clients : c = Block(s) /\ Completed(c) = innerCompleted[s]
            BY <2>2, Numbers DEF Completed
        <3>1. /\ waiting[c] /\ ~Completed(c) =>
                    waiting'[c] /\ ~port'[c].enable /\ BlockAsks(c)' = BlockAsks(c)
              /\ ~waiting[c] \/ Completed(c) =>
                    /\ waiting'[c] = port'[c].enable
                    /\ port'[c].enable => port'[c] = BlockAsks(c)'
            BY BlockKeepsProtocol
        <3>. QED
            BY <2>2, <3>1, Views DEF InnerService!ClientStep, BlockAsks
    <2>. QED
        BY <2>1, <2>2
<1>. QED
    BY <1>1, <1>2, Numbers DEF InnerService!Neighbours

\* A byte address of the memory lies in one of its dwords.
LEMMA IndexInRange ==
    ASSUME NEW a \in Addresses \cup {0}
    PROVE  Ram!DwordIndex(a) \in Dwords
<1>1. a \in 0 .. 4 * MemorySize - 1
    BY ChainAssumption
<1>. QED
    BY <1>1, ChainAssumption DEF Ram!DwordIndex, Dwords

LEMMA RamStep ==
    ASSUME ChainInv, Ram!Work
    PROVE  RamType'
<1>1. memory \in Requests
    BY SignalTypes
<1>2. Ram!DwordIndex(memory.address) \in Dwords /\ memory.data \in Data /\ memory.enable \in BOOLEAN
    BY <1>1, IndexInRange DEF Requests
<1>. QED
    BY <1>2, ChainAssumption DEF ChainInv, RamType, Ram!Work

\* The inner controller waits while the memory answers, and only then.
LEMMA LockStep ==
    ASSUME ChainInv, InnerService!Tick, Ram!Work
    PROVE  memCompleted' <=> innerPhase' = "wait"
<1>1. memCompleted' <=> innerPhase = "drive"
    BY DEF Ram!Work, ChainInv, InnerService!ServiceInv, InnerService!PhaseInv
<1>. QED
    BY <1>1 DEF ChainInv, InnerService!Tick, InnerService!ScanNothing, InnerService!Select,
        InnerService!Release, InnerService!KeepWaiting, InnerService!Complete, InnerService!MemoryDone

LEMMA InitChain == Init => ChainInv
<1>. SUFFICES ASSUME Init PROVE ChainInv
    OBVIOUS
<1>. USE DEF Init
<1>1. OuterService!Init /\ InnerService!Init
    BY Inits
<1>2. BlocksType /\ RamType
    BY ChainAssumption, Numbers DEF Blocks!Init, Blocks!Quiet, Ram!Init, BlocksType, RamType, Requests
<1>3. /\ \A c \in Clients : ~port[c].enable /\ ~waiting[c]
      /\ ~link.enable /\ outerPhase = "scan" /\ innerPhase = "scan" /\ ~innerCompleted[0] /\ ~memCompleted
    BY <1>1, Numbers DEF Blocks!Init, Blocks!Quiet, Ram!Init, OuterService!Init, InnerService!Init,
        OuterService!NoRequest
<1>4. OuterService!OwnType /\ InnerService!OwnType
    <2>1. /\ OuterService!NoRequest \in Requests /\ InnerService!NoRequest \in Requests
          /\ OuterCount - 1 \in Outer
          /\ 0 \in 0 .. CounterMod - 1
        BY ChainAssumption DEF OuterService!NoRequest, InnerService!NoRequest, Requests, Outer
    <2>2. OuterService!OwnType
        BY <1>1, <2>1, ChainAssumption, Numbers, SameTypes
        DEF OuterService!Init, OuterService!OwnType, OuterService!StartClient
    <2>3. InnerService!OwnType
        <3>1. innerCurrent = DirectCount /\ DirectCount \in 0 .. DirectCount
            BY <1>1, ChainAssumption DEF InnerService!Init, InnerService!StartClient
        <3>. QED
            BY <1>1, <2>1, <3>1, ChainAssumption, Numbers, SameTypes
            DEF InnerService!Init, InnerService!OwnType
    <2>. QED
        BY <2>2, <2>3
<1>5. OuterService!NeighbourType /\ InnerService!NeighbourType
    BY <1>2, <1>4, NeighbourTypes
<1>6. OuterService!ServiceInv
    BY <1>1, <1>3, <1>5, Constants, Numbers, OuterService!ServiceInit
<1>7. InnerService!ServiceInv
    <2>1. \A s \in 0 .. DirectCount : ~InnerPort[s].enable
        BY <1>3, Numbers, Views
    <2>. QED
        BY <1>1, <1>3, <1>5, <2>1, Constants, Numbers, InnerService!ServiceInit
<1>. QED
    BY <1>2, <1>3, <1>6, <1>7 DEF ChainInv

LEMMA TickChain == ChainInv /\ Tick => ChainInv'
<1>. SUFFICES ASSUME ChainInv, Tick PROVE ChainInv'
    OBVIOUS
<1>1. Blocks!Tick /\ OuterService!Tick /\ InnerService!Tick /\ Ram!Work
    BY OuterTick, InnerTick DEF Tick
<1>2. BlocksType' /\ RamType' /\ (memCompleted' <=> innerPhase' = "wait")
    BY <1>1, BlocksStep, RamStep, LockStep
<1>3. OuterService!Neighbours /\ InnerService!Neighbours
    BY <1>1, OuterNeighbours, InnerNeighbours
<1>4. OuterService!OwnType' /\ InnerService!OwnType'
    BY <1>1, Constants, OuterService!OwnTypeStep, InnerService!OwnTypeStep DEF ChainInv
<1>5. OuterService!NeighbourType' /\ InnerService!NeighbourType'
    <2>1. (BlocksType /\ RamType /\ OuterService!OwnType /\ InnerService!OwnType
            => OuterService!NeighbourType /\ InnerService!NeighbourType)'
        BY NeighbourTypes, PTL
    <2>. QED
        BY <1>2, <1>4, <2>1
<1>6. OuterService!ServiceInv' /\ InnerService!ServiceInv'
    BY <1>1, <1>3, <1>5, Constants, OuterService!ServiceStep, InnerService!ServiceStep DEF ChainInv
<1>. QED
    BY <1>2, <1>6 DEF ChainInv
-----------------------------------------------------------------------------
(* The instant at which an access takes effect.                            *)

\* The block whose access the memory performs in this tick, if any.
Target == IF innerCurrent = 0 THEN outerCurrent ELSE Block(innerCurrent)

\* The completions of a controller answer what has taken effect below it.
LEMMA AnswersInv == ChainInv => OuterService!ServedInv /\ InnerService!ServedInv
<1>. SUFFICES ASSUME ChainInv PROVE OuterService!ServedInv /\ InnerService!ServedInv
    OBVIOUS
<1>1. InnerService!ServedInv
    BY DEF ChainInv, InnerService!ServedInv
<1>2. memCompleted /\ innerCurrent = 0 => outerPhase = "wait"
    <2>. SUFFICES ASSUME memCompleted, innerCurrent = 0 PROVE outerPhase = "wait"
        OBVIOUS
    <2>1. innerLatched[0].enable /\ InnerService!ClientInv(0)
        BY Numbers DEF ChainInv, InnerService!ServiceInv, InnerService!PhaseInv
    <2>2. outerPhase # "scan" /\ ~link.enable
        BY <2>1, Numbers, Views DEF InnerService!ClientInv
    <2>. QED
        BY <2>2, SignalTypes DEF ChainInv, OuterService!ServiceInv, OuterService!PhaseInv
<1>3. innerCompleted[0] => outerPhase = "wait"
    BY DEF ChainInv, OuterService!ServiceInv, OuterService!PhaseInv
<1>. QED
    BY <1>1, <1>2, <1>3 DEF OuterService!ServedInv, InnerAnswers, InnerAnswer

LEMMA AnswersInvNext == ChainInv' => OuterService!ServedInv' /\ InnerService!ServedInv'
<1>1. (ChainInv => OuterService!ServedInv /\ InnerService!ServedInv)'
    BY AnswersInv, PTL
<1>. QED
    BY <1>1

\* What the memory sees while it performs an access is what its block asked for.
LEMMA Driven ==
    ASSUME ChainInv, innerPhase = "drive"
    PROVE  /\ Target \in Clients
           /\ waiting[Target] /\ ~Completed(Target)
           /\ memory.enable /\ ~memCompleted
           /\ innerWrite = port[Target].write
           /\ memory.write = port[Target].write
           /\ memory.address = port[Target].address
           /\ memory.write => memory.data = port[Target].data
           /\ innerCurrent = 0 =>
                Target \in Outer /\ outerPhase = "wait" /\ ~innerCompleted[0]
           /\ innerCurrent # 0 => Target \notin Outer /\ Slot(Target) = innerCurrent
<1>. USE DEF InnerService!ServiceInv, OuterService!ServiceInv
<1>. PICK s \in 0 .. DirectCount : s = innerCurrent
    BY SignalTypes
<1>1. /\ memory.enable /\ ~memCompleted
      /\ memory.write = innerWrite
      /\ innerLatched[s].enable
      /\ innerWrite = innerLatched[s].write
      /\ memory.address = innerLatched[s].address
      /\ innerWrite => memory.data = innerLatched[s].data
    BY DEF ChainInv, InnerService!PhaseInv
<1>2. InnerService!ClientInv(s)
    BY Numbers DEF ChainInv
<1>3. CASE s = 0
    <2>1. /\ outerPhase # "scan" /\ ~link.enable /\ ~innerCompleted[0]
          /\ innerLatched[0] = LinkAsks
        BY <1>1, <1>2, <1>3, Numbers, Views DEF InnerService!ClientInv
    <2>. PICK c \in Outer : c = outerCurrent
        BY SignalTypes
    <2>2. outerPhase = "wait"
        BY <2>1, SignalTypes DEF ChainInv, OuterService!PhaseInv
    <2>3. /\ outerLatched[c].enable
          /\ outerWrite = outerLatched[c].write
          /\ link.address = outerLatched[c].address
          /\ outerWrite => link.data = outerLatched[c].data
        BY <2>1 DEF ChainInv, OuterService!PhaseInv
    <2>4. waiting[c] /\ ~outerCompleted[c] /\ outerLatched[c] = BlockAsks(c)
        BY <2>3, Numbers DEF ChainInv, OuterService!ClientInv
    <2>5. port[c] \in Requests
        BY Numbers DEF ChainInv, BlocksType
    <2>6. /\ outerWrite = port[c].write
          /\ link.address = port[c].address
          /\ outerWrite => link.data = port[c].data
        BY <2>3, <2>4, <2>5 DEF BlockAsks, Requests
    <2>7. /\ innerWrite = outerWrite
          /\ memory.address = link.address
          /\ innerWrite => memory.data = link.data
        BY <1>1, <1>3, <2>1 DEF LinkAsks
    <2>. QED
        BY <1>1, <1>3, <2>1, <2>2, <2>4, <2>6, <2>7, Numbers DEF Target, Completed
<1>4. CASE s # 0
    <2>. PICK c \in Clients \ Outer : c = Block(s) /\ Slot(c) = s
        BY <1>4, Numbers
    <2>1. waiting[c] /\ ~innerCompleted[s] /\ innerLatched[s] = BlockAsks(c)
        BY <1>1, <1>2, <1>4 DEF InnerService!ClientInv
    <2>2. port[c] \in Requests
        BY DEF ChainInv, BlocksType
    <2>3. /\ innerWrite = port[c].write
          /\ memory.address = port[c].address
          /\ innerWrite => memory.data = port[c].data
        BY <1>1, <2>1, <2>2 DEF BlockAsks, Requests
    <2>. QED
        BY <1>1, <1>4, <2>1, <2>3 DEF Target, Completed
<1>. QED
    BY <1>3, <1>4

\* An access takes effect in the tick in which the memory performs it, and its
\* answer travels up the chain unchanged.
LEMMA ServedStep ==
    ASSUME ChainInv, ChainInv', Tick, NEW c \in Clients, waiting[c], ~Completed(c)
    PROVE  IF innerPhase = "drive" /\ c = Target
           THEN ~Served(c) /\ Served(c)' /\ Answer(c)' = memData'
           ELSE /\ Served(c)' <=> Served(c)
                /\ Served(c) /\ ~port[c].write => Answer(c)' = Answer(c)
<1>1. OuterService!Tick /\ InnerService!Tick /\ memCompleted' = memory.enable
    BY OuterTick, InnerTick DEF Tick, Ram!Work
<1>2. /\ OuterService!ServedInv /\ OuterService!ServedInv'
      /\ InnerService!ServedInv /\ InnerService!ServedInv'
    BY AnswersInv, AnswersInvNext
<1>3. /\ memory.enable <=> innerPhase = "drive"
      /\ memCompleted <=> innerPhase = "wait"
      /\ innerPhase \in {"scan", "drive", "wait"}
    BY SignalTypes DEF ChainInv, InnerService!ServiceInv, InnerService!PhaseInv
<1>4. port[c] \in Requests /\ BlockAsks(c).write = port[c].write
    BY DEF ChainInv, BlocksType, BlockAsks, Requests
\* One client of the inner controller, be it a block or the outer controller.
<1>5. ASSUME NEW s \in 0 .. DirectCount, ~innerCompleted[s],
             IF s = 0 THEN outerPhase # "scan" ELSE waiting[Block(s)]
      PROVE  IF innerPhase = "drive" /\ innerCurrent = s
             THEN /\ ~InnerAnswers(s) /\ InnerAnswers(s)'
                  /\ InnerAnswer(s)' = memData'
             ELSE /\ InnerAnswers(s)' <=> InnerAnswers(s)
                  /\ InnerAnswers(s) /\ ~(IF s = 0 THEN outerWrite ELSE port[Block(s)].write)
                        => InnerAnswer(s)' = InnerAnswer(s)
    <2>1. IF innerPhase # "scan" /\ innerCurrent = s /\ ~memCompleted
          THEN /\ InnerService!Answers(s) <=> memCompleted
               /\ InnerService!Answer(s) = memData
               /\ InnerService!Answers(s)' <=> memCompleted'
               /\ InnerService!Answer(s)' = memData'
          ELSE /\ InnerService!Answers(s)' <=> InnerService!Answers(s)
               /\ InnerService!Answers(s)
                    /\ ~(IF s = 0 THEN LinkAsks ELSE BlockAsks(Block(s))).write
                    => InnerService!Answer(s)' = InnerService!Answer(s)
        BY <1>1, <1>2, <1>5, Numbers, InnerService!AnswerStep DEF ChainInv
    <2>2. (IF s = 0 THEN LinkAsks ELSE BlockAsks(Block(s))).write
            = IF s = 0 THEN outerWrite ELSE port[Block(s)].write
        BY Numbers DEF LinkAsks, BlockAsks, ChainInv, BlocksType, Requests
    <2>3. /\ InnerAnswers(s) <=> InnerService!Answers(s)
          /\ InnerAnswers(s)' <=> InnerService!Answers(s)'
          /\ InnerAnswer(s) = InnerService!Answer(s)
          /\ InnerAnswer(s)' = InnerService!Answer(s)'
        BY DEF InnerAnswers, InnerAnswer, InnerService!Answers, InnerService!Answer
    <2>. QED
        BY <1>1, <1>3, <2>1, <2>2, <2>3
<1>6. CASE c \notin Outer
    <2>. PICK s \in 0 .. DirectCount : s = Slot(c) /\ s # 0 /\ Block(s) = c
        BY <1>6, Numbers
    <2>1. /\ Served(c) <=> InnerAnswers(s)
          /\ Served(c)' <=> InnerAnswers(s)'
          /\ Answer(c) = InnerAnswer(s)
          /\ Answer(c)' = InnerAnswer(s)'
        BY <1>6 DEF Served, Answer
    <2>2. ~innerCompleted[s]
        BY <1>6 DEF Completed
    <2>3. innerPhase = "drive" => (c = Target <=> innerCurrent = s)
        BY <1>6, SignalTypes, Driven, Numbers DEF Target
    <2>. QED
        BY <1>5, <2>1, <2>2, <2>3
<1>7. CASE c \in Outer
    <2>1. /\ Served(c) <=> OuterService!Answers(c)
          /\ Served(c)' <=> OuterService!Answers(c)'
          /\ Answer(c) = OuterService!Answer(c)
          /\ Answer(c)' = OuterService!Answer(c)'
        BY <1>7 DEF Served, Answer, OuterAnswers, OuterAnswer, OuterService!Answers, OuterService!Answer
    <2>2. ~outerCompleted[c]
        BY <1>7 DEF Completed
    <2>3. IF outerPhase # "scan" /\ outerCurrent = c /\ ~innerCompleted[0]
          THEN /\ OuterService!Answers(c) <=> InnerAnswers(0)
               /\ OuterService!Answer(c) = InnerAnswer(0)
               /\ OuterService!Answers(c)' <=> InnerAnswers(0)'
               /\ OuterService!Answer(c)' = InnerAnswer(0)'
          ELSE /\ OuterService!Answers(c)' <=> OuterService!Answers(c)
               /\ OuterService!Answers(c) /\ ~BlockAsks(c).write
                    => OuterService!Answer(c)' = OuterService!Answer(c)
        BY <1>1, <1>2, <1>7, <2>2, Numbers, OuterService!AnswerStep DEF ChainInv
    <2>4. innerPhase = "drive" /\ c = Target =>
                innerCurrent = 0 /\ outerCurrent = c /\ outerPhase # "scan" /\ ~innerCompleted[0]
        BY <1>7, Driven DEF Target
    <2>5. CASE outerPhase # "scan" /\ outerCurrent = c /\ ~innerCompleted[0]
        <3>1. innerPhase = "drive" => (c = Target <=> innerCurrent = 0)
            BY <1>7, <2>4, <2>5 DEF Target
        <3>2. outerWrite = port[c].write
            <4>1. outerLatched[c].enable /\ outerWrite = outerLatched[c].write
                BY <2>5 DEF ChainInv, OuterService!ServiceInv, OuterService!PhaseInv
            <4>2. outerLatched[c] = BlockAsks(c)
                BY <1>7, <4>1, Numbers DEF ChainInv, OuterService!ServiceInv, OuterService!ClientInv
            <4>. QED
                BY <1>4, <4>1, <4>2
        <3>3. IF innerPhase = "drive" /\ innerCurrent = 0
              THEN /\ ~InnerAnswers(0) /\ InnerAnswers(0)'
                   /\ InnerAnswer(0)' = memData'
              ELSE /\ InnerAnswers(0)' <=> InnerAnswers(0)
                   /\ InnerAnswers(0) /\ ~outerWrite => InnerAnswer(0)' = InnerAnswer(0)
            BY <1>5, <2>5, Numbers
        <3>. QED
            BY <2>1, <2>3, <2>5, <3>1, <3>2, <3>3
    <2>6. CASE ~(outerPhase # "scan" /\ outerCurrent = c /\ ~innerCompleted[0])
        BY <1>4, <2>1, <2>3, <2>4, <2>6
    <2>. QED
        BY <2>5, <2>6
<1>. QED
    BY <1>6, <1>7

-----------------------------------------------------------------------------
(* Every tick is a step of the atomic memory, or none.                     *)

LEMMA CallType == ChainInv => \A c \in Clients : CallOf(c) \in Atomic!Calls
<1>. SUFFICES ASSUME ChainInv, NEW c \in Clients PROVE CallOf(c) \in Atomic!Calls
    OBVIOUS
<1>1. port[c] \in Requests /\ Answer(c) \in Data
    BY SignalTypes
    DEF ChainInv, BlocksType, RamType, Answer, OuterAnswer, InnerAnswer
<1>2. Ram!DwordIndex(port[c].address) \in Dwords
    BY <1>1, IndexInRange DEF Requests
<1>3. 0 \in Dwords
    BY ChainAssumption DEF Dwords
<1>. QED
    BY <1>1, <1>2, <1>3, ChainAssumption DEF CallOf, Atomic!Calls, Atomic!Stages, Requests

LEMMA CallTypeNext == (ChainInv => \A c \in Clients : CallOf(c) \in Atomic!Calls)'
BY CallType, PTL

\* A request on the ports is an open call.
LEMMA FreshCall ==
    ChainInv => \A c \in Clients : waiting[c] = port[c].enable => CallOf(c) \in Atomic!NextCalls
<1>. SUFFICES ASSUME ChainInv, NEW c \in Clients, waiting[c] = port[c].enable
              PROVE  CallOf(c) \in Atomic!NextCalls
    OBVIOUS
<1>1. CASE ~waiting[c]
    BY <1>1 DEF CallOf, Atomic!NextCalls, Atomic!NoCall
<1>2. CASE waiting[c]
    <2>1. ~Served(c)
        <3>1. CASE c \in Outer
            <4>1. ~outerCompleted[c] /\ ~outerLatched[c].enable
                BY <1>2, <3>1, Numbers DEF ChainInv, OuterService!ServiceInv, OuterService!ClientInv
            <4>2. ~OuterService!Answers(c)
                BY <3>1, <4>1, AnswersInv, OuterService!NotAnswered, Numbers DEF ChainInv
            <4>. QED
                BY <3>1, <4>2 DEF Served, OuterAnswers, OuterService!Answers
        <3>2. CASE c \notin Outer
            <4>. PICK s \in 0 .. DirectCount : s = Slot(c) /\ s # 0 /\ Block(s) = c
                BY <3>2, Numbers
            <4>1. ~innerCompleted[s] /\ ~innerLatched[s].enable
                BY <1>2, Numbers, Views DEF ChainInv, InnerService!ServiceInv, InnerService!ClientInv
            <4>2. ~InnerService!Answers(s)
                BY <4>1, AnswersInv, InnerService!NotAnswered, Numbers DEF ChainInv
            <4>. QED
                BY <3>2, <4>2 DEF Served, InnerAnswers, InnerService!Answers
        <3>. QED
            BY <3>1, <3>2
    <2>2. CallOf(c).stage = "asked"
        BY <1>2, <2>1 DEF CallOf
    <2>. QED
        BY <2>2, CallType DEF Atomic!NextCalls
<1>3. waiting[c] \in BOOLEAN
    BY DEF ChainInv, BlocksType
<1>. QED
    BY <1>1, <1>2, <1>3

LEMMA FreshCallNext ==
    (ChainInv => \A c \in Clients : waiting[c] = port[c].enable => CallOf(c) \in Atomic!NextCalls)'
BY FreshCall, PTL

LEMMA SameCalls ==
    ASSUME NEW c \in Clients
    PROVE  /\ [d \in Clients |-> CallOf(d)][c] = CallOf(c)
           /\ [d \in Clients |-> CallOf(d)]'[c] = CallOf(c)'
OBVIOUS

\* A block that sees its completion sees its answer.
LEMMA CompletedIsServed ==
    ASSUME NEW c \in Clients, Completed(c)
    PROVE  Served(c) /\ Answer(c) = DataFor(c)
BY DEF Completed, DataFor, Served, Answer, OuterAnswers, OuterAnswer, InnerAnswers, InnerAnswer

\* A block that is not in its wait loop, or leaves it, takes its answer and
\* perhaps asks again.
LEMMA FreeProceeds ==
    ASSUME ChainInv, ChainInv', Blocks!Tick, NEW c \in Clients, ~waiting[c] \/ Completed(c)
    PROVE  Atomic!Proceed(c)
<1>1. waiting'[c] = port'[c].enable
    BY BlocksStep
<1>2. CallOf(c)' \in Atomic!NextCalls
    <2>1. (CallOf(c) \in Atomic!NextCalls)'
        BY <1>1, FreshCallNext
    <2>. QED
        BY <2>1
<1>3. got'[c] = IF waiting[c] /\ Completed(c) /\ ~port[c].write THEN DataFor(c) ELSE got[c]
    BY BlocksStep
<1>4. CASE ~waiting[c]
    <2>1. CallOf(c).stage = "none" /\ got'[c] = got[c]
        BY <1>3, <1>4 DEF CallOf
    <2>. QED
        BY <1>2, <2>1, SameCalls DEF Atomic!Proceed
<1>5. CASE waiting[c] /\ Completed(c)
    <2>1. /\ CallOf(c).stage = "served"
          /\ CallOf(c).write = port[c].write
          /\ ~port[c].write => CallOf(c).data = DataFor(c)
        BY <1>5, CompletedIsServed DEF CallOf
    <2>. QED
        BY <1>2, <1>3, <1>5, <2>1, SameCalls DEF Atomic!Proceed
<1>. QED
    BY <1>4, <1>5

\* A block that stays in its wait loop keeps what it asks for.
LEMMA HeldCall ==
    ASSUME ChainInv, Blocks!Tick, NEW c \in Clients, waiting[c], ~Completed(c)
    PROVE  /\ port'[c].write = port[c].write
           /\ port'[c].address = port[c].address
           /\ port'[c].data = port[c].data
           /\ waiting'[c]
           /\ got'[c] = got[c]
<1>1. /\ port'[c] = [port[c] EXCEPT !.enable = FALSE]
      /\ waiting'[c] /\ got'[c] = got[c]
      /\ port[c] \in Requests
    BY BlocksStep DEF ChainInv, BlocksType
<1>. QED
    BY <1>1 DEF Requests

LEMMA HeldProceeds ==
    ASSUME ChainInv, ChainInv', Tick, NEW c \in Clients, waiting[c], ~Completed(c),
           ~(innerPhase = "drive" /\ c = Target)
    PROVE  Atomic!Proceed(c)
<1>1. /\ port'[c].write = port[c].write
      /\ port'[c].address = port[c].address
      /\ port'[c].data = port[c].data
      /\ waiting'[c]
      /\ got'[c] = got[c]
    BY HeldCall DEF Tick
<1>2. /\ Served(c)' <=> Served(c)
      /\ Served(c) /\ ~port[c].write => Answer(c)' = Answer(c)
    BY ServedStep
<1>3. CallOf(c)' = CallOf(c)
    BY <1>1, <1>2 DEF CallOf
<1>. QED
    BY <1>1, <1>3, SameCalls DEF Atomic!Proceed

\* The tick in which the memory performs an operation serves the block whose
\* request has come down the chain.
LEMMA DriveServes ==
    ASSUME ChainInv, ChainInv', Tick, innerPhase = "drive"
    PROVE  Atomic!Serve(Target)
<1>. SUFFICES ASSUME NEW c \in Clients, c = Target PROVE Atomic!Serve(c)
    BY Driven
<1>. DEFINE index == Ram!DwordIndex(port[c].address)
<1>1. /\ port[c] \in Requests
      /\ waiting[c] /\ ~Completed(c)
      /\ memory.enable /\ ~memCompleted
      /\ innerWrite = port[c].write
      /\ memory.write = port[c].write
      /\ memory.address = port[c].address
      /\ port[c].write => memory.data = port[c].data
    BY Driven DEF ChainInv, BlocksType
<1>2. /\ port'[c].write = port[c].write
      /\ port'[c].address = port[c].address
      /\ port'[c].data = port[c].data
      /\ waiting'[c]
      /\ got'[c] = got[c]
    BY <1>1, HeldCall DEF Tick
<1>3. ~Served(c) /\ Served(c)' /\ Answer(c)' = memData'
    BY <1>1, ServedStep
<1>4. UNCHANGED <<innerWrite, innerReads, innerWrites>>
    BY InnerTick DEF Tick, InnerService!Tick, InnerService!ScanNothing, InnerService!Select,
        InnerService!Release, InnerService!KeepWaiting, InnerService!Complete
<1>5. /\ memCompleted'
      /\ memData' = IF ~port[c].write THEN rawMemory[index] ELSE 0
      /\ rawMemory' = IF port[c].write THEN [rawMemory EXCEPT ![index] = port[c].data]
                      ELSE rawMemory
    BY <1>1 DEF Tick, Ram!Work
<1>6. CallOf(c) = [stage |-> "asked", write |-> port[c].write, index |-> index,
                   data |-> IF port[c].write THEN port[c].data ELSE 0]
    BY <1>1, <1>3 DEF CallOf
<1>7. CallOf(c)' = [stage |-> "served", write |-> port[c].write, index |-> index,
                    data |-> IF port[c].write THEN port[c].data ELSE rawMemory[index]]
    <2>1. CallOf(c)' = [stage |-> "served", write |-> port'[c].write,
                        index |-> Ram!DwordIndex(port'[c].address),
                        data |-> IF port'[c].write THEN port'[c].data ELSE Answer(c)']
        BY <1>2, <1>3 DEF CallOf
    <2>. QED
        BY <1>2, <1>3, <1>5, <2>1
<1>8. /\ Performed(innerReads, FALSE)' =
            IF port[c].write THEN Performed(innerReads, FALSE)
            ELSE (Performed(innerReads, FALSE) + 1) % CounterMod
      /\ Performed(innerWrites, TRUE)' =
            IF port[c].write THEN (Performed(innerWrites, TRUE) + 1) % CounterMod
            ELSE Performed(innerWrites, TRUE)
    <2>1. port[c].write \in BOOLEAN
        BY <1>1 DEF Requests
    <2>. QED
        BY <1>1, <1>4, <1>5, <2>1 DEF Performed
<1>. DEFINE k == CallOf(c)
<1>9. /\ k.stage = "asked" /\ k.write = port[c].write /\ k.index = index
      /\ k.write => k.data = port[c].data
      /\ [d \in Clients |-> CallOf(d)][c] = k
    BY <1>6
<1>10. CallOf(c)' = [stage |-> "served", write |-> k.write, index |-> k.index,
                     data |-> IF k.write THEN k.data ELSE rawMemory[k.index]]
    BY <1>7, <1>9
<1>. HIDE DEF k, index
<1>. QED
    BY <1>2, <1>5, <1>8, <1>9, <1>10, SameCalls DEF Atomic!Serve, k

\* In every other tick the array and the numbers of operations stay the same.
LEMMA OtherwiseNothing ==
    ASSUME ChainInv, Tick, innerPhase # "drive"
    PROVE  UNCHANGED <<rawMemory, Performed(innerReads, FALSE), Performed(innerWrites, TRUE)>>
<1>1. InnerService!Tick /\ ~memory.enable
    BY InnerTick DEF Tick, ChainInv, InnerService!ServiceInv, InnerService!PhaseInv
<1>2. rawMemory' = rawMemory /\ ~memCompleted'
    BY <1>1 DEF Tick, Ram!Work
<1>3. CASE InnerService!Complete
    <2>1. memCompleted /\ innerWrite \in BOOLEAN
        BY <1>3, SignalTypes DEF InnerService!Complete, InnerService!MemoryDone
    <2>. QED
        BY <1>2, <1>3, <2>1 DEF InnerService!Complete, Performed
<1>4. CASE ~InnerService!Complete
    <2>1. ~memCompleted
        BY <1>1, <1>4, InnerService!Completes DEF ChainInv
    <2>2. UNCHANGED <<innerReads, innerWrites>>
        BY <1>1, <1>4 DEF InnerService!Tick, InnerService!ScanNothing, InnerService!Select,
            InnerService!Release, InnerService!KeepWaiting
    <2>. QED
        BY <1>2, <2>1, <2>2 DEF Performed
<1>. QED
    BY <1>3, <1>4

\* One tick of the chain is a step of the atomic memory.
LEMMA TickIsAtomic ==
    ASSUME ChainInv, ChainInv', Tick
    PROVE  Atomic!Next
<1>1. [c \in Clients |-> CallOf(c)]' \in [Clients -> Atomic!Calls] /\ got' \in [Clients -> Data]
    BY CallTypeNext DEF ChainInv, BlocksType
<1>2. \A c \in Clients : ~(innerPhase = "drive" /\ c = Target) => Atomic!Proceed(c)
    BY FreeProceeds, HeldProceeds DEF Tick
<1>3. CASE innerPhase = "drive"
    <2>1. Target \in Clients /\ Atomic!Serve(Target)
        BY <1>3, Driven, DriveServes
    <2>2. \A c \in Clients \ {Target} : Atomic!Proceed(c)
        BY <1>2
    <2>. QED
        BY <1>1, <2>1, <2>2 DEF Atomic!Next
<1>4. CASE innerPhase # "drive"
    <2>1. \A c \in Clients : Atomic!Proceed(c)
        BY <1>2, <1>4
    <2>. QED
        BY <1>1, <1>4, <2>1, OtherwiseNothing DEF Atomic!Next
<1>. QED
    BY <1>3, <1>4

\* The memory begins empty and without calls.
LEMMA InitAtomic == Init => Atomic!Init
<1>. SUFFICES ASSUME Init PROVE Atomic!Init
    OBVIOUS
<1>1. \A c \in Clients : CallOf(c) = Atomic!NoCall
    BY DEF Init, Blocks!Init, CallOf, Atomic!NoCall
<1>2. got = [c \in Clients |-> 0] /\ rawMemory = [i \in Dwords |-> 0]
    BY Numbers DEF Init, Blocks!Init, Ram!Init
<1>3. ~memCompleted /\ innerReads = 0 /\ innerWrites = 0
    BY DEF Init, InnerController!Init, Ram!Init
<1>. QED
    BY <1>1, <1>2, <1>3 DEF Atomic!Init, Performed

\* A step that leaves the chain alone leaves the invariant and the atomic memory
\* alone.
LEMMA Stutter == UNCHANGED vars => UNCHANGED Atomic!vars /\ (ChainInv => ChainInv')
<1>. SUFFICES ASSUME UNCHANGED vars PROVE UNCHANGED Atomic!vars /\ (ChainInv => ChainInv')
    OBVIOUS
<1>. USE DEF vars, blockVars, outerVars, innerVars, memoryVars
<1>1. UNCHANGED Atomic!vars
    BY DEF Atomic!vars, CallOf, Served, Answer, OuterAnswers, OuterAnswer, InnerAnswers, InnerAnswer,
        Performed
<1>2. BlocksType /\ RamType => BlocksType' /\ RamType'
    BY DEF BlocksType, RamType
<1>3. OuterService!ServiceInv => OuterService!ServiceInv'
    <2>1. \A c \in Clients : BlockAsks(c)' = BlockAsks(c)
        BY DEF BlockAsks
    <2>2. /\ OuterService!OwnType => OuterService!OwnType'
          /\ OuterService!PulseInv => OuterService!PulseInv'
        BY DEF OuterService!OwnType, OuterService!PulseInv
    <2>3. OuterService!NeighbourType => OuterService!NeighbourType'
        BY <2>1 DEF OuterService!NeighbourType, BlockAsks
    <2>4. OuterService!PhaseInv => OuterService!PhaseInv'
        BY DEF OuterService!PhaseInv
    <2>5. ASSUME NEW c \in OuterService!Clients, OuterService!ClientInv(c)
          PROVE  OuterService!ClientInv(c)'
        BY <2>1, <2>5 DEF OuterService!ClientInv, BlockAsks
    <2>. QED
        BY <2>2, <2>3, <2>4, <2>5 DEF OuterService!ServiceInv, OuterService!Clients
<1>4. InnerService!ServiceInv => InnerService!ServiceInv'
    <2>1. InnerPort' = InnerPort /\ LinkAsks' = LinkAsks /\ \A c \in Clients : BlockAsks(c)' = BlockAsks(c)
        BY DEF InnerPort, LinkAsks, BlockAsks
    <2>2. /\ InnerService!OwnType => InnerService!OwnType'
          /\ InnerService!PulseInv => InnerService!PulseInv'
          /\ InnerService!PhaseInv => InnerService!PhaseInv'
        BY DEF InnerService!OwnType, InnerService!PulseInv, InnerService!PhaseInv
    <2>3. InnerService!NeighbourType => InnerService!NeighbourType'
        BY <2>1 DEF InnerService!NeighbourType, Block, BlockAsks
    <2>4. ASSUME NEW s \in InnerService!Clients, InnerService!ClientInv(s)
          PROVE  InnerService!ClientInv(s)'
        BY <2>1, <2>4 DEF InnerService!ClientInv, Block, BlockAsks
    <2>. QED
        BY <2>2, <2>3, <2>4 DEF InnerService!ServiceInv, InnerService!Clients
<1>. QED
    BY <1>1, <1>2, <1>3, <1>4 DEF ChainInv

\* For any number of blocks on either controller, any memory and any addresses
\* and data, a chain of two controllers is linearizable: accesses through either
\* of them take effect atomically, in one order, and each answer reaches the
\* block that asked.
THEOREM ChainRefinement == Spec => ChainLinearizable
<1>1. ChainInv /\ [Tick]_vars => ChainInv'
    BY TickChain, Stutter
<1>2. ChainInv /\ ChainInv' /\ [Tick]_vars => [Atomic!Next]_(Atomic!vars)
    BY TickIsAtomic, Stutter
<1>. QED
    BY <1>1, <1>2, InitChain, InitAtomic, PTL DEF Spec, ChainLinearizable, Atomic!Spec
=============================================================================
