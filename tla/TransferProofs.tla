----------------------------- MODULE TransferProofs -----------------------------
(***************************************************************************)
(* Theorems about Transfer for any number of ports, arrays and elements    *)
(* and any timeout.                                                        *)
(***************************************************************************)
EXTENDS Transfer, TLAPS

-----------------------------------------------------------------------------
(* The inductive invariant behind the safety properties: after the         *)
(* handshake the two threads move in step, package by package, although    *)
(* neither sees where the other is.                                        *)

\* Each thread raises its signal for the handshake and lowers it with it.
ControlInv ==
    /\ sending <=> sendPhase = "offer"
    /\ receiving <=> receivePhase \in {"ask", "stall"}

ShapeInv ==
    /\ dataPorts = [p \in PortNumbers |-> dataPorts[p]]
    /\ dataToReceive = [a \in Arrays |-> [i \in 0 .. call.receives[a] - 1 |-> dataToReceive[a][i]]]

\* The last package sent is on the ports.
PortsInv ==
    /\ sendPhase = "offer" => sendArray = 1 /\ packagesSent = 1
    /\ sendPhase # "idle" =>
        \A p \in PortNumbers :
            LET i == (packagesSent - 1) * call.ports + p
            IN  i < call.sends[sendArray] => dataPorts[p] = <<message, sendArray, i>>

\* The receiver is about to take the package on the ports.
InStep ==
    /\ sendPhase = "stream"
    /\ sendArray = receiveArray
    /\ packagesSent = packagesReceived + 1

\* The receiver asked for more than was sent, and has all of that.
Beyond ==
    /\ sendPhase # "stream"
    /\ receiveArray = Len(call.sends)
    /\ packagesReceived >= Packages(call.sends[receiveArray])

StepInv == receivePhase = "stream" => InStep \/ Beyond

\* The message last accepted: its number is recorded when it is complete.
Accepted == IF receivePhase = "stream" THEN NextMessage(delivered) ELSE delivered

MessageInv == message = IF sendPhase = "offer" THEN NextMessage(Accepted) ELSE Accepted

\* The receiver has what message m holds before package k of array a.
Holds(m, a, k) ==
    \A b \in Arrays : \A i \in CommonElements(b) :
        b < a \/ (b = a /\ i \div call.ports < k) => dataToReceive[b][i] = <<m, b, i>>

PartialInv == receivePhase = "stream" => Holds(Accepted, receiveArray, packagesReceived)

IInv ==
    /\ TypeOK
    /\ ControlInv
    /\ ShapeInv
    /\ NoTimeout => PortsInv /\ StepInv /\ MessageInv /\ PartialInv

-----------------------------------------------------------------------------
(* How elements are dealt to packages and ports.                           *)

LEMMA DivMod ==
    ASSUME NEW n \in Nat, NEW d \in Nat \ {0}
    PROVE  /\ n \div d \in Nat
           /\ n % d \in 0 .. d - 1
           /\ n = (n \div d) * d + (n % d)
OBVIOUS

\* The arguments of a call are numbers its loops can work with.
LEMMA CallFacts ==
    ASSUME call \in Calls
    PROVE  /\ call.ports \in Nat \ {0}
           /\ call.timeout \in Nat
           /\ Len(call.sends) \in Nat \ {0}
           /\ 1 \in Arrays /\ Len(call.sends) \in Arrays
           /\ Len(call.receives) = Len(call.sends)
           /\ \A a \in Arrays : call.sends[a] \in Nat \ {0} /\ call.receives[a] \in Nat \ {0}
           /\ \A a \in Arrays : a # Len(call.sends) => call.sends[a] = call.receives[a]
<1>1. /\ call.ports \in Nat \ {0}
      /\ call.sends \in Seq(Nat \ {0}) /\ call.sends # <<>>
      /\ call.receives \in Seq(Nat \ {0}) /\ Len(call.receives) = Len(call.sends)
      /\ call.timeout \in Nat
    BY TransferAssumption
<1>2. Len(call.sends) \in Nat \ {0}
    BY <1>1
<1>3. \A a \in Arrays : call.sends[a] \in Nat \ {0} /\ call.receives[a] \in Nat \ {0}
    BY <1>1 DEF Arrays
<1>4. \A a \in Arrays : a # Len(call.sends) => call.sends[a] = call.receives[a]
    BY <1>2, LayoutAssumption DEF Arrays
<1>. QED
    BY <1>1, <1>2, <1>3, <1>4 DEF Arrays

\* Every array takes at least one package, and every element of it is in one.
LEMMA PackagesBound ==
    ASSUME call \in Calls, NEW count \in Nat \ {0}
    PROVE  /\ Packages(count) \in Nat \ {0}
           /\ \A i \in 0 .. count - 1 : i \div call.ports \in 0 .. Packages(count) - 1
<1>1. call.ports \in Nat \ {0}
    BY CallFacts
<1>2. Packages(count) \in Nat \ {0}
    BY <1>1 DEF Packages
<1>3. ASSUME NEW i \in 0 .. count - 1
      PROVE  i \div call.ports \in 0 .. Packages(count) - 1
    BY <1>1, <1>3 DEF Packages
<1>. QED
    BY <1>2, <1>3

-----------------------------------------------------------------------------
(* Type correctness and the control signals.                               *)

LEMMA NextMessageType ==
    ASSUME NEW m \in 0 .. Messages - 1
    PROVE  NextMessage(m) \in 0 .. Messages - 1
BY TransferAssumption DEF NextMessage

SenderTypeOK ==
    /\ sending \in BOOLEAN
    /\ \A p \in PortNumbers : dataPorts[p] \in Elements
    /\ sendPhase \in {"idle", "offer", "stream"}
    /\ sendArray \in Arrays
    /\ packagesSent \in 1 .. Packages(call.sends[sendArray])
    /\ message \in 0 .. Messages - 1
    /\ sending <=> sendPhase = "offer"
    /\ dataPorts = [p \in PortNumbers |-> dataPorts[p]]

ReceiverTypeOK ==
    /\ receiving \in BOOLEAN /\ business \in BOOLEAN
    /\ receivePhase \in {"idle", "ask", "stall", "stream"}
    /\ receiveArray \in Arrays
    /\ packagesReceived \in 0 .. Packages(call.receives[receiveArray]) - 1
    /\ \A a \in Arrays : \A i \in DOMAIN dataToReceive[a] : dataToReceive[a][i] \in Elements
    /\ clocksWaiting \in 1 .. call.timeout + 1
    /\ delivered \in 0 .. Messages - 1
    /\ receiving <=> receivePhase \in {"ask", "stall"}
    /\ dataToReceive = [a \in Arrays |-> [i \in 0 .. call.receives[a] - 1 |-> dataToReceive[a][i]]]

LEMMA TypeParts ==
    TypeOK /\ ControlInv /\ ShapeInv <=> call \in Calls /\ SenderTypeOK /\ ReceiverTypeOK
BY DEF TypeOK, ControlInv, ShapeInv, SenderTypeOK, ReceiverTypeOK

LEMMA TypePartsNext ==
    (TypeOK /\ ControlInv /\ ShapeInv <=> call \in Calls /\ SenderTypeOK /\ ReceiverTypeOK)'
BY TypeParts, PTL

\* A package on the ports is made of elements.
LEMMA PutType ==
    ASSUME call \in Calls, call' = call, NEW a \in Arrays,
           NEW k \in 0 .. Packages(call.sends[a]) - 1,
           NEW ports, \A p \in PortNumbers : ports[p] \in Elements,
           message' \in 0 .. Messages - 1,
           Put(a, k, ports)
    PROVE  /\ \A p \in PortNumbers' : dataPorts'[p] \in Elements'
           /\ dataPorts' = [p \in PortNumbers' |-> dataPorts'[p]]
<1>1. PortNumbers' = PortNumbers /\ Elements' = Elements
    BY DEF PortNumbers, Elements, Arrays
<1>2. call.ports \in Nat \ {0} /\ call.sends[a] \in Nat \ {0}
    BY CallFacts
<1>3. k \in Nat
    BY <1>2, PackagesBound
<1>4. \A p \in PortNumbers : <<message', a, k * call.ports + p>> \in Elements
    BY <1>2, <1>3 DEF PortNumbers, Elements
<1>. QED
    BY <1>1, <1>4 DEF Put

LEMMA SenderType ==
    ASSUME call \in Calls, SenderTypeOK, SenderTick, call' = call
    PROVE  SenderTypeOK'
<1>. USE DEF SenderTypeOK
<1>1. PortNumbers' = PortNumbers /\ Elements' = Elements /\ Arrays' = Arrays
    BY DEF PortNumbers, Elements, Arrays
<1>2. \A a \in Arrays : /\ call.sends[a] \in Nat \ {0}
                        /\ Packages(call.sends[a]) \in Nat \ {0}
                        /\ Packages(call.sends[a])' = Packages(call.sends[a])
    BY CallFacts, PackagesBound DEF Packages
<1>3. \A p \in PortNumbers : Cleared[p] \in Elements
    BY DEF Cleared, Elements
<1>4. 1 \in Arrays
    BY CallFacts
<1>5. ASSUME NEW ports, \A p \in PortNumbers : ports[p] \in Elements, Offer(ports)
      PROVE  SenderTypeOK'
    <2>1. message' \in 0 .. Messages - 1
        BY <1>5, NextMessageType DEF Offer
    <2>2. 0 \in 0 .. Packages(call.sends[1]) - 1
        BY <1>2, <1>4
    <2>3. /\ \A p \in PortNumbers' : dataPorts'[p] \in Elements'
          /\ dataPorts' = [p \in PortNumbers' |-> dataPorts'[p]]
        BY <1>4, <1>5, <2>1, <2>2, PutType DEF Offer
    <2>. QED
        BY <1>1, <1>2, <1>4, <1>5, <2>1, <2>3 DEF Offer
<1>6. ASSUME NEW a \in Arrays, NEW k \in 0 .. Packages(call.sends[a]) - 1,
             NEW ports, \A p \in PortNumbers : ports[p] \in Elements, Stream(a, k, ports)
      PROVE  SenderTypeOK'
    <2>1. message' \in 0 .. Messages - 1
        BY <1>6 DEF Stream
    <2>2. /\ \A p \in PortNumbers' : dataPorts'[p] \in Elements'
          /\ dataPorts' = [p \in PortNumbers' |-> dataPorts'[p]]
        BY <1>6, <2>1, PutType DEF Stream
    <2>3. packagesSent' \in 1 .. Packages(call.sends[sendArray])'
        <3>1. Packages(call.sends[sendArray])' = Packages(call.sends[a])
            BY <1>6 DEF Stream, Packages
        <3>. QED
            BY <1>2, <1>6, <3>1 DEF Stream
    <2>. QED
        BY <1>1, <1>6, <2>1, <2>2, <2>3 DEF Stream
<1>7. CASE StayIdle
    BY <1>1, <1>2, <1>3, <1>7 DEF StayIdle, Cleared
<1>8. CASE Continue
    <2>1. CASE ~ArraySent /\ Stream(sendArray, packagesSent, dataPorts)
        <3>1. packagesSent \in 0 .. Packages(call.sends[sendArray]) - 1
            BY <1>2, <2>1 DEF ArraySent
        <3>. QED
            BY <1>6, <2>1, <3>1
    <2>2. CASE sendArray # Len(call.sends) /\ Stream(sendArray + 1, 0, Cleared)
        <3>1. sendArray + 1 \in Arrays
            BY <2>2, CallFacts DEF Arrays
        <3>2. 0 \in 0 .. Packages(call.sends[sendArray + 1]) - 1
            BY <1>2, <3>1
        <3>. QED
            BY <1>3, <1>6, <2>2, <3>1, <3>2
    <2>3. CASE Offer(Cleared)
        BY <1>3, <1>5, <2>3
    <2>. QED
        BY <1>7, <1>8, <2>1, <2>2, <2>3 DEF Continue
<1>9. CASE SenderIdle
    BY <1>5, <1>7, <1>9 DEF SenderIdle
<1>10. CASE SenderOffers
    BY <1>1, <1>2, <1>10 DEF SenderOffers, senderVars
<1>. QED
    BY <1>8, <1>9, <1>10 DEF SenderTick, SenderIsAccepted, SenderStreams

\* Taking a package overwrites the elements of that package and no other.
LEMMA TakeEffect ==
    ASSUME call \in Calls, ReceiverTypeOK, NEW a \in Arrays, NEW k, Take(a, k)
    PROVE  dataToReceive' = [b \in Arrays |-> [i \in 0 .. call.receives[b] - 1 |->
                IF b = a /\ i \div call.ports = k THEN dataPorts[i % call.ports]
                ELSE dataToReceive[b][i]]]
<1>. DEFINE new == [i \in 0 .. call.receives[a] - 1 |->
                        IF i \div call.ports = k THEN dataPorts[i % call.ports]
                        ELSE dataToReceive[a][i]]
            old(b) == [i \in 0 .. call.receives[b] - 1 |-> dataToReceive[b][i]]
<1>1. dataToReceive = [b \in Arrays |-> old(b)]
    BY DEF ReceiverTypeOK
<1>2. dataToReceive' = [dataToReceive EXCEPT ![a] = new]
    BY DEF Take
<1>3. dataToReceive' = [b \in Arrays |-> IF b = a THEN new ELSE old(b)]
    <2>. HIDE DEF new, old
    <2>. QED
        BY <1>1, <1>2
<1>4. ASSUME NEW b \in Arrays
      PROVE  (IF b = a THEN new ELSE old(b)) =
                [i \in 0 .. call.receives[b] - 1 |->
                    IF b = a /\ i \div call.ports = k THEN dataPorts[i % call.ports]
                    ELSE dataToReceive[b][i]]
    OBVIOUS
<1>. QED
    BY <1>3, <1>4

LEMMA TakeType ==
    ASSUME call \in Calls, call' = call, SenderTypeOK, ReceiverTypeOK,
           NEW a \in Arrays, NEW k, Take(a, k)
    PROVE  /\ \A b \in Arrays' : \A i \in DOMAIN dataToReceive'[b] : dataToReceive'[b][i] \in Elements'
           /\ dataToReceive' = [b \in Arrays' |->
                    [i \in 0 .. call'.receives[b] - 1 |-> dataToReceive'[b][i]]]
           /\ dataToReceive'[1][0] # Nothing => dataToReceive'[1][0][1] \in 0 .. Messages - 1
<1>1. /\ Elements' = Elements /\ Arrays' = Arrays
      /\ dataToReceive' = [b \in Arrays |-> [i \in 0 .. call.receives[b] - 1 |->
                IF b = a /\ i \div call.ports = k THEN dataPorts[i % call.ports]
                ELSE dataToReceive[b][i]]]
    BY TakeEffect DEF Elements, Arrays
<1>2. ASSUME NEW b \in Arrays, NEW i \in 0 .. call.receives[b] - 1
      PROVE  dataToReceive'[b][i] \in Elements
    <2>1. i % call.ports \in PortNumbers
        <3>1. call.ports \in Nat \ {0} /\ i \in Nat
            BY CallFacts
        <3>. QED
            BY <3>1, DivMod DEF PortNumbers
    <2>2. dataPorts[i % call.ports] \in Elements
        BY <2>1 DEF SenderTypeOK
    <2>3. dataToReceive[b][i] \in Elements
        BY DEF ReceiverTypeOK
    <2>4. dataToReceive'[b][i] = IF b = a /\ i \div call.ports = k
                                 THEN dataPorts[i % call.ports] ELSE dataToReceive[b][i]
        BY <1>1
    <2>. QED
        BY <2>2, <2>3, <2>4
<1>3. dataToReceive' = [b \in Arrays |->
            [i \in 0 .. call.receives[b] - 1 |-> dataToReceive'[b][i]]]
    BY <1>1
<1>4. \A b \in Arrays : DOMAIN dataToReceive'[b] = 0 .. call.receives[b] - 1
    BY <1>1
<1>5. 1 \in Arrays /\ 0 \in 0 .. call.receives[1] - 1
    BY CallFacts
<1>6. dataToReceive'[1][0] # Nothing => dataToReceive'[1][0][1] \in 0 .. Messages - 1
    BY <1>2, <1>5 DEF Elements
<1>. QED
    BY <1>1, <1>2, <1>3, <1>4, <1>6

LEMMA ReceiverType ==
    ASSUME call \in Calls, SenderTypeOK, ReceiverTypeOK, ReceiverTick, call' = call
    PROVE  ReceiverTypeOK'
<1>. USE DEF ReceiverTypeOK
<1>1. Arrays' = Arrays /\ Elements' = Elements
    BY DEF Arrays, Elements
<1>2. \A a \in Arrays : /\ Packages(call.receives[a]) \in Nat \ {0}
                        /\ Packages(call.receives[a])' = Packages(call.receives[a])
    BY CallFacts, PackagesBound DEF Packages
<1>3. call.timeout \in Nat /\ 1 \in Arrays
    BY CallFacts
<1>4. ASSUME Ask \/ Rest
      PROVE  /\ receiving' \in BOOLEAN
             /\ receivePhase' \in {"idle", "ask"}
             /\ clocksWaiting' \in 1 .. call'.timeout + 1
             /\ receiving' <=> receivePhase' \in {"ask", "stall"}
    <2>. HIDE DEF ReceiverTypeOK
    <2>1. CASE Ask
        BY <1>3, <2>1 DEF Ask
    <2>2. CASE Rest
        <3>1. receiving' = FALSE /\ receivePhase' = "idle" /\ clocksWaiting' = 1
            BY <2>2 DEF Rest
        <3>2. receiving' <=> receivePhase' \in {"ask", "stall"}
            BY <3>1
        <3>3. clocksWaiting' \in 1 .. call'.timeout + 1
            BY <1>3, <3>1
        <3>4. receiving' \in BOOLEAN
            BY <3>1
        <3>. QED
            BY <3>1, <3>2, <3>3, <3>4
    <2>. QED
        BY <1>4, <2>1, <2>2
<1>5. ASSUME UNCHANGED <<receiveArray, packagesReceived>>
      PROVE  /\ receiveArray' \in Arrays'
             /\ packagesReceived' \in 0 .. Packages(call.receives[receiveArray])' - 1
    BY <1>1, <1>2, <1>5 DEF Packages
<1>6. ASSUME UNCHANGED dataToReceive
      PROVE  /\ \A a \in Arrays' : \A i \in DOMAIN dataToReceive'[a] : dataToReceive'[a][i] \in Elements'
             /\ dataToReceive' = [a \in Arrays' |->
                    [i \in 0 .. call'.receives[a] - 1 |-> dataToReceive'[a][i]]]
    BY <1>1, <1>6
<1>7. ASSUME NEW a \in Arrays, NEW k \in 0 .. Packages(call.receives[a]) - 1, Receive(a, k),
             business' \in BOOLEAN
      PROVE  ReceiverTypeOK'
    <2>1. /\ \A b \in Arrays' : \A i \in DOMAIN dataToReceive'[b] : dataToReceive'[b][i] \in Elements'
          /\ dataToReceive' = [b \in Arrays' |->
                    [i \in 0 .. call'.receives[b] - 1 |-> dataToReceive'[b][i]]]
          /\ dataToReceive'[1][0] # Nothing => dataToReceive'[1][0][1] \in 0 .. Messages - 1
        BY <1>7, TakeType DEF Receive
    <2>2. CASE receivePhase' = "stream"
        <3>1. ~(k + 1 = Packages(call.receives[a]) /\ a = Len(call.receives))
            BY <1>7, <2>2 DEF Receive, Ask, Rest
        <3>. DEFINE done == k + 1 = Packages(call.receives[a])
        <3>2. /\ receiving' = FALSE
              /\ receiveArray' = IF done THEN a + 1 ELSE a
              /\ packagesReceived' = IF done THEN 0 ELSE k + 1
              /\ clocksWaiting' = 1
              /\ delivered' = delivered
            BY <1>7, <3>1 DEF Receive
        <3>3. receiveArray' \in Arrays
            <4>. HIDE DEF ReceiverTypeOK
            <4>1. Len(call.sends) \in Nat /\ Len(call.receives) = Len(call.sends)
                BY CallFacts
            <4>2. done => a + 1 \in Arrays
                BY <3>1, <4>1 DEF Arrays
            <4>. QED
                BY <3>2, <4>2
        <3>4. Packages(call.receives[receiveArray])' =
                IF done THEN Packages(call.receives[a + 1]) ELSE Packages(call.receives[a])
            BY <3>2 DEF Packages
        <3>5. packagesReceived' \in 0 .. Packages(call.receives[receiveArray])' - 1
            BY <1>2, <3>2, <3>3, <3>4
        <3>6. clocksWaiting' \in 1 .. call'.timeout + 1
            BY <1>3, <3>2
        <3>. QED
            BY <1>1, <1>7, <2>1, <2>2, <3>2, <3>3, <3>5, <3>6
    <2>3. CASE receivePhase' # "stream"
        <3>1. /\ Ask \/ Rest
              /\ receiveArray' = 1
              /\ packagesReceived' = 0
              /\ delivered' = IF dataToReceive'[1][0] = Nothing THEN delivered
                             ELSE dataToReceive'[1][0][1]
            BY <1>7, <2>3 DEF Receive
        <3>2. packagesReceived' \in 0 .. Packages(call.receives[receiveArray])' - 1
            <4>1. Packages(call.receives[receiveArray])' = Packages(call.receives[1])
                BY <3>1 DEF Packages
            <4>. QED
                BY <1>2, <1>3, <3>1, <4>1
        <3>. QED
            BY <1>1, <1>3, <1>4, <1>7, <2>1, <3>1, <3>2
    <2>. QED
        BY <2>2, <2>3
<1>8. CASE ReceiverIdle
    BY <1>4, <1>5, <1>6, <1>8 DEF ReceiverIdle
<1>9. CASE Accept
    BY <1>2, <1>3, <1>7, <1>9 DEF Accept
<1>10. CASE ReceiverAsks
    BY <1>3, <1>5, <1>6, <1>9, <1>10 DEF ReceiverAsks, Stall
<1>11. CASE ReceiverStalls
    <2>1. CASE Accept
        BY <1>9, <2>1
    <2>2. CASE /\ Stall
               /\ clocksWaiting' = IF clocksWaiting > call.timeout THEN clocksWaiting
                                  ELSE clocksWaiting + 1
        <3>1. clocksWaiting' \in 1 .. call'.timeout + 1
            BY <1>3, <2>2
        <3>2. receiving' /\ receivePhase' = "stall"
            BY <1>11, <2>2 DEF ReceiverStalls, Stall
        <3>. QED
            BY <1>5, <1>6, <2>2, <3>1, <3>2 DEF Stall
    <2>. QED
        BY <1>11, <2>1, <2>2 DEF ReceiverStalls
<1>12. CASE ReceiverCancels
    BY <1>4, <1>5, <1>6, <1>12 DEF ReceiverCancels
<1>13. CASE ReceiverStreams
    BY <1>7, <1>13 DEF ReceiverStreams
<1>. QED
    BY <1>8, <1>10, <1>11, <1>12, <1>13 DEF ReceiverTick

ControlIInv == TypeOK /\ ControlInv /\ ShapeInv

LEMMA InitControl == Init => ControlIInv
<1>. SUFFICES ASSUME Init PROVE ControlIInv
    OBVIOUS
<1>1. /\ call \in Calls
      /\ sending = FALSE /\ receiving = FALSE
      /\ dataPorts = Cleared
      /\ sendPhase = "idle" /\ sendArray = 1 /\ packagesSent = 1
      /\ message = 0
      /\ receivePhase = "idle" /\ receiveArray = 1 /\ packagesReceived = 0
      /\ dataToReceive = EmptyMessage
      /\ clocksWaiting = 1 /\ business = FALSE /\ delivered = 0
    BY DEF Init
<1>2. /\ 1 \in Arrays /\ call.timeout \in Nat
      /\ Packages(call.sends[1]) \in Nat \ {0}
      /\ Packages(call.receives[1]) \in Nat \ {0}
    BY <1>1, CallFacts, PackagesBound
<1>3. Nothing \in Elements /\ 0 \in 0 .. Messages - 1
    BY TransferAssumption DEF Elements
<1>4. SenderTypeOK
    <2>1. sending \in BOOLEAN /\ (sending <=> sendPhase = "offer")
        BY <1>1
    <2>. QED
        BY <1>1, <1>2, <1>3, <2>1 DEF SenderTypeOK, Cleared
<1>5. ReceiverTypeOK
    <2>1. /\ \A a \in Arrays : \A i \in DOMAIN dataToReceive[a] : dataToReceive[a][i] \in Elements
          /\ dataToReceive = [a \in Arrays |-> [i \in 0 .. call.receives[a] - 1 |-> dataToReceive[a][i]]]
        BY <1>1, <1>3 DEF EmptyMessage
    <2>2. /\ receiving \in BOOLEAN /\ business \in BOOLEAN
          /\ receiving <=> receivePhase \in {"ask", "stall"}
        BY <1>1
    <2>. QED
        BY <1>1, <1>2, <1>3, <2>1, <2>2 DEF ReceiverTypeOK
<1>. QED
    BY <1>1, <1>4, <1>5, TypeParts DEF ControlIInv

LEMMA TickControl == ControlIInv /\ [Tick]_vars => ControlIInv'
<1>. SUFFICES ASSUME ControlIInv, [Tick]_vars PROVE ControlIInv'
    OBVIOUS
<1>1. call \in Calls /\ SenderTypeOK /\ ReceiverTypeOK
    BY TypeParts DEF ControlIInv
<1>2. CASE Tick
    <2>1. call' = call /\ SenderTypeOK' /\ ReceiverTypeOK'
        BY <1>1, <1>2, SenderType, ReceiverType DEF Tick
    <2>. QED
        BY <1>1, <2>1, TypePartsNext DEF ControlIInv
<1>3. CASE UNCHANGED vars
    <2>1. UNCHANGED <<call, sending, dataPorts, sendPhase, sendArray, packagesSent, message,
                      receiving, receivePhase, receiveArray, packagesReceived, dataToReceive,
                      clocksWaiting, business, delivered>>
        BY <1>3 DEF vars, senderVars, receiverVars
    <2>2. Arrays' = Arrays /\ Elements' = Elements /\ PortNumbers' = PortNumbers
        BY <2>1 DEF Arrays, Elements, PortNumbers
    <2>3. /\ Packages(call.sends[sendArray])' = Packages(call.sends[sendArray])
          /\ Packages(call.receives[receiveArray])' = Packages(call.receives[receiveArray])
        BY <2>1 DEF Packages
    <2>4. SenderTypeOK' /\ ReceiverTypeOK'
        BY <1>1, <2>1, <2>2, <2>3 DEF SenderTypeOK, ReceiverTypeOK
    <2>. QED
        BY <1>1, <2>1, <2>4, TypePartsNext DEF ControlIInv
<1>. QED
    BY <1>2, <1>3

LEMMA Control == Spec => []ControlIInv
BY InitControl, TickControl, PTL DEF Spec

\* The handshake functions stay type-correct: neither side ever counts beyond
\* the packages of the array it is at, reads a port that does not exist, or
\* counts further than its timeout.
THEOREM TypeCorrect == Spec => []TypeOK
<1>1. ControlIInv => TypeOK
    BY DEF ControlIInv
<1>. QED
    BY <1>1, Control, PTL

LEMMA ControlAgrees == ControlIInv => HandshakeAgrees
<1>. SUFFICES ASSUME ControlIInv, NoTimeout PROVE SenderSeesHandshake <=> ReceiverSeesHandshake
    BY DEF HandshakeAgrees
<1>1. ~TimesOut
    BY DEF ControlIInv, TypeOK, NoTimeout, TimesOut
<1>. QED
    BY <1>1 DEF ControlIInv, ControlInv, SenderSeesHandshake, ReceiverSeesHandshake

\* Without a timeout both threads see the handshake in the same tick.
THEOREM HandshakeSafe == Spec => []HandshakeAgrees
BY ControlAgrees, Control, PTL

\* With or without a timeout, a receiver takes data only from a sender that
\* sees the handshake too.
THEOREM TrustSafe == Spec => []ReceiverTrustsSender
<1>1. ControlIInv => ReceiverTrustsSender
    BY DEF ControlIInv, ControlInv, ReceiverTrustsSender, SenderSeesHandshake,
           ReceiverSeesHandshake
<1>. QED
    BY <1>1, Control, PTL

\* A receiver that looks idle has nothing of a message, whatever its timeout.
THEOREM BusySafe == Spec => []BusyWhileHolding
<1>1. Init => BusyWhileHolding
    BY DEF Init, BusyWhileHolding
<1>2. ControlIInv /\ BusyWhileHolding /\ [Tick]_vars => BusyWhileHolding'
    <2>. SUFFICES ASSUME ControlIInv, BusyWhileHolding, [Tick]_vars PROVE BusyWhileHolding'
        OBVIOUS
    <2>1. CASE UNCHANGED vars
        BY <2>1 DEF vars, receiverVars, BusyWhileHolding, EmptyMessage, Arrays
    <2>2. CASE ReceiverIdle /\ UNCHANGED call
        BY <2>2 DEF ReceiverIdle, Ask, Rest, BusyWhileHolding, EmptyMessage, Arrays
    <2>3. CASE ReceiverAsks \/ ReceiverStalls \/ ReceiverCancels
        BY <2>3 DEF ReceiverAsks, ReceiverStalls, ReceiverCancels, Accept, Stall, BusyWhileHolding
    <2>4. CASE ReceiverStreams
        <3>1. business' = business /\ receivePhase = "stream"
            BY <2>4 DEF ReceiverStreams
        <3>. QED
            BY <3>1 DEF BusyWhileHolding, ControlIInv, TypeOK
    <2>. QED
        BY <2>1, <2>2, <2>3, <2>4 DEF Tick, ReceiverTick
<1>. QED
    BY <1>1, <1>2, Control, PTL DEF Spec

-----------------------------------------------------------------------------
(* The lock-step of the two threads.                                       *)

\* The ports hold the package that the sender has counted last.
LEMMA PortsStep ==
    ASSUME ControlIInv, PortsInv, SenderTick, call' = call
    PROVE  PortsInv'
<1>1. PortNumbers' = PortNumbers
    BY DEF PortNumbers
<1>2. call.ports \in Nat /\ 1 \in Arrays
    BY CallFacts DEF ControlIInv, TypeOK
<1>3. ASSUME NEW a \in Arrays, NEW k \in Nat, NEW ports, Put(a, k, ports),
             sendArray' = a, packagesSent' = k + 1, sendPhase' = "offer" => a = 1 /\ k = 0
      PROVE  PortsInv'
    <2>1. packagesSent' - 1 = k
        BY <1>3
    <2>2. \A p \in PortNumbers : k * call.ports + p < call.sends[a] =>
                dataPorts'[p] = <<message', a, k * call.ports + p>>
        BY <1>3 DEF Put
    <2>. QED
        BY <1>1, <1>3, <2>1, <2>2 DEF PortsInv
<1>4. ASSUME NEW ports, Offer(ports)
      PROVE  PortsInv'
    BY <1>2, <1>3, <1>4 DEF Offer
<1>5. CASE StayIdle
    BY <1>5 DEF StayIdle, PortsInv
<1>6. CASE Continue
    <2>1. sendArray \in Nat /\ packagesSent \in Nat /\ Len(call.sends) \in Nat
        <3>1. call \in Calls /\ sendArray \in Arrays
            BY DEF ControlIInv, TypeOK
        <3>2. Packages(call.sends[sendArray]) \in Nat
            BY <3>1, CallFacts, PackagesBound
        <3>. QED
            BY <3>1, <3>2, CallFacts DEF ControlIInv, TypeOK, Arrays
    <2>2. CASE Stream(sendArray, packagesSent, dataPorts)
        <3>1. sendArray \in Arrays
            BY DEF ControlIInv, TypeOK
        <3>2. sendPhase' = "stream"
            BY <2>2 DEF Stream
        <3>. QED
            BY <1>3, <2>1, <2>2, <3>1, <3>2 DEF Stream
    <2>3. CASE sendArray # Len(call.sends) /\ Stream(sendArray + 1, 0, Cleared)
        <3>1. sendArray + 1 \in Arrays
            BY <2>1, <2>3 DEF ControlIInv, TypeOK, Arrays
        <3>2. sendPhase' = "stream" /\ packagesSent' = 0 + 1
            BY <2>3 DEF Stream
        <3>. QED
            BY <1>3, <2>3, <3>1, <3>2 DEF Stream
    <2>. QED
        BY <1>4, <1>5, <1>6, <2>2, <2>3 DEF Continue
<1>7. CASE SenderIdle
    BY <1>4, <1>5, <1>7 DEF SenderIdle
<1>8. CASE SenderOffers
    <2>1. UNCHANGED <<dataPorts, sendPhase, sendArray, packagesSent, message>>
        BY <1>8 DEF SenderOffers, senderVars
    <2>. QED
        BY <1>1, <2>1 DEF PortsInv
<1>. QED
    BY <1>6, <1>7, <1>8 DEF SenderTick, SenderIsAccepted, SenderStreams

\* Taking the package on the ports of message m.
LEMMA TakeStep ==
    ASSUME ControlIInv, PortsInv, call' = call, sendPhase # "idle",
           NEW m, NEW a, NEW k, m = message, a = sendArray, k = packagesSent - 1,
           Holds(m, a, k), Take(a, k)
    PROVE  Holds(m, a, k + 1)'
<1>1. call \in Calls /\ ReceiverTypeOK /\ a \in Arrays
    BY TypeParts DEF ControlIInv, TypeOK
<1>2. k \in Nat /\ call.ports \in Nat \ {0}
    <2>1. Packages(call.sends[a]) \in Nat
        BY <1>1, CallFacts, PackagesBound
    <2>. QED
        BY <1>1, <2>1, CallFacts DEF ControlIInv, TypeOK
<1>3. Arrays' = Arrays /\ \A b \in Arrays : CommonElements(b)' = CommonElements(b)
    BY DEF Arrays, CommonElements
<1>4. dataToReceive' = [b \in Arrays |-> [i \in 0 .. call.receives[b] - 1 |->
            IF b = a /\ i \div call.ports = k THEN dataPorts[i % call.ports]
            ELSE dataToReceive[b][i]]]
    BY <1>1, TakeEffect
<1>5. ASSUME NEW b \in Arrays, NEW i \in CommonElements(b),
             b < a \/ (b = a /\ i \div call.ports < k + 1)
      PROVE  dataToReceive'[b][i] = <<m, b, i>>
    <2>1. i \in Nat /\ i \in 0 .. call.receives[b] - 1 /\ i < call.sends[b]
        BY <1>1, <1>5, CallFacts DEF CommonElements
    <2>2. dataToReceive'[b][i] = IF b = a /\ i \div call.ports = k THEN dataPorts[i % call.ports]
                                 ELSE dataToReceive[b][i]
        BY <1>4, <1>5, <2>1
    <2>3. /\ i \div call.ports \in Nat /\ i % call.ports \in PortNumbers
          /\ i = (i \div call.ports) * call.ports + (i % call.ports)
        BY <1>2, <2>1, DivMod DEF PortNumbers
    <2>4. CASE b = a /\ i \div call.ports = k
        <3>1. dataPorts[i % call.ports] = <<m, a, k * call.ports + (i % call.ports)>>
            BY <2>1, <2>3, <2>4 DEF PortsInv
        <3>. QED
            BY <2>2, <2>3, <2>4, <3>1
    <2>5. CASE ~(b = a /\ i \div call.ports = k)
        <3>1. b < a \/ (b = a /\ i \div call.ports < k)
            BY <1>2, <1>5, <2>3, <2>5
        <3>. QED
            BY <1>5, <2>2, <2>5, <3>1 DEF Holds
    <2>. QED
        BY <2>4, <2>5
<1>. QED
    BY <1>3, <1>5 DEF Holds

\* Where the two threads go from package k of array a.
LEMMA ContinueStep ==
    ASSUME ControlIInv, Continue, NEW a, NEW k, a = sendArray, k = packagesSent - 1
    PROVE  \/ /\ k + 1 # Packages(call.sends[a])
              /\ sendPhase' = "stream" /\ sendArray' = a /\ packagesSent' = k + 2
              /\ message' = message
           \/ /\ k + 1 = Packages(call.sends[a])
              /\ a # Len(call.sends)
              /\ sendPhase' = "stream" /\ sendArray' = a + 1 /\ packagesSent' = 1
              /\ message' = message
           \/ /\ k + 1 = Packages(call.sends[a])
              /\ a = Len(call.sends)
              /\ \/ sendPhase' = "offer" /\ message' = NextMessage(message)
                 \/ sendPhase' = "idle" /\ message' = message
<1>1. packagesSent \in Nat /\ packagesSent = k + 1
    <2>1. Packages(call.sends[sendArray]) \in Nat
        BY CallFacts, PackagesBound DEF ControlIInv, TypeOK
    <2>. QED
        BY <2>1 DEF ControlIInv, TypeOK
<1>2. CASE ~ArraySent /\ Stream(sendArray, packagesSent, dataPorts)
    BY <1>1, <1>2 DEF ArraySent, Stream
<1>3. CASE ArraySent /\ a # Len(call.sends) /\ Stream(sendArray + 1, 0, Cleared)
    BY <1>1, <1>3 DEF ArraySent, Stream
<1>4. CASE ArraySent /\ a = Len(call.sends) /\ (Offer(Cleared) \/ StayIdle)
    BY <1>1, <1>4 DEF ArraySent, Offer, StayIdle
<1>. QED
    BY <1>2, <1>3, <1>4 DEF Continue

LEMMA ReceiveStep ==
    ASSUME NEW a, NEW k, Receive(a, k)
    PROVE  /\ Take(a, k)
           /\ \/ /\ k + 1 # Packages(call.receives[a])
                 /\ receivePhase' = "stream" /\ receiveArray' = a /\ packagesReceived' = k + 1
                 /\ delivered' = delivered
              \/ /\ k + 1 = Packages(call.receives[a])
                 /\ a # Len(call.receives)
                 /\ receivePhase' = "stream" /\ receiveArray' = a + 1 /\ packagesReceived' = 0
                 /\ delivered' = delivered
              \/ /\ k + 1 = Packages(call.receives[a])
                 /\ a = Len(call.receives)
                 /\ receivePhase' \in {"ask", "idle"}
                 /\ delivered' = IF dataToReceive'[1][0] = Nothing THEN delivered
                                 ELSE dataToReceive'[1][0][1]
BY DEF Receive, Ask, Rest

\* The parts of the invariant that follow the data.
Lockstep == PortsInv /\ StepInv /\ MessageInv /\ PartialInv

\* What the receiver has when it takes the last package of message m.
Complete(m) ==
    delivered' # delivered =>
        /\ delivered' = m
        /\ \A a \in Arrays : \A i \in CommonElements(a) : dataToReceive'[a][i] = <<m, a, i>>

\* A message that is received to the end is recorded under its number.
LEMMA Recorded ==
    ASSUME ControlIInv, call' = call, NEW m, m = NextMessage(delivered),
           \A b \in Arrays : \A i \in CommonElements(b) : dataToReceive'[b][i] = <<m, b, i>>,
           delivered' = IF dataToReceive'[1][0] = Nothing THEN delivered ELSE dataToReceive'[1][0][1]
    PROVE  delivered' = m
<1>1. 1 \in Arrays /\ 0 \in CommonElements(1)
    BY CallFacts DEF ControlIInv, TypeOK, CommonElements
<1>2. dataToReceive'[1][0] = <<m, 1, 0>>
    BY <1>1
<1>3. m \in Nat
    BY NextMessageType, TransferAssumption DEF ControlIInv, TypeOK
<1>4. <<m, 1, 0>> # Nothing
    BY <1>3, TransferAssumption
<1>. QED
    BY <1>2, <1>4

\* Both threads go on from the package that is on the ports.
LEMMA InStepTakes ==
    ASSUME ControlIInv, PortsInv, PortsInv', call' = call,
           sendPhase # "idle", Continue,
           NEW m, NEW a, NEW k, m = message, a = sendArray, k = packagesSent - 1,
           m = NextMessage(delivered), Holds(m, a, k), Receive(a, k)
    PROVE  Lockstep' /\ Complete(m)
<1>1. /\ a \in Arrays /\ a \in Nat /\ k \in Nat /\ Len(call.sends) \in Nat
      /\ Len(call.receives) = Len(call.sends)
      /\ a # Len(call.sends) => call.sends[a] = call.receives[a]
      /\ call.ports \in Nat \ {0}
      /\ Packages(call.sends[a]) \in Nat /\ Packages(call.receives[a]) \in Nat
    <2>1. call \in Calls /\ a \in Arrays
        BY DEF ControlIInv, TypeOK
    <2>2. Packages(call.sends[a]) \in Nat /\ Packages(call.receives[a]) \in Nat
        BY <2>1, CallFacts, PackagesBound
    <2>3. k \in Nat
        BY <2>2 DEF ControlIInv, TypeOK
    <2>4. Len(call.sends) \in Nat /\ a \in Nat
        BY <2>1, CallFacts DEF Arrays
    <2>. QED
        BY <2>1, <2>2, <2>3, <2>4, CallFacts
<1>2. Holds(m, a, k + 1)'
    BY ReceiveStep, TakeStep
<1>3. Arrays' = Arrays /\ \A b \in Arrays : CommonElements(b)' = CommonElements(b)
    BY DEF Arrays, CommonElements
<1>4. \A b \in Arrays : \A i \in CommonElements(b) :
        b < a \/ (b = a /\ i \div call.ports < k + 1) => dataToReceive'[b][i] = <<m, b, i>>
    BY <1>2, <1>3 DEF Holds
<1>5. ASSUME k + 1 = Packages(call.receives[a])
      PROVE  \A i \in CommonElements(a) : i \div call.ports < k + 1
    <2>1. \A i \in 0 .. call.receives[a] - 1 : i \div call.ports \in 0 .. k
        <3>1. call \in Calls /\ call.receives[a] \in Nat \ {0}
            BY <1>1, CallFacts DEF ControlIInv, TypeOK
        <3>2. \A i \in 0 .. call.receives[a] - 1 :
                    i \div call.ports \in 0 .. Packages(call.receives[a]) - 1
            BY <3>1, PackagesBound
        <3>. QED
            BY <1>1, <1>5, <3>2
    <2>2. \A i \in CommonElements(a) : i \in 0 .. call.receives[a] - 1
        <3>1. call.receives[a] \in Nat /\ call.sends[a] \in Nat
            BY <1>1, CallFacts DEF ControlIInv, TypeOK
        <3>. QED
            BY <3>1 DEF CommonElements
    <2>. QED
        BY <1>1, <2>1, <2>2
<1>6. CASE k + 1 # Packages(call.receives[a])
    <2>1. /\ receivePhase' = "stream" /\ receiveArray' = a /\ packagesReceived' = k + 1
          /\ delivered' = delivered
        BY <1>6, ReceiveStep
    <2>2. Accepted' = m
        BY <2>1 DEF Accepted, NextMessage
    <2>3. InStep' \/ Beyond'
        <3>1. CASE k + 1 # Packages(call.sends[a])
            BY <1>1, <2>1, <3>1, ContinueStep DEF InStep
        <3>2. CASE k + 1 = Packages(call.sends[a])
            <4>1. a = Len(call.sends) /\ sendPhase' # "stream"
                BY <1>1, <1>6, <3>2, ContinueStep
            <4>2. Packages(call.sends[receiveArray])' = k + 1
                BY <2>1, <3>2 DEF Packages
            <4>. QED
                BY <1>1, <2>1, <4>1, <4>2 DEF Beyond
        <3>. QED
            BY <3>1, <3>2
    <2>4. MessageInv'
        BY <2>2, ContinueStep DEF MessageInv, NextMessage
    <2>5. PartialInv'
        BY <1>2, <2>1, <2>2 DEF PartialInv
    <2>. QED
        BY <2>1, <2>3, <2>4, <2>5 DEF Lockstep, StepInv, Complete
<1>7. CASE k + 1 = Packages(call.receives[a]) /\ a # Len(call.receives)
    <2>1. /\ receivePhase' = "stream" /\ receiveArray' = a + 1 /\ packagesReceived' = 0
          /\ delivered' = delivered
        BY <1>7, ReceiveStep
    <2>2. Accepted' = m
        BY <2>1 DEF Accepted, NextMessage
    <2>3. InStep'
        BY <1>1, <1>7, <2>1, ContinueStep DEF InStep
    <2>4. MessageInv'
        BY <2>2, ContinueStep DEF MessageInv, NextMessage
    <2>5. Holds(m, a + 1, 0)'
        <3>1. ASSUME NEW b \in Arrays, NEW i \in CommonElements(b),
                     b < a + 1 \/ (b = a + 1 /\ i \div call.ports < 0)
              PROVE  dataToReceive'[b][i] = <<m, b, i>>
            <4>1. b \in Nat /\ i \div call.ports \in Nat
                <5>1. i \in Nat
                    BY CallFacts DEF ControlIInv, TypeOK, CommonElements
                <5>2. i \div call.ports \in Nat
                    BY <1>1, <5>1, DivMod
                <5>3. b \in Nat
                    BY <1>1 DEF Arrays
                <5>. QED
                    BY <5>2, <5>3
            <4>2. b < a \/ b = a
                BY <1>1, <3>1, <4>1
            <4>. QED
                BY <1>4, <1>5, <1>7, <3>1, <4>2
        <3>. QED
            BY <1>3, <3>1 DEF Holds
    <2>6. PartialInv'
        BY <2>1, <2>2, <2>5 DEF PartialInv
    <2>. QED
        BY <2>1, <2>3, <2>4, <2>6 DEF Lockstep, StepInv, Complete
<1>8. CASE k + 1 = Packages(call.receives[a]) /\ a = Len(call.receives)
    <2>1. /\ receivePhase' # "stream"
          /\ delivered' = IF dataToReceive'[1][0] = Nothing THEN delivered
                          ELSE dataToReceive'[1][0][1]
        BY <1>8, ReceiveStep
    <2>2. \A b \in Arrays : \A i \in CommonElements(b) : dataToReceive'[b][i] = <<m, b, i>>
        <3>1. \A b \in Arrays : b < a \/ b = a
            BY <1>1, <1>8 DEF Arrays
        <3>. QED
            BY <1>4, <1>5, <1>8, <3>1
    <2>3. delivered' = m
        BY <2>1, <2>2, Recorded
    <2>4. Accepted' = m
        BY <2>1, <2>3 DEF Accepted
    <2>5. MessageInv'
        BY <2>4, ContinueStep DEF MessageInv, NextMessage
    <2>. QED
        BY <2>1, <2>2, <2>3, <2>5 DEF Lockstep, StepInv, PartialInv, Complete
<1>. QED
    BY <1>6, <1>7, <1>8

\* The receiver goes on beyond what was sent: what it has stays.
LEMMA BeyondTakes ==
    ASSUME ControlIInv, Lockstep, PortsInv', call' = call, SenderTick,
           receivePhase = "stream", Beyond, Receive(receiveArray, packagesReceived)
    PROVE  Lockstep' /\ Complete(Accepted)
<1>1. PICK m \in Nat, a \in Arrays, k \in Nat :
            m = NextMessage(delivered) /\ a = receiveArray /\ k = packagesReceived
    <2>1. NextMessage(delivered) \in Nat
        <3>1. NextMessage(delivered) \in 0 .. Messages - 1
            BY NextMessageType DEF ControlIInv, TypeOK
        <3>. QED
            BY <3>1, TransferAssumption
    <2>2. Packages(call.receives[receiveArray]) \in Nat
        BY CallFacts, PackagesBound DEF ControlIInv, TypeOK
    <2>. QED
        BY <2>1, <2>2 DEF ControlIInv, TypeOK
<1>2. /\ a = Len(call.sends) /\ Len(call.receives) = Len(call.sends)
      /\ call.ports \in Nat \ {0} /\ call.sends[a] \in Nat \ {0}
      /\ Packages(call.sends[a]) \in Nat \ {0}
      /\ k >= Packages(call.sends[a])
    BY <1>1, CallFacts, PackagesBound DEF ControlIInv, TypeOK, Beyond
<1>3. Arrays' = Arrays /\ \A b \in Arrays : CommonElements(b)' = CommonElements(b)
    BY DEF Arrays, CommonElements
<1>4. ~receiving /\ sendPhase \in {"idle", "offer"}
    BY DEF ControlIInv, TypeOK, ControlInv, Beyond
<1>5. \/ sendPhase' = sendPhase /\ message' = message
      \/ sendPhase = "idle" /\ sendPhase' = "offer" /\ message' = NextMessage(message)
    BY <1>4 DEF SenderTick, SenderIdle, SenderOffers, SenderIsAccepted, SenderStreams,
                StayIdle, Offer, senderVars
<1>6. \A i \in CommonElements(a) : i \div call.ports < Packages(call.sends[a])
    <2>1. \A i \in CommonElements(a) : i \in 0 .. call.sends[a] - 1
        BY DEF CommonElements
    <2>2. \A i \in 0 .. call.sends[a] - 1 : i \div call.ports \in 0 .. Packages(call.sends[a]) - 1
        BY <1>2, PackagesBound DEF ControlIInv, TypeOK
    <2>. QED
        BY <1>2, <2>1, <2>2
<1>7. \A b \in Arrays : \A i \in CommonElements(b) : dataToReceive'[b][i] = <<m, b, i>>
    <2>1. ASSUME NEW b \in Arrays, NEW i \in CommonElements(b)
          PROVE  dataToReceive'[b][i] = <<m, b, i>>
        <3>1. i \in 0 .. call.receives[b] - 1 /\ i \in Nat
            BY CallFacts DEF ControlIInv, TypeOK, CommonElements
        <3>2. i \div call.ports \in Nat /\ (b < a \/ b = a)
            <4>1. i \div call.ports \in Nat
                BY <1>2, <3>1, DivMod
            <4>2. b < a \/ b = a
                BY <1>2 DEF Arrays
            <4>. QED
                BY <4>1, <4>2
        <3>3. b < a \/ (b = a /\ i \div call.ports < k)
            BY <1>2, <1>6, <3>2
        <3>4. dataToReceive[b][i] = <<m, b, i>>
            BY <1>1, <3>3 DEF Lockstep, PartialInv, Holds, Accepted
        <3>5. ~(b = a /\ i \div call.ports = k)
            BY <1>2, <3>2, <3>3
        <3>6. ReceiverTypeOK /\ Take(a, k)
            BY <1>1, TypeParts, ReceiveStep DEF ControlIInv
        <3>7. dataToReceive' = [c \in Arrays |-> [j \in 0 .. call.receives[c] - 1 |->
                    IF c = a /\ j \div call.ports = k THEN dataPorts[j % call.ports]
                    ELSE dataToReceive[c][j]]]
            BY <3>6, TakeEffect DEF ControlIInv, TypeOK
        <3>8. dataToReceive'[b][i] = dataToReceive[b][i]
            BY <3>1, <3>5, <3>7
        <3>. QED
            BY <3>4, <3>8
    <2>. QED
        BY <2>1
<1>8. CASE receivePhase' = "stream"
    <2>1. receiveArray' = a /\ packagesReceived' = k + 1 /\ delivered' = delivered
        BY <1>1, <1>2, <1>8, ReceiveStep
    <2>2. Accepted = m /\ Accepted' = m
        BY <1>1, <1>8, <2>1 DEF Accepted, NextMessage
    <2>3. Beyond'
        <3>1. Packages(call.sends[receiveArray])' = Packages(call.sends[a])
            BY <2>1 DEF Packages
        <3>. QED
            BY <1>2, <1>4, <1>5, <2>1, <3>1 DEF Beyond
    <2>4. MessageInv'
        BY <1>4, <1>5, <2>2 DEF Lockstep, MessageInv, NextMessage
    <2>5. Holds(m, a, k + 1)'
        BY <1>3, <1>7 DEF Holds
    <2>6. PartialInv'
        BY <2>1, <2>2, <2>5 DEF PartialInv
    <2>. QED
        BY <2>1, <2>3, <2>4, <2>6 DEF Lockstep, StepInv, Complete
<1>9. CASE receivePhase' # "stream"
    <2>1. delivered' = IF dataToReceive'[1][0] = Nothing THEN delivered
                       ELSE dataToReceive'[1][0][1]
        BY <1>9, ReceiveStep
    <2>2. delivered' = m
        BY <1>1, <1>7, <2>1, Recorded
    <2>3. Accepted = m /\ Accepted' = m
        BY <1>1, <1>9, <2>2 DEF Accepted
    <2>4. MessageInv'
        BY <1>4, <1>5, <2>3 DEF Lockstep, MessageInv, NextMessage
    <2>. QED
        BY <1>7, <1>9, <2>2, <2>3, <2>4 DEF Lockstep, StepInv, PartialInv, Complete
<1>. QED
    BY <1>8, <1>9

\* The receiver is not in a message, and takes none.
LEMMA NothingTaken ==
    ASSUME ControlIInv, Lockstep, PortsInv', call' = call, SenderTick,
           receivePhase # "stream", receivePhase' # "stream",
           ~SenderSeesHandshake, delivered' = delivered
    PROVE  Lockstep'
<1>1. \/ sendPhase' = sendPhase /\ message' = message
      \/ sendPhase # "offer" /\ sendPhase' = "offer" /\ message' = NextMessage(message)
      \/ sendPhase # "offer" /\ sendPhase' # "offer" /\ message' = message
    BY DEF SenderTick, SenderIdle, SenderOffers, SenderIsAccepted, SenderStreams,
           SenderSeesHandshake, Continue, StayIdle, Offer, Stream, senderVars
<1>2. Accepted = delivered /\ Accepted' = delivered
    BY DEF Accepted
<1>. QED
    BY <1>1, <1>2 DEF Lockstep, StepInv, PartialInv, MessageInv, NextMessage

\* One tick keeps the threads in step, and completes only the message that is
\* next.
LEMMA TickLockstep ==
    ASSUME ControlIInv, NoTimeout, Lockstep, Tick
    PROVE  Lockstep' /\ (delivered' # delivered => Complete(NextMessage(delivered)))
<1>1. call' = call /\ SenderTick /\ ReceiverTick
    BY DEF Tick
<1>2. PortsInv'
    BY <1>1, PortsStep DEF Lockstep
<1>3. SenderSeesHandshake <=> ReceiverSeesHandshake
    BY ControlAgrees DEF HandshakeAgrees
<1>4. CASE ReceiverStreams
    <2>1. receivePhase = "stream" /\ Receive(receiveArray, packagesReceived)
        BY <1>4 DEF ReceiverStreams
    <2>2. Accepted = NextMessage(delivered)
        BY <2>1 DEF Accepted
    <2>3. CASE InStep
        <3>1. PICK m, a, k : /\ m = message /\ a = sendArray /\ k = packagesSent - 1
                             /\ a = receiveArray /\ k = packagesReceived
            <4>1. packagesReceived = packagesSent - 1
                <5>1. packagesReceived \in Int
                    BY DEF ControlIInv, TypeOK
                <5>. QED
                    BY <2>3, <5>1 DEF InStep
            <4>. QED
                BY <2>3, <4>1 DEF InStep
        <3>2. sendPhase = "stream" /\ Continue
            BY <1>1, <2>3 DEF InStep, SenderTick, SenderIdle, SenderOffers, SenderIsAccepted,
                              SenderStreams
        <3>3. m = NextMessage(delivered) /\ Holds(m, a, k)
            BY <2>1, <2>2, <3>1, <3>2 DEF Lockstep, MessageInv, PartialInv
        <3>. QED
            BY <1>1, <1>2, <2>1, <3>1, <3>2, <3>3, InStepTakes DEF Lockstep
    <2>4. CASE Beyond
        BY <1>1, <1>2, <2>1, <2>2, <2>4, BeyondTakes
    <2>. QED
        BY <2>1, <2>3, <2>4 DEF Lockstep, StepInv
<1>5. CASE ReceiverSeesHandshake /\ Receive(1, 0) /\ receivePhase # "stream"
    <2>1. sendPhase = "offer" /\ Continue
        BY <1>1, <1>3, <1>5 DEF SenderSeesHandshake, SenderTick, SenderIdle, SenderOffers,
                                SenderIsAccepted, SenderStreams
    <2>2. sendArray = 1 /\ packagesSent - 1 = 0 /\ message = NextMessage(delivered)
        BY <1>5, <2>1 DEF Lockstep, PortsInv, MessageInv, Accepted
    <2>3. \A m : Holds(m, 1, 0)
        <3>1. ASSUME NEW b \in Arrays, NEW i \in CommonElements(b)
              PROVE  ~(b < 1 \/ (b = 1 /\ i \div call.ports < 0))
            <4>1. i \in Nat /\ call.ports \in Nat \ {0} /\ b \in Nat /\ b >= 1
                BY CallFacts DEF ControlIInv, TypeOK, CommonElements, Arrays
            <4>2. i \div call.ports \in Nat
                BY <4>1, DivMod
            <4>. QED
                BY <4>1, <4>2
        <3>. QED
            BY <3>1 DEF Holds
    <2>. QED
        BY <1>1, <1>2, <1>5, <2>1, <2>2, <2>3, InStepTakes DEF Lockstep
<1>6. CASE /\ receivePhase # "stream" /\ receivePhase' # "stream"
           /\ ~ReceiverSeesHandshake /\ delivered' = delivered
    BY <1>1, <1>2, <1>3, <1>6, NothingTaken
<1>7. CASE ReceiverIdle
    BY <1>6, <1>7 DEF ReceiverIdle, Ask, Rest, ReceiverSeesHandshake
<1>8. CASE ReceiverAsks
    BY <1>5, <1>6, <1>8 DEF ReceiverAsks, Accept, Stall, ReceiverSeesHandshake
<1>9. CASE ReceiverStalls
    BY <1>5, <1>6, <1>9 DEF ReceiverStalls, Accept, Stall, ReceiverSeesHandshake
<1>10. CASE ReceiverCancels
    BY <1>6, <1>10 DEF ReceiverCancels, Ask, Rest, ReceiverSeesHandshake
<1>. QED
    BY <1>1, <1>4, <1>7, <1>8, <1>9, <1>10 DEF ReceiverTick

LEMMA IInvParts == IInv <=> ControlIInv /\ (NoTimeout => Lockstep)
BY DEF IInv, ControlIInv, Lockstep

LEMMA InitIInv == Init => IInv
<1>. SUFFICES ASSUME Init PROVE IInv
    OBVIOUS
<1>1. Lockstep
    BY DEF Init, Lockstep, PortsInv, StepInv, MessageInv, PartialInv, Accepted
<1>. QED
    BY <1>1, InitControl, IInvParts

LEMMA StutterLockstep == Lockstep /\ UNCHANGED vars => Lockstep'
<1>. SUFFICES ASSUME Lockstep, UNCHANGED vars PROVE Lockstep'
    OBVIOUS
<1>1. UNCHANGED <<call, dataPorts, sendPhase, sendArray, packagesSent, message,
                  receivePhase, receiveArray, packagesReceived, dataToReceive, delivered>>
    BY DEF vars, senderVars, receiverVars
<1>2. PortsInv'
    BY <1>1 DEF Lockstep, PortsInv, PortNumbers
<1>3. StepInv'
    BY <1>1 DEF Lockstep, StepInv, InStep, Beyond, Packages
<1>4. MessageInv'
    BY <1>1 DEF Lockstep, MessageInv, Accepted, NextMessage
<1>5. PartialInv'
    BY <1>1 DEF Lockstep, PartialInv, Accepted, NextMessage, Holds, Arrays, CommonElements
<1>. QED
    BY <1>2, <1>3, <1>4, <1>5 DEF Lockstep

LEMMA TickIInv == IInv /\ [Tick]_vars => IInv'
<1>. SUFFICES ASSUME IInv, [Tick]_vars PROVE IInv'
    OBVIOUS
<1>1. ControlIInv' /\ call' = call
    BY IInvParts, TickControl DEF Tick, vars
<1>2. NoTimeout' => Lockstep'
    BY <1>1, IInvParts, TickLockstep, StutterLockstep DEF NoTimeout
<1>3. IInv' <=> ControlIInv' /\ (NoTimeout' => Lockstep')
    BY DEF IInv, ControlIInv, Lockstep
<1>. QED
    BY <1>1, <1>2, <1>3

\* Without a timeout sender and receiver stay in step from the handshake on,
\* through all packages and arrays, although no signal tells them to.
THEOREM InStepAlways == Spec => []IInv
BY InitIInv, TickIInv, PTL DEF Spec

\* Without a timeout messages arrive in order, none lost and none twice, every
\* element where it was sent from: for any number of ports, packages, arrays
\* and elements, and callers that read less or more than was sent.
THEOREM DeliverySafe == Spec => DeliveredIntact
<1>1. IInv /\ [Tick]_vars =>
        [NoTimeout /\ receivePhase # "idle" /\ delivered' # delivered =>
            /\ delivered' = NextMessage(delivered)
            /\ \A a \in Arrays : \A i \in CommonElements(a) :
                    dataToReceive'[a][i] = <<delivered', a, i>>]_vars
    <2>. SUFFICES ASSUME IInv, Tick, NoTimeout, delivered' # delivered
                  PROVE  /\ delivered' = NextMessage(delivered)
                         /\ \A a \in Arrays : \A i \in CommonElements(a) :
                                dataToReceive'[a][i] = <<delivered', a, i>>
        OBVIOUS
    <2>1. Complete(NextMessage(delivered))
        BY IInvParts, TickLockstep
    <2>. QED
        BY <2>1 DEF Complete
<1>. QED
    BY <1>1, InStepAlways, PTL DEF Spec, DeliveredIntact
=============================================================================
