------------------------------- MODULE Transfer -------------------------------
(***************************************************************************)
(* The handshake of gpu/util/transfer.h, by which every two blocks of the  *)
(* pipeline exchange data: one thread calls sendArrayImpl again and again, *)
(* another receiveArrayImpl, and each does other things for any number of  *)
(* ticks in between.                                                       *)
(*                                                                         *)
(* An array travels through parallel ports, one package of at most one     *)
(* element per port in a tick.  Shader requests are made of several        *)
(* arrays: the first performs the handshake, the others follow without one *)
(* (performHandshake = false).  A message is the whole of it.              *)
(*                                                                         *)
(* The two sides always call with the same arguments; Calls is the set of  *)
(* these.  A call is a record with dataPortsCount, the dataToSendCount and *)
(* dataToReceiveCount of each array of a message, which some callers do    *)
(* not agree on, and the timeout of the receiver, 0 for no timeout.        *)
(*                                                                         *)
(* An element is a token <<message, array, index>>.                        *)
(***************************************************************************)
EXTENDS Integers, Sequences

CONSTANTS
    Calls,          \* the calls [ports, sends, receives, timeout] of the program
    Messages,       \* messages are numbered modulo this
    Nothing         \* the value of a cleared data port

\* The FATAL_ERROR_IFs at the top of both functions.
ASSUME TransferAssumption ==
    /\ \A c \in Calls :
        /\ c.ports \in Nat \ {0}
        /\ c.sends \in Seq(Nat \ {0}) /\ c.sends # <<>>
        /\ c.receives \in Seq(Nat \ {0}) /\ Len(c.receives) = Len(c.sends)
        /\ c.timeout \in Nat
    /\ Messages \in Nat \ {0}
    /\ Nothing \notin Nat \X Nat \X Nat

\* Where a message is made of several arrays, as the shader requests are, both
\* sides cut it at the same places; only its last array may differ in length.
ASSUME LayoutAssumption ==
    \A c \in Calls : \A a \in 1 .. Len(c.sends) - 1 : c.sends[a] = c.receives[a]

VARIABLES
    call,                   \* the arguments of both sides
    sending, receiving,     \* the control signals
    dataPorts,              \* [PortNumbers -> elements]
    sendPhase,              \* where the sender waits
    sendArray, packagesSent,
    message,                \* number of the message last offered
    receivePhase,           \* where the receiver waits
    receiveArray, packagesReceived,
    dataToReceive,          \* what the receiver has received
    clocksWaiting,
    business,               \* outBusinessSignal of the receiver
    delivered               \* history: number of the message last received

senderVars == <<sending, dataPorts, sendPhase, sendArray, packagesSent, message>>
receiverVars == <<receiving, receivePhase, receiveArray, packagesReceived, dataToReceive,
                  clocksWaiting, business, delivered>>
vars == <<call, senderVars, receiverVars>>

PortNumbers == 0 .. call.ports - 1
Arrays == 1 .. Len(call.sends)

Packages(count) == (count + call.ports - 1) \div call.ports

Cleared == [p \in PortNumbers |-> Nothing]

NextMessage(m) == (m + 1) % Messages

-----------------------------------------------------------------------------
(* sendArrayImpl.  "offer": in the do loop of the handshake; "stream": at  *)
(* the wait() after a further package was put on the ports.                *)

\* Mutant: every package holds the first elements again.
MutPutFirst(a, k, ports) ==
    dataPorts' = [p \in PortNumbers |->
        IF k * call.ports + p < call.sends[a] THEN <<message', a, p>> ELSE ports[p]]

\* Package k of array a on the ports; ports beyond its end keep what is there.
Put(a, k, ports) ==
    dataPorts' = [p \in PortNumbers |->
        IF k * call.ports + p < call.sends[a] THEN <<message', a, k * call.ports + p>> ELSE ports[p]]

\* Mutant: the first package is put on the ports, but outSending is not raised.
MutOfferSilently(ports) ==
    /\ message' = NextMessage(message)
    /\ Put(1, 0, ports)
    /\ sending' = FALSE
    /\ sendPhase' = "offer"
    /\ sendArray' = 1
    /\ packagesSent' = 1

\* The call begins: raise outSending with the first package.
Offer(ports) ==
    /\ message' = NextMessage(message)
    /\ Put(1, 0, ports)
    /\ sending' = TRUE
    /\ sendPhase' = "offer"
    /\ sendArray' = 1
    /\ packagesSent' = 1

\* Mutant: a sender that returns has not lowered outSending.
MutStayIdle ==
    /\ UNCHANGED <<sending, message, sendArray, packagesSent>>
    /\ dataPorts' = Cleared
    /\ sendPhase' = "idle"

StayIdle ==
    /\ sending' = FALSE
    /\ dataPorts' = Cleared
    /\ sendPhase' = "idle"
    /\ UNCHANGED <<sendArray, packagesSent, message>>

Stream(a, k, ports) ==
    /\ UNCHANGED message
    /\ Put(a, k, ports)
    /\ sending' = FALSE
    /\ sendPhase' = "stream"
    /\ sendArray' = a
    /\ packagesSent' = k + 1

ArraySent == packagesSent = Packages(call.sends[sendArray])

\* After a wait(): the next package of the array, the next array, or the end of
\* the call, which the next call may follow at once.
Continue ==
    LET last == sendArray = Len(call.sends) IN
    \/ ~ArraySent /\ Stream(sendArray, packagesSent, dataPorts)
    \/ ArraySent /\ ~last /\ Stream(sendArray + 1, 0, Cleared)
    \/ ArraySent /\ last /\ Offer(Cleared)
    \/ ArraySent /\ last /\ StayIdle

SenderIdle == sendPhase = "idle" /\ (StayIdle \/ Offer(dataPorts))

SenderOffers == sendPhase = "offer" /\ ~receiving /\ UNCHANGED senderVars

SenderIsAccepted == sendPhase = "offer" /\ receiving /\ Continue

SenderStreams == sendPhase = "stream" /\ Continue

SenderTick == SenderIdle \/ SenderOffers \/ SenderIsAccepted \/ SenderStreams

-----------------------------------------------------------------------------
(* receiveArrayImpl.  "ask": at the first wait() of the handshake;         *)
(* "stall": at the wait() in its while loop; "stream": at the wait()       *)
(* before a further package.                                               *)

EmptyMessage == [a \in Arrays |-> [i \in 0 .. call.receives[a] - 1 |-> Nothing]]

\* The call begins: raise outReceiving.
Ask ==
    /\ receiving' = TRUE
    /\ receivePhase' = "ask"
    /\ clocksWaiting' = 1

Rest ==
    /\ receiving' = FALSE
    /\ receivePhase' = "idle"
    /\ clocksWaiting' = 1

\* Package k of array a is taken from the ports.
Take(a, k) ==
    dataToReceive' = [dataToReceive EXCEPT ![a] =
        [i \in 0 .. call.receives[a] - 1 |->
            IF i \div call.ports = k THEN dataPorts[i % call.ports] ELSE @[i]]]

\* The rest of the call, once package k of array a is taken.
Receive(a, k) ==
    LET done == k + 1 = Packages(call.receives[a])
        last == a = Len(call.receives)
    IN  /\ Take(a, k)
        /\ \/ /\ ~(done /\ last)
              /\ receiving' = FALSE
              /\ receivePhase' = "stream"
              /\ receiveArray' = IF done THEN a + 1 ELSE a
              /\ packagesReceived' = IF done THEN 0 ELSE k + 1
              /\ clocksWaiting' = 1
              /\ UNCHANGED delivered
           \/ /\ done /\ last
              /\ Ask \/ Rest
              /\ receiveArray' = 1
              /\ packagesReceived' = 0
              /\ delivered' = IF dataToReceive'[1][0] = Nothing THEN delivered
                               ELSE dataToReceive'[1][0][1]

ReceiverIdle ==
    /\ receivePhase = "idle"
    /\ Ask \/ Rest
    /\ UNCHANGED <<receiveArray, packagesReceived, dataToReceive, business, delivered>>

\* The while loop finds no sender.
Stall ==
    /\ receivePhase' = "stall"
    /\ business' = FALSE
    /\ UNCHANGED <<receiving, receiveArray, packagesReceived, dataToReceive, delivered>>

\* Mutant: the business signal is not raised again after a stall.
MutAcceptIdle == sending /\ UNCHANGED business /\ Receive(1, 0)

Accept ==
    /\ sending
    /\ business' = TRUE
    /\ Receive(1, 0)

\* Mutant: a missing timeout is not told from one that has passed.
MutTimesOut == clocksWaiting + 1 >= call.timeout

\* The test of the timeout comes before the next look at inpSending.  It counts
\* no further once it can no longer be met.
TimesOut == call.timeout >= clocksWaiting + 1

ReceiverAsks ==
    /\ receivePhase = "ask"
    /\ \/ Accept
       \/ ~sending /\ Stall /\ UNCHANGED clocksWaiting

ReceiverStalls ==
    /\ receivePhase = "stall"
    /\ ~TimesOut
    /\ \/ Accept
       \/ ~sending /\ Stall /\ clocksWaiting' = IF clocksWaiting > call.timeout THEN clocksWaiting
                                                ELSE clocksWaiting + 1

\* The call is cancelled and returns without data; the next may follow at once.
ReceiverCancels ==
    /\ receivePhase = "stall"
    /\ TimesOut
    /\ business' = TRUE
    /\ Ask \/ Rest
    /\ UNCHANGED <<receiveArray, packagesReceived, dataToReceive, delivered>>

ReceiverStreams ==
    /\ receivePhase = "stream"
    /\ Receive(receiveArray, packagesReceived)
    /\ UNCHANGED business

ReceiverTick ==
    ReceiverIdle \/ ReceiverAsks \/ ReceiverStalls \/ ReceiverCancels \/ ReceiverStreams

-----------------------------------------------------------------------------

Init ==
    /\ call \in Calls
    /\ sending = FALSE /\ receiving = FALSE
    /\ dataPorts = Cleared
    /\ sendPhase = "idle" /\ sendArray = 1 /\ packagesSent = 1
    /\ message = 0
    /\ receivePhase = "idle" /\ receiveArray = 1 /\ packagesReceived = 0
    /\ dataToReceive = EmptyMessage
    /\ clocksWaiting = 1
    /\ business = FALSE
    /\ delivered = 0

\* Both threads run in every tick of the clock.
Tick == SenderTick /\ ReceiverTick /\ UNCHANGED call

Spec == Init /\ [][Tick]_vars

FairSpec == Spec /\ WF_vars(Tick)

-----------------------------------------------------------------------------
(* Properties.                                                             *)

Elements == (0 .. Messages - 1) \X Arrays \X Nat \cup {Nothing}

TypeOK ==
    /\ call \in Calls
    /\ sending \in BOOLEAN /\ receiving \in BOOLEAN /\ business \in BOOLEAN
    /\ \A p \in PortNumbers : dataPorts[p] \in Elements
    /\ sendPhase \in {"idle", "offer", "stream"}
    /\ sendArray \in Arrays
    /\ packagesSent \in 1 .. Packages(call.sends[sendArray])
    /\ message \in 0 .. Messages - 1
    /\ receivePhase \in {"idle", "ask", "stall", "stream"}
    /\ receiveArray \in Arrays
    /\ packagesReceived \in 0 .. Packages(call.receives[receiveArray]) - 1
    /\ \A a \in Arrays : \A i \in DOMAIN dataToReceive[a] : dataToReceive[a][i] \in Elements
    /\ clocksWaiting \in 1 .. call.timeout + 1
    /\ delivered \in 0 .. Messages - 1

\* What the two threads conclude from the control signals in this tick.
SenderSeesHandshake == sendPhase = "offer" /\ receiving
ReceiverSeesHandshake ==
    /\ sending
    /\ receivePhase = "ask" \/ (receivePhase = "stall" /\ ~TimesOut)

NoTimeout == call.timeout = 0

\* Without a timeout, sender and receiver take the handshake to happen in the same tick, whichever
\* of them raised its signal first and whatever they did in the tick before: no
\* stale level of a signal that its owner is about to lower is mistaken for a
\* new offer.  Each side lowers its own signal on its own conclusion.
HandshakeAgrees == NoTimeout => (SenderSeesHandshake <=> ReceiverSeesHandshake)

\* The receiver never takes data from a sender that does not know of it.  This
\* half of the agreement holds with a timeout as well; the other half does not:
\* see TimeoutIsHonoured.
ReceiverTrustsSender == ReceiverSeesHandshake => SenderSeesHandshake

\* The elements both sides agree to be part of a message.
CommonElements(a) ==
    {i \in 0 .. call.sends[a] - 1 : i < call.receives[a]}

\* Messages arrive in the order sent, none lost and none twice, and every
\* element at the index it was sent from, however many packages and arrays the
\* message is cut into.
DeliveredIntact ==
    [][NoTimeout /\ receivePhase # "idle" /\ delivered' # delivered =>
        /\ delivered' = NextMessage(delivered)
        /\ \A a \in Arrays : \A i \in CommonElements(a) :
                dataToReceive'[a][i] = <<delivered', a, i>>]_vars

\* outBusinessSignal is low only while the receiver holds nothing: a block that
\* receives a message, or still works on one ("idle" to this module), looks busy.
BusyWhileHolding ==
    ~business => /\ receivePhase # "stream"
                 /\ receivePhase = "idle" => dataToReceive = EmptyMessage

\* "optional number of clock ticks after which the operation will be cancelled"
\* (transfer.h:68): the receiver gives up only when it has waited that long.
TimeoutIsHonoured ==
    [][receivePhase = "stall" /\ receivePhase' # "stall" /\ ~sending
        => clocksWaiting + 1 >= call.timeout]_vars

\* Once both sides are at the handshake, the message offered arrives.
MeetingDelivers ==
    \A m \in 0 .. Messages - 1 :
        NoTimeout /\ sendPhase = "offer" /\ message = m /\ receivePhase \in {"ask", "stall"}
            ~> delivered = m
=============================================================================
