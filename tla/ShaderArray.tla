------------------------------ MODULE ShaderArray ------------------------------
(***************************************************************************)
(* The shader frontend with its shader units and its clients               *)
(* (gpu/blocks/shader_array).  The frontend is two threads: requestThread  *)
(* takes a request, fetches the shader and feeds a unit; responseThread    *)
(* takes a result from a unit and sends it to the client.  They share      *)
(* shaderUnitStates, which are no signals: what one thread writes the      *)
(* other may read in the same tick, or not, as the kernel orders them.     *)
(*                                                                         *)
(* A phase of a thread is a wait() of its code.  A transfer takes place    *)
(* when sender and receiver wait for it in the same tick, then both count  *)
(* the same ticks for the rest of it (module Transfer shows they do), so   *)
(* a message is passed on as one record.  A request is its client, its     *)
(* token, the address of its shader; a shader its address and version.     *)
(***************************************************************************)
EXTENDS EntryCache, Sequences, FiniteSets

CONSTANTS
    Limits,         \* how many requests each client may have under way, one of [Clients -> Nat]
    ClientsCount, UnitsCount,
    Addresses,      \* of shaders
    Reused,         \* bound: the addresses another shader is uploaded to
    Versions,       \* bound: of the versions of such a shader
    RequestTicks,   \* dwords of a request after the first
    FetchTicks,     \* ticks a fetch of a shader takes
    FeedTicks,      \* dwords a unit gets after the first
    RunTicks,       \* the ticks a shader may take
    ReplyTicks,     \* dwords of a result after the first
    DrainTicks,     \* [Clients -> sets of the dwords a client may read on after a response]
    None

Clients == 1 .. ClientsCount
Units == 1 .. UnitsCount

ASSUME ArrayAssumption ==
    /\ CacheSize \in Nat \ {0} /\ InvalidKey \notin Addresses
    /\ ClientsCount \in Nat \ {0} /\ UnitsCount \in Nat \ {0}
    /\ Limits \subseteq [Clients -> Nat]
    /\ {RequestTicks, FetchTicks, FeedTicks, ReplyTicks} \cup RunTicks \subseteq Nat \ {0}
    /\ DrainTicks \in [Clients -> (SUBSET Nat) \ {{}}]
    /\ RunTicks # {} /\ Reused \subseteq Addresses /\ Versions \in Nat
    /\ None \notin [client : Clients, token : Nat]

VARIABLES
    inpClock,       \* toggles with every tick
    limit,          \* the configuration of the run
    version,        \* [Addresses -> version]: the shaders in memory
    client,         \* [Clients -> state of a client]
    unit,           \* [Units -> state of a unit]
    request,        \* the state of requestThread
    response,       \* the state of responseThread
    shaderUnitState,    \* [Units -> None or what the active request is]
    isaCache,
    recent,         \* history: the last CacheSize addresses used, the latest first
    outdated        \* history: those of them uploaded again since they are there

vars == <<inpClock, limit, version, client, unit, request, response, shaderUnitState, isaCache, recent,
          outdated>>

\* The functions that choose an element of F(x) for each x of S.
Choices(F(_), S) ==
    LET choices == [x \in S |-> F(x)]
    IN  {f \in [S -> UNION {choices[x] : x \in S}] : \A x \in S : f[x] \in choices[x]}

-----------------------------------------------------------------------------
(* Signals: a thread that waits in a handshake has its signal up.          *)

Requesting(c) == client[c].phase = "offer"
RequestReceiving(c) == request.phase = "ask" /\ request.client = c
Feeding(u) == request.phase = "offer" /\ request.unit = u
Responding(u) == unit[u].phase = "offer"
ResponseReceiving(u) == response.phase = "ask" /\ response.unit = u
Answering(c) == response.phase = "offer" /\ response.client = c

-----------------------------------------------------------------------------
(* The clients: vertex shader and fragment shader, which wait for each     *)
(* response, and the tester of shader_frontend_test.cpp, which sends a     *)
(* second request before.  "offer", "send": sending a request; "ask",      *)
(* "take": receiving a response; "drain": the fragment shader receives the *)
(* dwords of a full batch, whatever its batch was, and reads on from its   *)
(* port when the response is over.                                         *)

Turn(s, phase, left) == [s EXCEPT !.phase = phase, !.left = left]

LeastOf(S) == CHOOSE x \in S : \A y \in S : x <= y

\* Bound: the tokens of a client are counted modulo one more than it has under
\* way, 2^16 in the code.
Tokens(c) == 0 .. limit[c]

\* The next token no request under way has (of 2^16 tokens, none has).
NextToken(c, s) ==
    LET after(k) == (s.token + k) % Cardinality(Tokens(c))
    IN  after(LeastOf({k \in 1 .. Cardinality(Tokens(c)) : \A r \in s.waiting : r.token # after(k)}))

NextRequest(c, s, a) ==
    LET new == [client |-> c, token |-> NextToken(c, s), address |-> a]
    IN  [Turn(s, "offer", 0) EXCEPT !.token = new.token, !.sent = new, !.waiting = @ \cup {new}]

MaySend(c, s) == Cardinality(s.waiting) < limit[c]

\* What a client may do when it has finished a transfer.  It rests only when no
\* response is due.
Continue(c, s) ==
    {NextRequest(c, s, a) : a \in IF MaySend(c, s) THEN Addresses ELSE {}}
    \cup (IF s.waiting # {} THEN {Turn(s, "ask", 0)} ELSE {Turn(s, "rest", 0)})

\* The response is no longer waited for.
Received(s) == [s EXCEPT !.waiting = {r \in @ : r.token # s.got.token}, !.got = None]

ClientNext(c) ==
    LET s == client[c]
    IN  CASE s.phase = "rest" -> Continue(c, s)
          [] s.phase = "offer" -> {IF RequestReceiving(c) THEN Turn(s, "send", RequestTicks) ELSE s}
          [] s.phase = "ask" ->
                {IF Answering(c)
                 THEN [Turn(s, "take", ReplyTicks + 1) EXCEPT !.got = response.message] ELSE s}
          [] s.phase \in {"send", "take", "drain"} /\ s.left > 1 -> {Turn(s, s.phase, s.left - 1)}
          [] s.phase \in {"send", "drain"} /\ s.left = 1 -> Continue(c, s)
          [] s.phase = "take" /\ s.left = 1 ->
                {Turn(Received(s), "drain", t) : t \in DrainTicks[c] \ {0}}
                \cup (IF 0 \in DrainTicks[c] THEN Continue(c, Received(s)) ELSE {})

-----------------------------------------------------------------------------
(* ShaderUnit::main.  "ask": receiving a command; "load": receiving the    *)
(* shader, the command and the inputs; "run"; "offer", "reply": sending    *)
(* the outputs.                                                            *)

UnitNext(u) ==
    LET s == unit[u]
    IN  CASE s.phase = "ask" ->
                {IF Feeding(u) THEN [phase |-> "load", left |-> FeedTicks, job |-> request.job] ELSE s}
          [] s.phase = "load" /\ s.left = 1 -> {Turn(s, "run", t) : t \in RunTicks}
          [] s.phase = "run" /\ s.left = 1 -> {Turn(s, "offer", 0)}
          [] s.phase = "offer" ->
                {IF ResponseReceiving(u) THEN Turn(s, "reply", ReplyTicks) ELSE s}
          [] s.phase = "reply" /\ s.left = 1 -> {[phase |-> "ask", left |-> 0, job |-> None]}
          [] s.phase \in {"load", "run", "reply"} /\ s.left > 1 -> {Turn(s, s.phase, s.left - 1)}

-----------------------------------------------------------------------------
(* requestThread.  "top": at the wait() of its loop; "ask", "read":        *)
(* receiving a request; "fetch": in getIsa; "offer", "feed": sending the   *)
(* shader, the command and the inputs to a unit.                           *)

cacheVars == <<isaCache, recent, outdated>>
NoRequest == [phase |-> "top", left |-> 0, client |-> None, unit |-> None, job |-> None]

\* Units responseThread marks as free in this tick.
Released == {u \in Units : response.phase = "read" /\ response.left = 1 /\ response.unit = u}

Free(u) == shaderUnitState[u] = None

RequestTop(seen) ==
    /\ request.phase = "top"
    /\ LET asking == {c \in Clients : Requesting(c)}
           free == {u \in Units : Free(u)} \cup seen
       IN  IF asking = {} \/ free = {} THEN UNCHANGED request
           ELSE request' = [NoRequest EXCEPT !.phase = "ask", !.client = LeastOf(asking),
                                             !.unit = LeastOf(free)]
    /\ UNCHANGED cacheVars

RequestAsk ==
    /\ request.phase = "ask"
    /\ request' = IF Requesting(request.client)
                  THEN [Turn(request, "read", RequestTicks) EXCEPT
                           !.job = [inputs |-> client[request.client].sent, isa |-> None]]
                  ELSE request
    /\ UNCHANGED cacheVars

IsaAddress == request.job.inputs.address

\* storeIsa() raises outSending with the first dword.
Store(isa) == request' = [Turn(request, "offer", 0) EXCEPT !.job.isa = isa]

\* The place an address leaves in recent when it moves to the front: its own, or
\* a new one, or that of the address used the longest ago.
PlaceInRecent(address) ==
    LET places == {i \in 1 .. Len(recent) : recent[i] = address}
    IN  IF places # {} THEN LeastOf(places)
        ELSE IF Len(recent) < CacheSize THEN Len(recent) + 1 ELSE CacheSize

\* The histories after a use of an address.
Used(address) ==
    LET place == PlaceInRecent(address)
    IN  /\ recent' = <<address>> \o SubSeq(recent, 1, place - 1)
                                \o SubSeq(recent, place + 1, Len(recent))
        /\ outdated' = {a \in outdated : \E i \in DOMAIN recent' : recent'[i] = a}

\* The request is complete.  loadedIsaAddress of a unit keeps the value it was
\* made with, no shader's address, so the shader is always sent.
GetIsa ==
    IF Has(isaCache, IsaAddress)
    THEN /\ Store(Value(isaCache, IsaAddress))
         /\ isaCache' = Get(isaCache, IsaAddress)
         /\ Used(IsaAddress)
    ELSE /\ request' = Turn(request, "fetch", FetchTicks)
         /\ UNCHANGED cacheVars

RequestRead == request.phase = "read" /\ request.left = 1 /\ GetIsa

RequestFetched ==
    LET isa == [address |-> IsaAddress, version |-> version[IsaAddress]]
    IN  /\ request.phase = "fetch" /\ request.left = 1
        /\ Store(isa)
        /\ isaCache' = Put(isaCache, IsaAddress, isa)
        /\ Used(IsaAddress)

RequestOffer ==
    /\ request.phase = "offer"
    /\ request' = IF unit[request.unit].phase = "ask" THEN Turn(request, "feed", FeedTicks)
                  ELSE request
    /\ UNCHANGED cacheVars

\* The unit is marked as active when it has its inputs.
RequestDone == request.phase = "feed" /\ request.left = 1

RequestFed == RequestDone /\ request' = NoRequest /\ UNCHANGED cacheVars

RequestCounts ==
    /\ request.phase \in {"read", "fetch", "feed"} /\ request.left > 1
    /\ request' = Turn(request, request.phase, request.left - 1)
    /\ UNCHANGED cacheVars

RequestThread ==
    \/ \E seen \in {{}, Released} : RequestTop(seen)
    \/ RequestAsk \/ RequestRead \/ RequestFetched \/ RequestOffer \/ RequestFed \/ RequestCounts

-----------------------------------------------------------------------------
(* responseThread.  "top": at the wait() of its loop; "ask", "read":       *)
(* receiving from a unit; "offer", "send": sending to a client.            *)

NoResponse == [phase |-> "top", left |-> 0, client |-> None, unit |-> None, message |-> None]

\* A unit that responds without being active would stop the program.
ResponseTop ==
    /\ response.phase = "top"
    /\ LET responding == {u \in Units : Responding(u)}
           u == LeastOf(responding)
       IN  IF responding = {} THEN UNCHANGED response
           ELSE /\ shaderUnitState[u] # None
                /\ response' = [NoResponse EXCEPT !.phase = "ask", !.unit = u,
                                                  !.client = shaderUnitState[u].client]

\* The token is the one remembered for the unit.
ResponseAsk ==
    /\ response.phase = "ask"
    /\ response' =
          IF Responding(response.unit)
          THEN [Turn(response, "read", ReplyTicks) EXCEPT
                   !.message = [token |-> shaderUnitState[response.unit].token,
                                result |-> unit[response.unit].job]]
          ELSE response

ResponseRead ==
    /\ response.phase = "read" /\ response.left = 1
    /\ response' = Turn(response, "offer", 0)

ResponseOffer ==
    /\ response.phase = "offer"
    /\ response' = IF client[response.client].phase = "ask"
                   THEN Turn(response, "send", ReplyTicks + 1) ELSE response

ResponseSent ==
    /\ response.phase = "send" /\ response.left = 1
    /\ response' = NoResponse

ResponseCounts ==
    /\ response.phase \in {"read", "send"} /\ response.left > 1
    /\ response' = Turn(response, response.phase, response.left - 1)

ResponseThread ==
    \/ ResponseTop \/ ResponseAsk \/ ResponseRead \/ ResponseOffer \/ ResponseSent
    \/ ResponseCounts

\* Mutants: the unit is free before its result is read; it is never free again.
MutMarkFreeEarly(u) == ResponseReceiving(u) /\ Responding(u)
MutMarkFreeNever(u) == FALSE

MarkFree(u) == u \in Released

\* Mutant: the token is taken from the client when the unit has been fed.
MutMark == [client |-> request.client, token |-> client[request.client].token]

\* The token of a request is kept beside its client.
Mark == [client |-> request.client, token |-> request.job.inputs.token]

Marks ==
    shaderUnitState' =
        [u \in Units |->
            IF RequestDone /\ request.unit = u THEN Mark
            ELSE IF MarkFree(u) THEN None ELSE shaderUnitState[u]]

-----------------------------------------------------------------------------

Init ==
    /\ inpClock = FALSE
    /\ limit \in Limits
    /\ version = [a \in Addresses |-> 0]
    /\ client = [c \in Clients |-> [phase |-> "rest", left |-> 0, token |-> 0, sent |-> None,
                                    got |-> None, waiting |-> {}]]
    /\ unit = [u \in Units |-> [phase |-> "ask", left |-> 0, job |-> None]]
    /\ request = NoRequest
    /\ response = NoResponse
    /\ shaderUnitState = [u \in Units |-> None]
    /\ isaCache = EmptyCache
    /\ recent = <<>>
    /\ outdated = {}

Tick ==
    /\ inpClock' = ~inpClock
    /\ client' \in Choices(ClientNext, Clients)
    /\ unit' \in Choices(UnitNext, Units)
    /\ RequestThread
    /\ ResponseThread
    /\ Marks
    /\ UNCHANGED <<limit, version>>

\* The host uploads another shader between two draws.
Upload ==
    /\ \A c \in Clients : client[c].waiting = {}
    /\ \E a \in Reused :
          /\ version[a] < Versions
          /\ version' = [version EXCEPT ![a] = @ + 1]
          /\ outdated' = outdated \cup {b \in {a} : \E i \in DOMAIN recent : recent[i] = b}
    /\ UNCHANGED <<inpClock, limit, client, unit, request, response, shaderUnitState, isaCache,
                   recent>>

Next == Tick \/ Upload

Spec == Init /\ [][Next]_vars

\* The clock does not stop.
FairSpec == Spec /\ []<><<inpClock' # inpClock>>_vars

-----------------------------------------------------------------------------
(* Properties.                                                             *)

TypeOK ==
    /\ limit \in Limits /\ version \in [Addresses -> 0 .. Versions]
    /\ \A c \in Clients :
          /\ client[c].phase \in {"rest", "offer", "send", "ask", "take", "drain"}
          /\ client[c].waiting \subseteq
                [client : {c}, token : Tokens(c), address : Addresses]
          /\ Cardinality(client[c].waiting) <= limit[c]
    /\ \A u \in Units : unit[u].phase \in {"ask", "load", "run", "offer", "reply"}
    /\ request.phase \in {"top", "ask", "read", "fetch", "offer", "feed"}
    /\ response.phase \in {"top", "ask", "read", "offer", "send"}
    /\ \A u \in Units : shaderUnitState[u] # None =>
          shaderUnitState[u].token \in Tokens(shaderUnitState[u].client)

\* A unit that has run a request is marked with it, until its result is read:
\* requestThread marks it only after it has fed it, but before the unit can
\* respond, and does not take a unit away whose result is still to be read.
UnitsAreMarked ==
    \A u \in Units : unit[u].phase \in {"run", "offer", "reply"} =>
        /\ shaderUnitState[u] # None
        /\ shaderUnitState[u] = [client |-> unit[u].job.inputs.client,
                                 token |-> unit[u].job.inputs.token]

\* A client gets the results of its own requests, each under its own token and
\* computed by the shader it named, although results overtake one another.
OwnResponse ==
    \A c \in Clients : client[c].got # None =>
        /\ client[c].got.result.inputs \in client[c].waiting
        /\ client[c].got.result.inputs.token = client[c].got.token
        /\ client[c].got.result.isa.address = client[c].got.result.inputs.address

\* The cache holds the shaders of the addresses used last.
CacheIsLru ==
    \A i \in 1 .. Len(recent) : isaCache.entries[isaCache.lru[i]].key = recent[i]

\* A unit is given the shader that is in memory, unless that was uploaded while
\* its address was among the last CacheSize used, and it has been one of them
\* since: then the unit is given the former shader, although "the order of
\* operations is guaranteed" (docs/TaskLaunching.md:5).
ShaderIsCurrent ==
    request.phase \in {"offer", "feed"} =>
        (request.job.isa.version = version[IsaAddress] <=> IsaAddress \notin outdated)

\* A client that sends a request receives a response: of the two threads, the
\* units and the clients none waits for another in a circle, and the fixed
\* priority among the clients lets neither starve.  It is so with two clients
\* that wait for each response, as the vertex and the fragment shader do, and
\* with one that sends ahead.
Answered == \A c \in Clients : client[c].phase = "offer" ~> client[c].phase = "take"
=============================================================================
