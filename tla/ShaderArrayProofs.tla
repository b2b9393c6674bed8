--------------------------- MODULE ShaderArrayProofs ---------------------------
(***************************************************************************)
(* Theorems about ShaderArray for any number of clients, units, shaders,   *)
(* requests under way and entries of the cache.                            *)
(***************************************************************************)
EXTENDS ShaderArray, WellFoundedInduction, FiniteSetTheorems, SequenceTheorems, TLAPS

-----------------------------------------------------------------------------
(* The inductive invariant behind the four invariants.                     *)

RequestsOf(c) == [client : {c}, token : Tokens(c), address : Addresses]
Requests == UNION {RequestsOf(c) : c \in Clients}
Shaders == [address : Addresses, version : Nat]
Jobs == [inputs : Requests, isa : Shaders]
Results == {j \in Jobs : j.isa.address = j.inputs.address}
Messages == {m \in [token : Nat, result : Results] : m.token = m.result.inputs.token}

ClientStates(c) ==
    [phase : {"rest", "offer", "send", "ask", "take", "drain"}, left : Nat, token : Tokens(c),
     sent : RequestsOf(c) \cup {None}, got : Messages \cup {None},
     waiting : SUBSET RequestsOf(c)]

UnitStates == [phase : {"ask", "load", "run", "offer", "reply"}, left : Nat, job : Jobs \cup {None}]
RequestStates ==
    [phase : {"top", "ask", "read", "fetch", "offer", "feed"}, left : Nat, client : Clients \cup {None},
     unit : Units \cup {None}, job : [inputs : Requests, isa : Shaders \cup {None}] \cup {None}]
ResponseStates ==
    [phase : {"top", "ask", "read", "offer", "send"}, left : Nat, client : Clients \cup {None},
     unit : Units \cup {None}, message : Messages \cup {None}]

\* The requests a client has under way have different tokens.
WaitingInv(c, s) ==
    /\ s \in ClientStates(c)
    /\ IsFiniteSet(s.waiting) /\ Cardinality(s.waiting) <= limit[c]
    /\ \A r, q \in s.waiting : r.token = q.token => r = q

\* What a client knows, in itself.
ClientInv(c, s) ==
    /\ WaitingInv(c, s)
    /\ s.phase = "offer" => s.sent \in s.waiting
    /\ s.phase \in {"send", "take", "drain"} => s.left # 0
    /\ s.got # None => s.phase = "take"

\* A client and requestThread stream in step, and a unit and requestThread; the
\* unit requestThread has chosen is idle.
RequestInv ==
    /\ request \in RequestStates
    /\ request.phase # "top" => request.client \in Clients /\ request.unit \in Units
    /\ request.phase \in {"read", "fetch", "feed"} => request.left # 0
    /\ request.phase = "ask" => client[request.client].phase = "offer"
    /\ request.phase \in {"read", "fetch", "offer", "feed"} =>
        request.job \in [inputs : RequestsOf(request.client), isa : Shaders \cup {None}]
    /\ request.phase \in {"offer", "feed"} => request.job \in Results
    /\ request.phase \in {"ask", "read", "fetch", "offer"} => unit[request.unit].phase = "ask"
    /\ \A c \in Clients :
          /\ client[c].phase = "send" <=> request.phase = "read" /\ request.client = c
          /\ client[c].phase = "send" => client[c].left = request.left

\* A unit is marked from the tick in which it has its inputs to the one in which
\* its result has been read.
UnitInv ==
    \A u \in Units :
        /\ unit[u] \in UnitStates
        /\ unit[u].phase # "ask" => unit[u].job \in Results
        /\ unit[u].phase \in {"load", "run", "reply"} => unit[u].left # 0
        /\ unit[u].phase = "load" <=> request.phase = "feed" /\ request.unit = u
        /\ unit[u].phase = "load" => unit[u].left = request.left /\ unit[u].job = request.job
        /\ shaderUnitState[u] =
              IF unit[u].phase \in {"ask", "load"} THEN None
              ELSE [client |-> unit[u].job.inputs.client, token |-> unit[u].job.inputs.token]

\* A unit and responseThread stream in step, and responseThread and a client.
ResponseInv ==
    /\ response \in ResponseStates
    /\ response.phase # "top" => response.client \in Clients /\ response.unit \in Units
    /\ response.phase \in {"read", "send"} => response.left # 0
    /\ response.phase = "ask" =>
          /\ unit[response.unit].phase = "offer"
          /\ response.client = unit[response.unit].job.inputs.client
    /\ response.phase \in {"read", "offer", "send"} =>
          response.message \in Messages /\ response.message.result.inputs.client = response.client
    /\ \A u \in Units :
          /\ unit[u].phase = "reply" <=> response.phase = "read" /\ response.unit = u
          /\ unit[u].phase = "reply" => unit[u].left = response.left /\ unit[u].job = response.message.result
    /\ \A c \in Clients :
          /\ client[c].phase = "take" <=> response.phase = "send" /\ response.client = c
          /\ client[c].phase = "take" => client[c].left = response.left /\ client[c].got = response.message

\* Who is busy with a request.
ClientHolds(c, r) == client[c].phase = "offer" /\ client[c].sent = r
RequestHolds(r) == request.phase \in {"read", "fetch", "offer"} /\ request.job.inputs = r
UnitHolds(u, r) == unit[u].phase # "ask" /\ unit[u].job.inputs = r
ResponseHolds(r) == response.phase \in {"offer", "send"} /\ response.message.result.inputs = r

\* A request is at one place at a time, and its client waits for it.
HeldOnce(r) ==
    /\ ClientHolds(r.client, r) => ~RequestHolds(r) /\ ~ResponseHolds(r)
    /\ RequestHolds(r) => r \in client[r.client].waiting /\ ~ResponseHolds(r)
    /\ ResponseHolds(r) => r \in client[r.client].waiting
    /\ \A u \in Units : UnitHolds(u, r) =>
          /\ r \in client[r.client].waiting
          /\ ~ClientHolds(r.client, r) /\ ~RequestHolds(r) /\ ~ResponseHolds(r)
          /\ \A v \in Units \ {u} : ~UnitHolds(v, r)

FlightInv == \A r \in Requests : HeldOnce(r)

\* An order of use is a permutation.
IsOrder(lru) ==
    /\ lru \in [Indices -> Indices]
    /\ \A i, j \in Indices : i # j => lru[i] # lru[j]
    /\ \A i \in Indices : \E j \in Indices : lru[j] = i

\* The entries of the addresses used last come first in the order of use, the
\* others are empty.
CacheInv ==
    /\ isaCache \in [entries : [Indices -> [key : Addresses \cup {InvalidKey},
                                            value : Shaders \cup {NoValue}]],
                     lru : [Indices -> Indices]]
    /\ IsOrder(isaCache.lru)
    /\ \A i \in Indices : isaCache.entries[i].key # InvalidKey =>
          /\ isaCache.entries[i].value \in Shaders
          /\ isaCache.entries[i].value.address = isaCache.entries[i].key
    /\ recent \in Seq(Addresses) /\ Len(recent) <= CacheSize
    /\ \A i, j \in 1 .. Len(recent) : i # j => recent[i] # recent[j]
    /\ CacheIsLru
    /\ \A i \in Len(recent) + 1 .. CacheSize : isaCache.entries[isaCache.lru[i]].key = InvalidKey

\* What is fetched is not in the cache.
MissInv == request.phase = "fetch" => ~Has(isaCache, IsaAddress)

\* outdated says which of the cached shaders are.
CurrentInv ==
    /\ version \in [Addresses -> Nat] /\ \A a \in Addresses : version[a] <= Versions
    /\ \A a \in outdated : \E i \in 1 .. Len(recent) : recent[i] = a
    /\ \A i \in 1 .. Len(recent) :
          LET cached == isaCache.entries[isaCache.lru[i]].value.version
          IN  /\ cached <= version[recent[i]]
              /\ cached = version[recent[i]] <=> recent[i] \notin outdated
    /\ ShaderIsCurrent

ArrayIInv ==
    /\ limit \in Limits /\ \A c \in Clients : ClientInv(c, client[c])
    /\ RequestInv /\ UnitInv /\ ResponseInv /\ FlightInv
    /\ CacheInv /\ MissInv /\ CurrentInv

-----------------------------------------------------------------------------
\* A loop over the clients or the units finds the first of those it looks for.
LEMMA LeastIn ==
    ASSUME NEW S, S \subseteq Nat, S # {}
    PROVE  LeastOf(S) \in S /\ \A y \in S : LeastOf(S) <= y
<1>1. PICK x \in S : \A y \in S : ~(<<y, x>> \in OpToRel(<, Nat))
    BY NatLessThanWellFounded, WFMin
<1>2. \A y \in S : x <= y
    <2>. SUFFICES ASSUME NEW y \in S
                  PROVE  x <= y
        OBVIOUS
    <2>1. ~(y < x)
        BY <1>1 DEF OpToRel
    <2>. QED
        BY <2>1
<1>. QED
    BY <1>2 DEF LeastOf

LEMMA ModSum ==
    ASSUME NEW n \in Nat \ {0}, NEW x \in 0 .. 2 * n - 1
    PROVE  x % n = IF x < n THEN x ELSE x - n
OBVIOUS

LEMMA ModRange ==
    ASSUME NEW n \in Nat \ {0}, NEW x \in Nat
    PROVE  x % n \in 0 .. n - 1
OBVIOUS

-----------------------------------------------------------------------------
(* The clients.                                                            *)

LEMMA TokensCount ==
    ASSUME limit \in Limits, NEW c \in Clients
    PROVE  /\ limit[c] \in Nat /\ Tokens(c) = 0 .. limit[c]
           /\ IsFiniteSet(Tokens(c)) /\ Cardinality(Tokens(c)) = limit[c] + 1
<1>1. limit[c] \in Nat
    BY ArrayAssumption
<1>2. Tokens(c) = 0 .. limit[c]
    BY DEF Tokens
<1>. PICK n : n = limit[c]
    OBVIOUS
<1>3. n \in Int /\ 0 \in Int
    BY <1>1
<1>4. IsFiniteSet(0 .. n) /\ Cardinality(0 .. n) = IF 0 > n THEN 0 ELSE n - 0 + 1
    BY <1>3, FS_Interval
<1>. QED
    BY <1>1, <1>2, <1>4

\* Fewer requests than tokens leave a token.
LEMMA TokenLeft ==
    ASSUME limit \in Limits, NEW c \in Clients, NEW s, WaitingInv(c, s), MaySend(c, s)
    PROVE  \E t \in Tokens(c) : \A r \in s.waiting : r.token # t
<1>. DEFINE T == {r.token : r \in s.waiting}
            f == [r \in s.waiting |-> r.token]
<1>. SUFFICES ASSUME \A t \in Tokens(c) : t \in T
              PROVE  FALSE
    OBVIOUS
<1>1. IsFiniteSet(s.waiting) /\ f \in Surjection(s.waiting, T)
    BY DEF WaitingInv, Surjection
<1>2. IsFiniteSet(T) /\ Cardinality(T) <= Cardinality(s.waiting)
    BY <1>1, FS_Surjection
<1>3. Cardinality(Tokens(c)) <= Cardinality(T)
    BY <1>2, FS_Subset
<1>4. /\ Cardinality(s.waiting) < limit[c] /\ Cardinality(Tokens(c)) = limit[c] + 1 /\ limit[c] \in Nat
      /\ Cardinality(s.waiting) \in Nat /\ Cardinality(T) \in Nat
    BY <1>1, <1>2, TokensCount, FS_CardinalityType DEF MaySend
<1>. QED
    BY <1>2, <1>3, <1>4

\* So the token a client gives its next request is that of no other under way.
LEMMA TokenIsNew ==
    ASSUME limit \in Limits, NEW c \in Clients, NEW s, WaitingInv(c, s), MaySend(c, s)
    PROVE  NextToken(c, s) \in Tokens(c) /\ \A r \in s.waiting : r.token # NextToken(c, s)
<1>. DEFINE n == limit[c] + 1
            after(k) == (s.token + k) % n
            K == {k \in 1 .. n : \A r \in s.waiting : r.token # after(k)}
<1>1. n \in Nat \ {0} /\ Tokens(c) = 0 .. n - 1 /\ Cardinality(Tokens(c)) = n
    BY TokensCount
<1>2. s.token \in 0 .. n - 1
    BY <1>1 DEF WaitingInv, ClientStates
<1>3. PICK t \in 0 .. n - 1 : \A r \in s.waiting : r.token # t
    BY <1>1, TokenLeft
<1>. HIDE DEF n
<1>. DEFINE k == IF t > s.token THEN t - s.token ELSE t - s.token + n
<1>4. k \in 1 .. n /\ (s.token + k = t \/ s.token + k = t + n)
    BY <1>1, <1>2, <1>3
<1>. HIDE DEF k
<1>5. after(k) = t
    <2>. PICK x : x = s.token + k
        OBVIOUS
    <2>1. x \in 0 .. 2 * n - 1 /\ (IF x < n THEN x ELSE x - n) = t
        BY <1>1, <1>2, <1>3, <1>4
    <2>. QED
        BY <1>1, <2>1, ModSum
<1>6. k \in K
    BY <1>3, <1>4, <1>5
<1>. PICK least : least = LeastOf(K)
    OBVIOUS
<1>7. least \in K
    <2>1. K \subseteq 1 .. n
        OBVIOUS
    <2>. HIDE DEF K
    <2>2. K \subseteq Nat
        BY <1>1, <2>1
    <2>. QED
        BY <1>6, <2>2, LeastIn
<1>8. after(least) \in 0 .. n - 1
    <2>. PICK x : x = s.token + least
        OBVIOUS
    <2>1. x \in Nat
        BY <1>1, <1>2, <1>7
    <2>. QED
        BY <1>1, <2>1, ModRange
<1>9. NextToken(c, s) = after(least)
    BY <1>1 DEF NextToken
<1>. QED
    BY <1>1, <1>7, <1>8, <1>9

\* The fields a client changes, and those it keeps.
LEMMA StateIs ==
    ASSUME NEW c, NEW s \in ClientStates(c)
    PROVE  /\ s.phase \in {"rest", "offer", "send", "ask", "take", "drain"} /\ s.left \in Nat
           /\ s.token \in Tokens(c) /\ s.sent \in RequestsOf(c) \cup {None}
           /\ s.got \in Messages \cup {None} /\ s.waiting \in SUBSET RequestsOf(c)
           /\ \A phase, left :
                 Turn(s, phase, left) = [phase |-> phase, left |-> left, token |-> s.token,
                                         sent |-> s.sent, got |-> s.got, waiting |-> s.waiting]
           /\ \A phase, left, got :
                 [Turn(s, phase, left) EXCEPT !.got = got] =
                    [phase |-> phase, left |-> left, token |-> s.token,
                     sent |-> s.sent, got |-> got, waiting |-> s.waiting]
<1>1. s = [phase |-> s.phase, left |-> s.left, token |-> s.token,
           sent |-> s.sent, got |-> s.got, waiting |-> s.waiting]
    BY DEF ClientStates
<1>2. /\ s.phase \in {"rest", "offer", "send", "ask", "take", "drain"} /\ s.left \in Nat
      /\ s.token \in Tokens(c) /\ s.sent \in RequestsOf(c) \cup {None}
      /\ s.got \in Messages \cup {None} /\ s.waiting \in SUBSET RequestsOf(c)
    BY DEF ClientStates
<1>3. ASSUME NEW phase, NEW left
      PROVE  Turn(s, phase, left) = [phase |-> phase, left |-> left, token |-> s.token,
                                     sent |-> s.sent, got |-> s.got, waiting |-> s.waiting]
    <2>. PICK q : q = [s EXCEPT !.phase = phase]
        OBVIOUS
    <2>1. q = [phase |-> phase, left |-> s.left, token |-> s.token,
               sent |-> s.sent, got |-> s.got, waiting |-> s.waiting]
        BY <1>1
    <2>2. Turn(s, phase, left) = [q EXCEPT !.left = left]
        BY DEF Turn
    <2>. QED
        BY <2>1, <2>2
<1>4. ASSUME NEW phase, NEW left, NEW got
      PROVE  [Turn(s, phase, left) EXCEPT !.got = got] =
                [phase |-> phase, left |-> left, token |-> s.token,
                 sent |-> s.sent, got |-> got, waiting |-> s.waiting]
    BY <1>3
<1>. QED
    BY <1>2, <1>3, <1>4

\* A client makes its next request.
LEMMA SendStep ==
    ASSUME limit \in Limits, NEW c \in Clients, NEW s, WaitingInv(c, s), s.got = None, MaySend(c, s),
           NEW a \in Addresses, NEW t, t = NextRequest(c, s, a)
    PROVE  /\ ClientInv(c, t) /\ t.phase = "offer" /\ t.got = None
           /\ t.sent \notin s.waiting /\ t.waiting = s.waiting \cup {t.sent}
<1>. PICK token : token = NextToken(c, s)
    OBVIOUS
<1>. DEFINE new == [client |-> c, token |-> token, address |-> a]
<1>1. token \in Tokens(c) /\ \A r \in s.waiting : r.token # token
    BY TokenIsNew
<1>2. new \in RequestsOf(c) /\ new.token = token
    BY <1>1 DEF RequestsOf
<1>3. new \notin s.waiting
    BY <1>1, <1>2
<1>4. t = [phase |-> "offer", left |-> 0, token |-> token, sent |-> new, got |-> s.got,
           waiting |-> s.waiting \cup {new}]
    <2>1. t = [Turn(s, "offer", 0) EXCEPT !.token = new.token, !.sent = new, !.waiting = @ \cup {new}]
        BY DEF NextRequest
    <2>2. Turn(s, "offer", 0) = [phase |-> "offer", left |-> 0, token |-> s.token,
                                 sent |-> s.sent, got |-> s.got, waiting |-> s.waiting]
        BY StateIs DEF WaitingInv
    <2>3. t = [[phase |-> "offer", left |-> 0, token |-> s.token, sent |-> s.sent, got |-> s.got,
                waiting |-> s.waiting] EXCEPT !.token = new.token, !.sent = new, !.waiting = @ \cup {new}]
        BY <2>1, <2>2
    <2>. HIDE DEF new
    <2>. QED
        BY <1>2, <2>3
<1>. HIDE DEF new
<1>5. /\ t \in ClientStates(c)
      /\ t.phase = "offer" /\ t.sent = new /\ t.got = None /\ t.waiting = s.waiting \cup {new}
    <2>1. s.waiting \subseteq RequestsOf(c) /\ s.got \in Messages \cup {None}
        BY StateIs DEF WaitingInv
    <2>. QED
        BY <1>1, <1>2, <1>4, <2>1 DEF ClientStates
<1>6. /\ IsFiniteSet(s.waiting) /\ limit[c] \in Nat /\ Cardinality(s.waiting) \in Nat
      /\ Cardinality(s.waiting) < limit[c]
    BY TokensCount, FS_CardinalityType DEF WaitingInv, MaySend
<1>7. IsFiniteSet(t.waiting) /\ Cardinality(t.waiting) <= limit[c]
    <2>1. Cardinality(t.waiting) = Cardinality(s.waiting) + 1 /\ IsFiniteSet(t.waiting)
        BY <1>3, <1>5, <1>6, FS_AddElement
    <2>. QED
        BY <1>6, <2>1
<1>8. \A r, q \in t.waiting : r.token = q.token => r = q
    BY <1>1, <1>2, <1>5 DEF WaitingInv
<1>. QED
    BY <1>3, <1>5, <1>7, <1>8 DEF ClientInv, WaitingInv

\* What a client does when it has finished a transfer.
LEMMA ContinueStep ==
    ASSUME limit \in Limits, NEW c \in Clients, NEW s, WaitingInv(c, s), s.got = None,
           NEW t \in Continue(c, s)
    PROVE  /\ ClientInv(c, t) /\ t.phase \in {"offer", "ask", "rest", "drain"} /\ t.got = None
           /\ s.waiting \subseteq t.waiting
           /\ t.phase = "offer" => t.sent \notin s.waiting
<1>1. CASE \E a \in Addresses : MaySend(c, s) /\ t = NextRequest(c, s, a)
    <2>. PICK a \in Addresses : MaySend(c, s) /\ t = NextRequest(c, s, a)
        BY <1>1
    <2>. QED
        BY SendStep
<1>2. CASE t = Turn(s, "ask", 0) \/ t = Turn(s, "rest", 0)
    <2>. PICK phase \in {"ask", "rest"} : t = Turn(s, phase, 0)
        BY <1>2
    <2>1. /\ t = [phase |-> phase, left |-> 0, token |-> s.token,
                 sent |-> s.sent, got |-> s.got, waiting |-> s.waiting]
          /\ s \in ClientStates(c)
        BY StateIs DEF WaitingInv
    <2>2. t \in ClientStates(c)
        BY <2>1, StateIs DEF ClientStates
    <2>. QED
        BY <2>1, <2>2 DEF ClientInv, WaitingInv
<1>. QED
    BY <1>1, <1>2 DEF Continue

\* A client forgets the request whose response it has.
LEMMA ForgetStep ==
    ASSUME limit \in Limits, NEW c \in Clients, NEW s, ClientInv(c, s), NEW t,
           t = Received(s)
    PROVE  /\ WaitingInv(c, t) /\ t.got = None
           /\ t.waiting = {r \in s.waiting : r.token # s.got.token}
<1>. DEFINE left == {r \in s.waiting : r.token # s.got.token}
<1>1. t = [phase |-> s.phase, left |-> s.left, token |-> s.token, sent |-> s.sent, got |-> None,
           waiting |-> left]
    <2>1. s = [phase |-> s.phase, left |-> s.left, token |-> s.token,
               sent |-> s.sent, got |-> s.got, waiting |-> s.waiting]
        BY DEF ClientInv, WaitingInv, ClientStates
    <2>2. t = [s EXCEPT !.waiting = left, !.got = None]
        BY DEF Received
    <2>. HIDE DEF left
    <2>. QED
        BY <2>1, <2>2
<1>2. t.waiting \subseteq s.waiting
    BY <1>1
<1>3. t \in ClientStates(c)
    BY <1>1, <1>2, StateIs DEF ClientInv, WaitingInv, ClientStates
<1>4. /\ IsFiniteSet(t.waiting) /\ Cardinality(t.waiting) <= Cardinality(s.waiting)
      /\ Cardinality(t.waiting) \in Nat /\ Cardinality(s.waiting) \in Nat
    BY <1>2, FS_Subset, FS_CardinalityType DEF ClientInv, WaitingInv
<1>5. Cardinality(t.waiting) <= limit[c]
    BY <1>4, TokensCount DEF ClientInv, WaitingInv
<1>. QED
    BY <1>1, <1>2, <1>3, <1>4, <1>5 DEF ClientInv, WaitingInv

\* The request whose response a client gets to the end of in this tick.
Dropped(c, r) == client[c].phase = "take" /\ client[c].left = 1 /\ r.token = client[c].got.token

LEMMA ClientNextIs ==
    ASSUME NEW c
    PROVE  /\ client[c].phase = "rest" => ClientNext(c) = Continue(c, client[c])
           /\ client[c].phase = "offer" => ClientNext(c) =
                {IF RequestReceiving(c) THEN Turn(client[c], "send", RequestTicks) ELSE client[c]}
           /\ client[c].phase = "ask" => ClientNext(c) =
                {IF Answering(c) THEN [Turn(client[c], "take", ReplyTicks + 1) EXCEPT !.got = response.message]
                 ELSE client[c]}
           /\ client[c].phase \in {"send", "take", "drain"} /\ client[c].left > 1 => ClientNext(c) =
                {Turn(client[c], client[c].phase, client[c].left - 1)}
           /\ client[c].phase \in {"send", "drain"} /\ client[c].left = 1 =>
                ClientNext(c) = Continue(c, client[c])
           /\ client[c].phase = "take" /\ client[c].left = 1 => ClientNext(c) =
                {Turn(Received(client[c]), "drain", t) : t \in DrainTicks[c] \ {0}}
                \cup (IF 0 \in DrainTicks[c] THEN Continue(c, Received(client[c])) ELSE {})
<1>1. client[c].phase = "rest" => ClientNext(c) = Continue(c, client[c])
    BY DEF ClientNext
<1>2. client[c].phase = "offer" => ClientNext(c) =
            {IF RequestReceiving(c) THEN Turn(client[c], "send", RequestTicks) ELSE client[c]}
    BY DEF ClientNext
<1>3. client[c].phase = "ask" => ClientNext(c) =
            {IF Answering(c) THEN [Turn(client[c], "take", ReplyTicks + 1) EXCEPT !.got = response.message]
             ELSE client[c]}
    BY DEF ClientNext
<1>4. client[c].phase = "send" /\ client[c].left > 1 => ClientNext(c) =
            {Turn(client[c], client[c].phase, client[c].left - 1)}
    <2>1. client[c].left > 1 => client[c].left # 1
        OBVIOUS
    <2>. QED
        BY <2>1 DEF ClientNext
<1>5. client[c].phase = "take" /\ client[c].left > 1 => ClientNext(c) =
            {Turn(client[c], client[c].phase, client[c].left - 1)}
    <2>1. client[c].left > 1 => client[c].left # 1
        OBVIOUS
    <2>. QED
        BY <2>1 DEF ClientNext
<1>a. client[c].phase = "drain" /\ client[c].left > 1 => ClientNext(c) =
            {Turn(client[c], client[c].phase, client[c].left - 1)}
    <2>1. client[c].left > 1 => client[c].left # 1
        OBVIOUS
    <2>. QED
        BY <2>1 DEF ClientNext
<1>b. client[c].phase = "drain" /\ client[c].left = 1 => ClientNext(c) = Continue(c, client[c])
    <2>1. client[c].left = 1 => ~(client[c].left > 1)
        OBVIOUS
    <2>. QED
        BY <2>1 DEF ClientNext
<1>6. client[c].phase = "send" /\ client[c].left = 1 => ClientNext(c) = Continue(c, client[c])
    <2>1. client[c].left = 1 => ~(client[c].left > 1)
        OBVIOUS
    <2>. QED
        BY <2>1 DEF ClientNext
<1>7. client[c].phase = "take" /\ client[c].left = 1 => ClientNext(c) =
            {Turn(Received(client[c]), "drain", t) : t \in DrainTicks[c] \ {0}}
            \cup (IF 0 \in DrainTicks[c] THEN Continue(c, Received(client[c])) ELSE {})
    <2>1. client[c].left = 1 => ~(client[c].left > 1)
        OBVIOUS
    <2>. QED
        BY <2>1 DEF ClientNext
<1>. QED
    BY <1>1, <1>2, <1>3, <1>4, <1>5, <1>6, <1>7, <1>a, <1>b

\* A tick of a client: it goes on with the transfer, or takes up the next thing.
LEMMA ClientStep ==
    ASSUME limit \in Limits, NEW c \in Clients, ClientInv(c, client[c]),
           client' \in Choices(ClientNext, Clients), UNCHANGED limit,
           response.phase = "offer" => response.message \in Messages
    PROVE  /\ ClientInv(c, client[c])'
           /\ client[c].phase \in {"rest", "send", "take", "drain"} =>
                \/ client[c].phase \in {"send", "take", "drain"} /\ client[c].left > 1
                   /\ client'[c] = Turn(client[c], client[c].phase, client[c].left - 1)
                \/ (client[c].phase \in {"send", "take", "drain"} => client[c].left = 1)
                   /\ client'[c].phase \in {"offer", "ask", "rest", "drain"}
           /\ client[c].phase = "offer" =>
                client'[c] = IF RequestReceiving(c) THEN Turn(client[c], "send", RequestTicks) ELSE client[c]
           /\ client[c].phase = "ask" =>
                client'[c] = IF Answering(c)
                             THEN [Turn(client[c], "take", ReplyTicks + 1) EXCEPT !.got = response.message]
                             ELSE client[c]
           /\ \A r \in client[c].waiting : ~Dropped(c, r) =>
                /\ r \in client'[c].waiting
                /\ ClientHolds(c, r)' => ClientHolds(c, r)
<1>1. client'[c] \in ClientNext(c)
    BY DEF Choices
<1>2. /\ client[c] \in ClientStates(c)
      /\ client[c].phase \in {"send", "take", "drain"} => client[c].left # 0
    BY DEF ClientInv, WaitingInv
<1>. PICK s : s = client[c]
    OBVIOUS
<1>. PICK t : t = client'[c]
    OBVIOUS
<1>3. ClientStates(c)' = ClientStates(c)
    BY DEF ClientStates, Tokens, RequestsOf, Messages, Results, Jobs, Requests
<1>4. ClientInv(c, t) => ClientInv(c, client[c])'
    BY <1>3 DEF ClientInv, WaitingInv
<1>5. CASE s.phase = "rest"
    <2>1. t \in Continue(c, s)
        BY <1>1, <1>5, ClientNextIs
    <2>2. WaitingInv(c, s) /\ s.got = None
        BY <1>5 DEF ClientInv
    <2>. QED
        BY <1>4, <1>5, <2>1, <2>2, ContinueStep DEF ClientHolds
<1>6. CASE s.phase = "offer"
    <2>1. t = IF RequestReceiving(c) THEN Turn(s, "send", RequestTicks) ELSE s
        BY <1>1, <1>6, ClientNextIs
    <2>2. ClientInv(c, t) /\ t.waiting = s.waiting /\ (t.phase = "offer" => t = s)
        <3>1. CASE t = s
            BY <1>6, <3>1 DEF ClientInv
        <3>2. CASE t = Turn(s, "send", RequestTicks)
            <4>1. t = [phase |-> "send", left |-> RequestTicks, token |-> s.token,
                       sent |-> s.sent, got |-> s.got, waiting |-> s.waiting]
                BY <1>2, <3>2, StateIs
            <4>2. t \in ClientStates(c)
                BY <1>2, <4>1, StateIs, ArrayAssumption DEF ClientStates
            <4>. QED
                BY <1>6, <4>1, <4>2, ArrayAssumption DEF ClientInv, WaitingInv
        <3>. QED
            BY <2>1, <3>1, <3>2
    <2>. QED
        BY <1>4, <1>6, <2>1, <2>2 DEF ClientHolds
<1>7. CASE s.phase = "ask"
    <2>1. t = IF Answering(c) THEN [Turn(s, "take", ReplyTicks + 1) EXCEPT !.got = response.message] ELSE s
        BY <1>1, <1>7, ClientNextIs
    <2>2. ClientInv(c, t) /\ t.waiting = s.waiting /\ t.phase # "offer"
        <3>1. CASE t = s
            BY <1>7, <3>1 DEF ClientInv
        <3>2. CASE Answering(c) /\ t = [Turn(s, "take", ReplyTicks + 1) EXCEPT !.got = response.message]
            <4>1. t = [phase |-> "take", left |-> ReplyTicks + 1, token |-> s.token,
                       sent |-> s.sent, got |-> response.message, waiting |-> s.waiting]
                BY <1>2, <3>2, StateIs
            <4>2. response.message \in Messages
                BY <3>2 DEF Answering
            <4>3. t \in ClientStates(c)
                BY <1>2, <4>1, <4>2, StateIs, ArrayAssumption DEF ClientStates
            <4>. QED
                BY <1>7, <4>1, <4>2, <4>3, ArrayAssumption DEF ClientInv, WaitingInv
        <3>. QED
            BY <2>1, <3>1, <3>2
    <2>. QED
        BY <1>4, <1>7, <2>1, <2>2 DEF ClientHolds
<1>8. CASE s.phase \in {"send", "take", "drain"} /\ s.left > 1
    <2>1. t = Turn(s, s.phase, s.left - 1)
        BY <1>1, <1>8, ClientNextIs
    <2>2. ClientInv(c, t) /\ t.waiting = s.waiting /\ t.phase # "offer"
        <3>1. t = [phase |-> s.phase, left |-> s.left - 1, token |-> s.token,
                   sent |-> s.sent, got |-> s.got, waiting |-> s.waiting]
            BY <1>2, <2>1, StateIs
        <3>2. s.left \in Nat /\ s.left - 1 \in Nat /\ s.left - 1 # 0
            BY <1>2, <1>8, StateIs
        <3>3. t \in ClientStates(c)
            BY <1>2, <3>1, <3>2, StateIs DEF ClientStates
        <3>. QED
            BY <1>8, <3>1, <3>2, <3>3 DEF ClientInv, WaitingInv
    <2>. QED
        BY <1>4, <1>8, <2>1, <2>2 DEF ClientHolds
<1>9. CASE s.phase \in {"send", "drain"} /\ s.left = 1
    <2>1. t \in Continue(c, s)
        BY <1>1, <1>9, ClientNextIs
    <2>2. WaitingInv(c, s) /\ s.got = None
        BY <1>9 DEF ClientInv
    <2>. QED
        BY <1>4, <1>9, <2>1, <2>2, ContinueStep DEF ClientHolds
<1>10. CASE s.phase = "take" /\ s.left = 1
    <2>. PICK q : q = Received(s)
        OBVIOUS
    <2>1. t \in Continue(c, q) \/ \E drain \in DrainTicks[c] \ {0} : t = Turn(q, "drain", drain)
        BY <1>1, <1>10, ClientNextIs
    <2>2. WaitingInv(c, q) /\ q.got = None /\ q.waiting = {r \in s.waiting : r.token # s.got.token}
        BY ForgetStep
    <2>3. CASE t \in Continue(c, q)
        BY <1>4, <1>10, <2>2, <2>3, ContinueStep DEF ClientHolds, Dropped
    <2>4. ASSUME NEW drain \in DrainTicks[c] \ {0}, t = Turn(q, "drain", drain)
          PROVE  ClientInv(c, t) /\ t.waiting = q.waiting /\ t.phase = "drain"
        <3>1. q \in ClientStates(c) /\ drain \in Nat \ {0}
            BY <2>2, ArrayAssumption DEF WaitingInv
        <3>2. t = [phase |-> "drain", left |-> drain, token |-> q.token,
                   sent |-> q.sent, got |-> q.got, waiting |-> q.waiting]
            BY <2>4, <3>1, StateIs
        <3>3. t \in ClientStates(c)
            BY <3>1, <3>2, StateIs DEF ClientStates
        <3>. QED
            BY <2>2, <3>1, <3>2, <3>3 DEF ClientInv, WaitingInv
    <2>5. CASE t \notin Continue(c, q)
        <3>1. ClientInv(c, t) /\ t.waiting = q.waiting /\ t.phase = "drain"
            BY <2>1, <2>4, <2>5
        <3>. QED
            BY <1>4, <1>10, <2>2, <3>1 DEF ClientHolds, Dropped
    <2>. QED
        BY <2>3, <2>5
<1>11. /\ s.phase \in {"rest", "offer", "send", "ask", "take", "drain"}
       /\ s.phase \in {"send", "take", "drain"} => s.left > 1 \/ s.left = 1
    BY <1>2, StateIs
<1>. QED
    BY <1>5, <1>6, <1>7, <1>8, <1>9, <1>10, <1>11

-----------------------------------------------------------------------------
(* The units.                                                              *)

LEMMA UnitNextIs ==
    ASSUME NEW u
    PROVE  /\ unit[u].phase = "ask" => UnitNext(u) =
                {IF Feeding(u) THEN [phase |-> "load", left |-> FeedTicks, job |-> request.job] ELSE unit[u]}
           /\ unit[u].phase = "load" /\ unit[u].left = 1 => UnitNext(u) =
                {Turn(unit[u], "run", t) : t \in RunTicks}
           /\ unit[u].phase = "run" /\ unit[u].left = 1 => UnitNext(u) = {Turn(unit[u], "offer", 0)}
           /\ unit[u].phase = "offer" => UnitNext(u) =
                {IF ResponseReceiving(u) THEN Turn(unit[u], "reply", ReplyTicks) ELSE unit[u]}
           /\ unit[u].phase = "reply" /\ unit[u].left = 1 => UnitNext(u) =
                {[phase |-> "ask", left |-> 0, job |-> None]}
           /\ unit[u].phase \in {"load", "run", "reply"} /\ unit[u].left > 1 => UnitNext(u) =
                {Turn(unit[u], unit[u].phase, unit[u].left - 1)}
<1>1. unit[u].phase = "ask" => UnitNext(u) =
            {IF Feeding(u) THEN [phase |-> "load", left |-> FeedTicks, job |-> request.job] ELSE unit[u]}
    BY DEF UnitNext
<1>2. unit[u].phase = "load" /\ unit[u].left = 1 => UnitNext(u) =
            {Turn(unit[u], "run", t) : t \in RunTicks}
    <2>1. unit[u].left = 1 => ~(unit[u].left > 1)
        OBVIOUS
    <2>. QED
        BY <2>1 DEF UnitNext
<1>3. unit[u].phase = "run" /\ unit[u].left = 1 => UnitNext(u) = {Turn(unit[u], "offer", 0)}
    <2>1. unit[u].left = 1 => ~(unit[u].left > 1)
        OBVIOUS
    <2>. QED
        BY <2>1 DEF UnitNext
<1>4. unit[u].phase = "offer" => UnitNext(u) =
            {IF ResponseReceiving(u) THEN Turn(unit[u], "reply", ReplyTicks) ELSE unit[u]}
    BY DEF UnitNext
<1>5. unit[u].phase = "reply" /\ unit[u].left = 1 => UnitNext(u) =
            {[phase |-> "ask", left |-> 0, job |-> None]}
    <2>1. unit[u].left = 1 => ~(unit[u].left > 1)
        OBVIOUS
    <2>. QED
        BY <2>1 DEF UnitNext
<1>6. ASSUME NEW phase \in {"load", "run", "reply"}
      PROVE  unit[u].phase = phase /\ unit[u].left > 1 => UnitNext(u) =
                {Turn(unit[u], unit[u].phase, unit[u].left - 1)}
    <2>1. unit[u].left > 1 => unit[u].left # 1
        OBVIOUS
    <2>2. CASE phase = "load"
        BY <2>1, <2>2 DEF UnitNext
    <2>3. CASE phase = "run"
        BY <2>1, <2>3 DEF UnitNext
    <2>4. CASE phase = "reply"
        BY <2>1, <2>4 DEF UnitNext
    <2>. QED
        BY <2>2, <2>3, <2>4
<1>. QED
    BY <1>1, <1>2, <1>3, <1>4, <1>5, <1>6

LEMMA UnitTurns ==
    ASSUME NEW s \in UnitStates, NEW phase, NEW left
    PROVE  Turn(s, phase, left) = [phase |-> phase, left |-> left, job |-> s.job]
<1>1. s = [phase |-> s.phase, left |-> s.left, job |-> s.job]
    BY DEF UnitStates
<1>. PICK q : q = [s EXCEPT !.phase = phase]
    OBVIOUS
<1>2. q = [phase |-> phase, left |-> s.left, job |-> s.job]
    BY <1>1
<1>3. Turn(s, phase, left) = [q EXCEPT !.left = left]
    BY DEF Turn
<1>. QED
    BY <1>2, <1>3

\* A tick of a unit.
LEMMA UnitStep ==
    ASSUME NEW u \in Units, unit[u] \in UnitStates,
           unit[u].phase \in {"load", "run", "reply"} => unit[u].left # 0,
           unit' \in Choices(UnitNext, Units)
    PROVE  /\ unit[u].phase = "ask" =>
                unit'[u] = IF Feeding(u) THEN [phase |-> "load", left |-> FeedTicks, job |-> request.job]
                           ELSE unit[u]
           /\ unit[u].phase \in {"load", "run", "reply"} => unit[u].left > 1 \/ unit[u].left = 1
           /\ unit[u].phase = "load" /\ unit[u].left = 1 =>
                \E t \in RunTicks : unit'[u] = [phase |-> "run", left |-> t, job |-> unit[u].job]
           /\ unit[u].phase = "run" /\ unit[u].left = 1 =>
                unit'[u] = [phase |-> "offer", left |-> 0, job |-> unit[u].job]
           /\ unit[u].phase = "offer" =>
                unit'[u] = IF ResponseReceiving(u)
                           THEN [phase |-> "reply", left |-> ReplyTicks, job |-> unit[u].job] ELSE unit[u]
           /\ unit[u].phase = "reply" /\ unit[u].left = 1 =>
                unit'[u] = [phase |-> "ask", left |-> 0, job |-> None]
           /\ unit[u].phase \in {"load", "run", "reply"} /\ unit[u].left > 1 =>
                unit'[u] = [phase |-> unit[u].phase, left |-> unit[u].left - 1, job |-> unit[u].job]
<1>1. unit'[u] \in UnitNext(u)
    BY DEF Choices
<1>. PICK s : s = unit[u]
    OBVIOUS
<1>. PICK t : t = unit'[u]
    OBVIOUS
<1>2. \A phase, left : Turn(s, phase, left) = [phase |-> phase, left |-> left, job |-> s.job]
    BY UnitTurns
<1>3. s.left \in Nat
    BY DEF UnitStates
<1>4. s.phase = "ask" =>
        t = IF Feeding(u) THEN [phase |-> "load", left |-> FeedTicks, job |-> request.job] ELSE s
    BY <1>1, UnitNextIs
<1>5. s.phase = "load" /\ s.left = 1 =>
        \E ticks \in RunTicks : t = [phase |-> "run", left |-> ticks, job |-> s.job]
    BY <1>1, <1>2, UnitNextIs
<1>6. s.phase = "run" /\ s.left = 1 => t = [phase |-> "offer", left |-> 0, job |-> s.job]
    BY <1>1, <1>2, UnitNextIs
<1>7. s.phase = "offer" =>
        t = IF ResponseReceiving(u) THEN [phase |-> "reply", left |-> ReplyTicks, job |-> s.job] ELSE s
    BY <1>1, <1>2, UnitNextIs
<1>8. s.phase = "reply" /\ s.left = 1 => t = [phase |-> "ask", left |-> 0, job |-> None]
    BY <1>1, UnitNextIs
<1>9. s.phase \in {"load", "run", "reply"} /\ s.left > 1 =>
        t = [phase |-> s.phase, left |-> s.left - 1, job |-> s.job]
    BY <1>1, <1>2, UnitNextIs
<1>10. s.phase \in {"load", "run", "reply"} => s.left > 1 \/ s.left = 1
    BY <1>3
<1>. QED
    BY <1>4, <1>5, <1>6, <1>7, <1>8, <1>9, <1>10

-----------------------------------------------------------------------------
(* The cache.                                                              *)

\* What is cached for an address, and where: its place in the order of use is its
\* place in the history.
LEMMA HitIs ==
    ASSUME CacheInv, NEW a \in Addresses, Has(isaCache, a)
    PROVE  /\ HitIn(isaCache, a) \in 1 .. Len(recent)
           /\ recent[HitIn(isaCache, a)] = a
           /\ Value(isaCache, a) = isaCache.entries[isaCache.lru[HitIn(isaCache, a)]].value
           /\ Value(isaCache, a) \in Shaders /\ Value(isaCache, a).address = a
<1>. DEFINE Hits == {i \in Indices : isaCache.entries[isaCache.lru[i]].key = a}
            least == LeastOf(Hits)
<1>1. CacheSize \in Nat \ {0} /\ a # InvalidKey /\ Len(recent) \in Nat
    BY ArrayAssumption DEF CacheInv
<1>2. Hits # {}
    BY DEF CacheInv, Has, IsOrder
<1>3. Hits \subseteq Nat
    BY DEF Indices
<1>4. least \in Hits /\ \A y \in Hits : least <= y
    <2>. HIDE DEF Hits
    <2>. QED
        BY <1>2, <1>3, LeastIn
<1>. HIDE DEF least
<1>5. /\ least \in Indices /\ isaCache.entries[isaCache.lru[least]].key = a
      /\ \A j \in 1 .. least - 1 : isaCache.entries[isaCache.lru[j]].key # a
    BY <1>1, <1>4 DEF Indices
<1>. PICK i : i = HitIn(isaCache, a)
    OBVIOUS
<1>6. i \in Indices /\ isaCache.entries[isaCache.lru[i]].key = a
    BY <1>5 DEF HitIn
<1>7. i \in 1 .. Len(recent)
    <2>1. i \notin Len(recent) + 1 .. CacheSize
        BY <1>1, <1>6 DEF CacheInv
    <2>. QED
        BY <1>1, <1>6, <2>1 DEF Indices
<1>8. recent[i] = a
    BY <1>6, <1>7 DEF CacheInv, CacheIsLru
<1>9. isaCache.lru[i] \in Indices
    BY <1>6 DEF CacheInv, IsOrder
<1>10. Value(isaCache, a) = isaCache.entries[isaCache.lru[i]].value
    BY DEF Value
<1>. QED
    BY <1>1, <1>6, <1>7, <1>8, <1>9, <1>10 DEF CacheInv

\* An address is cached if and only if it is among those used last.
LEMMA CachedIsRecent ==
    ASSUME CacheInv, NEW a \in Addresses
    PROVE  Has(isaCache, a) <=> \E i \in 1 .. Len(recent) : recent[i] = a
<1>1. ASSUME Has(isaCache, a)
      PROVE  \E i \in 1 .. Len(recent) : recent[i] = a
    BY <1>1, HitIs
<1>2. ASSUME NEW i \in 1 .. Len(recent), recent[i] = a
      PROVE  Has(isaCache, a)
    <2>1. i \in Indices
        BY ArrayAssumption DEF CacheInv, Indices
    <2>2. isaCache.lru[i] \in Indices /\ isaCache.entries[isaCache.lru[i]].key = a
        BY <1>2, <2>1 DEF CacheInv, CacheIsLru, IsOrder
    <2>. QED
        BY <2>2 DEF Has
<1>. QED
    BY <1>1, <1>2

\* An address moves to the front of the history: those before its place move
\* back by one, those behind stay.
LEMMA UsedIs ==
    ASSUME CacheInv, NEW a \in Addresses, Used(a), NEW p, p = PlaceInRecent(a)
    PROVE  /\ p \in 1 .. CacheSize
           /\ recent' \in Seq(Addresses)
           /\ Len(recent') = IF p > Len(recent) THEN p ELSE Len(recent)
           /\ p <= Len(recent) + 1
           /\ recent'[1] = a
           /\ \A j \in 2 .. p : recent'[j] = recent[j - 1]
           /\ \A j \in p + 1 .. Len(recent) : recent'[j] = recent[j]
           /\ IF \E i \in 1 .. Len(recent) : recent[i] = a
              THEN p <= Len(recent) /\ recent[p] = a
              ELSE p = CacheSize \/ p = Len(recent) + 1
<1>. DEFINE places == {i \in 1 .. Len(recent) : recent[i] = a}
            least == LeastOf(places)
            before == SubSeq(recent, 1, p - 1)
            behind == SubSeq(recent, p + 1, Len(recent))
<1>1. /\ CacheSize \in Nat \ {0} /\ Len(recent) \in Nat /\ recent \in Seq(Addresses)
      /\ Len(recent) <= CacheSize
    BY ArrayAssumption DEF CacheInv
<1>2. places # {} => least \in places
    <2>1. places \subseteq Nat
        OBVIOUS
    <2>. HIDE DEF places
    <2>. QED
        BY <2>1, LeastIn
<1>. HIDE DEF least
<1>3. p = IF places # {} THEN least
          ELSE IF Len(recent) < CacheSize THEN Len(recent) + 1 ELSE CacheSize
    BY DEF PlaceInRecent, least
<1>4. /\ p \in 1 .. CacheSize /\ p <= Len(recent) + 1
      /\ IF \E i \in 1 .. Len(recent) : recent[i] = a
         THEN p <= Len(recent) /\ recent[p] = a
         ELSE p = CacheSize \/ p = Len(recent) + 1
    BY <1>1, <1>2, <1>3
<1>5. recent' = <<a>> \o before \o behind
    BY DEF Used
<1>6. /\ before \in Seq(Addresses) /\ Len(before) = p - 1
      /\ \A j \in 1 .. p - 1 : before[j] = recent[j]
    BY <1>1, <1>4
<1>7. /\ behind \in Seq(Addresses) /\ Len(behind) = IF p < Len(recent) THEN Len(recent) - p ELSE 0
      /\ \A j \in 1 .. Len(behind) : behind[j] = recent[p + j]
    <2>. PICK m : m = p + 1
        OBVIOUS
    <2>. PICK n : n = Len(recent)
        OBVIOUS
    <2>1. m \in Int /\ n \in Int /\ \A j \in m .. n : recent[j] \in Addresses
        BY <1>1, <1>4
    <2>2. behind = SubSeq(recent, m, n)
        OBVIOUS
    <2>. HIDE DEF behind
    <2>3. /\ behind \in Seq(Addresses) /\ Len(behind) = IF m <= n THEN n - m + 1 ELSE 0
          /\ \A j \in 1 .. n - m + 1 : behind[j] = recent[m + j - 1]
        BY <2>1, <2>2, SubSeqProperties
    <2>4. Len(behind) = IF p < Len(recent) THEN Len(recent) - p ELSE 0
        BY <1>1, <1>4, <2>3
    <2>5. ASSUME NEW j \in 1 .. Len(behind)
          PROVE  behind[j] = recent[p + j]
        <3>1. j \in 1 .. n - m + 1 /\ m + j - 1 = p + j
            BY <1>1, <1>4, <2>4
        <3>2. behind[j] = recent[m + j - 1]
            BY <2>3, <3>1
        <3>. QED
            BY <3>1, <3>2
    <2>. QED
        BY <2>3, <2>4, <2>5
<1>. HIDE DEF before, behind
<1>. PICK start : start = <<a>> \o before
    OBVIOUS
<1>8. /\ start \in Seq(Addresses) /\ Len(start) = p /\ start[1] = a
      /\ \A j \in 2 .. p : start[j] = recent[j - 1]
    BY <1>4, <1>6
<1>9. /\ recent' \in Seq(Addresses) /\ Len(recent') = p + Len(behind)
      /\ \A j \in 1 .. p : recent'[j] = start[j]
      /\ \A j \in p + 1 .. Len(recent') : recent'[j] = behind[j - p]
    <2>. PICK next : next = recent'
        OBVIOUS
    <2>1. next = start \o behind
        BY <1>5
    <2>2. /\ next \in Seq(Addresses) /\ Len(next) = Len(start) + Len(behind)
          /\ \A j \in 1 .. Len(start) + Len(behind) :
                next[j] = IF j <= Len(start) THEN start[j] ELSE behind[j - Len(start)]
        <3>1. start \in Seq(Addresses) /\ behind \in Seq(Addresses)
            BY <1>7, <1>8
        <3>. QED
            BY <2>1, <3>1, ConcatProperties
    <2>3. Len(behind) \in Nat
        BY <1>1, <1>4, <1>7
    <2>4. p \in Nat
        BY <1>1, <1>4
    <2>5. \A j \in 1 .. p : next[j] = start[j]
        BY <1>8, <2>2, <2>3, <2>4
    <2>6. \A j \in p + 1 .. Len(next) : next[j] = behind[j - p]
        BY <1>8, <2>2, <2>3, <2>4
    <2>. QED
        BY <1>8, <2>2, <2>5, <2>6
<1>10. Len(recent') = IF p > Len(recent) THEN p ELSE Len(recent)
    BY <1>1, <1>4, <1>7, <1>9
<1>11. ASSUME NEW j \in p + 1 .. Len(recent)
       PROVE  recent'[j] = recent[j]
    <2>1. /\ p \in Nat /\ j \in Nat /\ p < j /\ j <= Len(recent) /\ Len(behind) = Len(recent) - p
          /\ Len(recent') = Len(recent)
        BY <1>1, <1>4, <1>7, <1>10
    <2>2. recent'[j] = behind[j - p] /\ j - p \in 1 .. Len(behind)
        <3>1. j \in p + 1 .. Len(recent')
            BY <2>1
        <3>2. recent'[j] = behind[j - p]
            BY <1>9, <3>1
        <3>3. j - p \in 1 .. Len(behind)
            BY <1>1, <2>1
        <3>. QED
            BY <3>2, <3>3
    <2>. PICK k : k = j - p
        OBVIOUS
    <2>3. k \in 1 .. Len(behind) /\ p + k = j
        BY <2>1, <2>2
    <2>4. behind[k] = recent[p + k]
        BY <1>7, <2>3
    <2>. QED
        BY <2>2, <2>3, <2>4
<1>12. recent'[1] = a /\ \A j \in 2 .. p : recent'[j] = recent[j - 1]
    BY <1>1, <1>4, <1>8, <1>9
<1>. QED
    BY <1>4, <1>9, <1>10, <1>11, <1>12

\* Where what is at place i was before place p was promoted.
Back(p, i) == IF i = 1 THEN p ELSE IF i <= p THEN i - 1 ELSE i

LEMMA BackIs ==
    ASSUME NEW n \in Nat, NEW p \in 1 .. n
    PROVE  /\ \A i \in 1 .. n : Back(p, i) \in 1 .. n
           /\ \A i, j \in 1 .. n : i # j => Back(p, i) # Back(p, j)
           /\ \A k \in 1 .. n : \E i \in 1 .. n : Back(p, i) = k
<1>1. \A i \in 1 .. n : Back(p, i) \in 1 .. n
    BY DEF Back
<1>2. \A i, j \in 1 .. n : i # j => Back(p, i) # Back(p, j)
    BY DEF Back
<1>3. ASSUME NEW k \in 1 .. n
      PROVE  \E i \in 1 .. n : Back(p, i) = k
    <2>. DEFINE i == IF k = p THEN 1 ELSE IF k < p THEN k + 1 ELSE k
    <2>1. i \in 1 .. n /\ Back(p, i) = k
        BY DEF Back
    <2>. QED
        BY <2>1
<1>. QED
    BY <1>1, <1>2, <1>3

\* What promotion of place p does to an order of use.
ComesFrom(new, lru, p) ==
    \A i \in Indices : Back(p, i) \in Indices /\ new[i] = lru[Back(p, i)]

\* Promotion keeps the order of use a permutation.
LEMMA Promoted ==
    ASSUME NEW lru, IsOrder(lru), NEW p \in Indices
    PROVE  /\ IsOrder(PromoteInLru(lru, p))
           /\ ComesFrom(PromoteInLru(lru, p), lru, p)
<1>. PICK new : new = PromoteInLru(lru, p)
    OBVIOUS
<1>1. CacheSize \in Nat \ {0} /\ Indices = 1 .. CacheSize
    BY ArrayAssumption DEF Indices
<1>2. /\ \A i \in Indices : Back(p, i) \in Indices
      /\ \A i, j \in Indices : i # j => Back(p, i) # Back(p, j)
      /\ \A k \in Indices : \E i \in Indices : Back(p, i) = k
    <2>1. CacheSize \in Nat /\ p \in 1 .. CacheSize
        BY <1>1
    <2>2. /\ \A i \in 1 .. CacheSize : Back(p, i) \in 1 .. CacheSize
          /\ \A i, j \in 1 .. CacheSize : i # j => Back(p, i) # Back(p, j)
          /\ \A k \in 1 .. CacheSize : \E i \in 1 .. CacheSize : Back(p, i) = k
        BY <2>1, BackIs
    <2>. QED
        BY <1>1, <2>2
<1>3. ASSUME NEW i \in Indices
      PROVE  new[i] = lru[Back(p, i)]
    <2>1. new[i] = CASE i = 1 -> lru[p]
                     [] i \in 2 .. p -> lru[i - 1]
                     [] OTHER -> lru[i]
        BY DEF PromoteInLru
    <2>2. CASE i = 1
        BY <2>1, <2>2 DEF Back
    <2>3. CASE i # 1 /\ i <= p
        <3>1. i \in 2 .. p
            BY <1>1, <2>3
        <3>. QED
            BY <2>1, <2>3, <3>1 DEF Back
    <2>4. CASE i # 1 /\ ~(i <= p)
        <3>1. i \notin 2 .. p
            BY <1>1, <2>4
        <3>. QED
            BY <2>1, <2>4, <3>1 DEF Back
    <2>. QED
        BY <2>2, <2>3, <2>4
<1>4. new \in [Indices -> Indices]
    <2>1. new = [i \in Indices |-> new[i]]
        BY DEF PromoteInLru
    <2>2. ASSUME NEW i \in Indices
          PROVE  new[i] \in Indices
        <3>1. Back(p, i) \in Indices /\ lru \in [Indices -> Indices]
            BY <1>2 DEF IsOrder
        <3>2. lru[Back(p, i)] \in Indices
            BY <3>1
        <3>. QED
            BY <1>3, <3>2
    <2>. QED
        BY <2>1, <2>2
<1>5. \A i, j \in Indices : i # j => new[i] # new[j]
    BY <1>2, <1>3 DEF IsOrder
<1>6. ASSUME NEW i \in Indices
      PROVE  \E j \in Indices : new[j] = i
    <2>. PICK k \in Indices : lru[k] = i
        BY DEF IsOrder
    <2>. PICK j \in Indices : Back(p, j) = k
        BY <1>2
    <2>. QED
        BY <1>3
<1>. QED
    BY <1>2, <1>3, <1>4, <1>5, <1>6 DEF IsOrder, ComesFrom

\* The entry at a place of the order of use.
Cached(i) == isaCache.entries[isaCache.lru[i]]

LEMMA CacheShape ==
    ASSUME CacheInv
    PROVE  /\ isaCache = [entries |-> isaCache.entries, lru |-> isaCache.lru]
           /\ IsOrder(isaCache.lru)
           /\ isaCache.entries \in [Indices -> [key : Addresses \cup {InvalidKey}, value : Shaders \cup {NoValue}]]
           /\ CacheSize \in Nat \ {0} /\ Indices = 1 .. CacheSize
           /\ Len(recent) \in 0 .. CacheSize
           /\ \A i \in 1 .. Len(recent) : Cached(i).key = recent[i] /\ recent[i] \in Addresses
           /\ \A i \in Len(recent) + 1 .. CacheSize : Cached(i).key = InvalidKey
<1>1. isaCache = [entries |-> isaCache.entries, lru |-> isaCache.lru]
    BY DEF CacheInv
<1>2. /\ IsOrder(isaCache.lru)
      /\ isaCache.entries \in [Indices -> [key : Addresses \cup {InvalidKey}, value : Shaders \cup {NoValue}]]
    BY DEF CacheInv
<1>3. CacheSize \in Nat \ {0} /\ Indices = 1 .. CacheSize
    BY ArrayAssumption DEF Indices
<1>4. recent \in Seq(Addresses) /\ Len(recent) <= CacheSize
    BY DEF CacheInv
<1>5. Len(recent) \in 0 .. CacheSize /\ \A i \in 1 .. Len(recent) : recent[i] \in Addresses
    BY <1>3, <1>4
<1>6. /\ \A i \in 1 .. Len(recent) : Cached(i).key = recent[i]
      /\ \A i \in Len(recent) + 1 .. CacheSize : Cached(i).key = InvalidKey
    BY DEF CacheInv, CacheIsLru, Cached
<1>. QED
    BY <1>1, <1>2, <1>3, <1>5, <1>6

\* A hit: the cache and the history promote the same place.
LEMMA GetStep ==
    ASSUME CacheInv, NEW a \in Addresses, Has(isaCache, a),
           isaCache' = Get(isaCache, a), Used(a)
    PROVE  /\ CacheInv'
           /\ \A b : Has(isaCache, b)' <=> Has(isaCache, b)
           /\ 1 \in 1 .. Len(recent)' /\ recent'[1] = a
           /\ \A j \in 1 .. Len(recent)' : \E i \in 1 .. Len(recent) :
                recent'[j] = recent[i] /\ Cached(j)' = Cached(i)
<1>. PICK p : p = HitIn(isaCache, a)
    OBVIOUS
<1>. PICK q : q = PlaceInRecent(a)
    OBVIOUS
<1>. PICK n : n = Len(recent)
    OBVIOUS
<1>. PICK lru : lru = isaCache.lru
    OBVIOUS
<1>. PICK next : next = PromoteInLru(lru, p)
    OBVIOUS
<1>1. /\ CacheSize \in Nat \ {0} /\ Indices = 1 .. CacheSize /\ n \in 0 .. CacheSize
      /\ IsOrder(lru)
    BY CacheShape
<1>2. p \in 1 .. n /\ recent[p] = a
    BY HitIs
<1>3. /\ recent' \in Seq(Addresses) /\ q \in 1 .. n /\ recent[q] = a
      /\ Len(recent)' = n /\ recent'[1] = a
      /\ \A j \in 2 .. q : recent'[j] = recent[j - 1]
      /\ \A j \in q + 1 .. n : recent'[j] = recent[j]
    <2>1. /\ q \in 1 .. CacheSize
          /\ recent' \in Seq(Addresses)
          /\ Len(recent') = IF q > n THEN q ELSE n
          /\ recent'[1] = a
          /\ \A j \in 2 .. q : recent'[j] = recent[j - 1]
          /\ \A j \in q + 1 .. n : recent'[j] = recent[j]
          /\ IF \E i \in 1 .. n : recent[i] = a
             THEN q <= n /\ recent[q] = a
             ELSE q = CacheSize \/ q = n + 1
        BY UsedIs
    <2>2. \E i \in 1 .. n : recent[i] = a
        BY <1>2
    <2>. QED
        BY <1>1, <2>1, <2>2
<1>4. q = p
    <2>1. \A i, j \in 1 .. Len(recent) : i # j => recent[i] # recent[j]
        BY DEF CacheInv
    <2>. QED
        BY <1>2, <1>3, <2>1
<1>5. /\ \A i \in 1 .. n : Back(p, i) \in 1 .. n
      /\ \A i, j \in 1 .. n : i # j => Back(p, i) # Back(p, j)
    <2>1. n \in Nat
        BY <1>1
    <2>. QED
        BY <1>2, <2>1, BackIs
<1>6. ASSUME NEW j \in 1 .. n
      PROVE  recent'[j] = recent[Back(p, j)]
    <2>1. CASE j = 1
        BY <1>2, <1>3, <2>1 DEF Back
    <2>2. CASE j # 1 /\ j <= p
        <3>1. j \in 2 .. q /\ Back(p, j) = j - 1
            BY <1>1, <1>2, <1>4, <2>2 DEF Back
        <3>. QED
            BY <1>3, <3>1
    <2>3. CASE j # 1 /\ ~(j <= p)
        <3>1. j \in q + 1 .. n /\ Back(p, j) = j
            BY <1>1, <1>2, <1>4, <2>3 DEF Back
        <3>. QED
            BY <1>3, <3>1
    <2>. QED
        BY <2>1, <2>2, <2>3
<1>7. IsOrder(next) /\ \A i \in Indices : next[i] = lru[Back(p, i)]
    <2>1. p \in Indices
        BY <1>1, <1>2
    <2>2. IsOrder(lru)
        BY <1>1
    <2>3. next = PromoteInLru(lru, p)
        OBVIOUS
    <2>4. IsOrder(PromoteInLru(lru, p)) /\ ComesFrom(PromoteInLru(lru, p), lru, p)
        BY <2>1, <2>2, Promoted
    <2>. QED
        BY <2>3, <2>4 DEF ComesFrom
<1>8. isaCache'.entries = isaCache.entries /\ isaCache'.lru = next
      /\ isaCache' = [entries |-> isaCache.entries, lru |-> next]
    <2>1. isaCache' = [isaCache EXCEPT !.lru = next]
        BY DEF Get
    <2>2. isaCache = [entries |-> isaCache.entries, lru |-> isaCache.lru]
        BY CacheShape
    <2>. QED
        BY <2>1, <2>2
<1>9. \A j \in Indices : Cached(j)' = Cached(Back(p, j))
    BY <1>7, <1>8 DEF Cached
<1>10. \A j \in 1 .. n : Cached(j)' = Cached(Back(p, j)) /\ Back(p, j) \in 1 .. n
    BY <1>1, <1>5, <1>9
<1>11. CacheInv'
    <2>1. isaCache.entries \in [Indices -> [key : Addresses \cup {InvalidKey}, value : Shaders \cup {NoValue}]]
        BY CacheShape
    <2>2. isaCache' \in [entries : [Indices -> [key : Addresses \cup {InvalidKey}, value : Shaders \cup {NoValue}]],
                         lru : [Indices -> Indices]]
        BY <1>7, <1>8, <2>1 DEF IsOrder
    <2>3. \A i \in Indices : isaCache'.entries[i].key # InvalidKey =>
              isaCache'.entries[i].value \in Shaders
              /\ isaCache'.entries[i].value.address = isaCache'.entries[i].key
        BY <1>8 DEF CacheInv
    <2>4. Len(recent)' <= CacheSize
        BY <1>1, <1>3
    <2>5. \A i, j \in 1 .. Len(recent') : i # j => recent'[i] # recent'[j]
        <3>1. \A i, j \in 1 .. n : i # j => recent[i] # recent[j]
            BY DEF CacheInv
        <3>. SUFFICES ASSUME NEW i \in 1 .. n, NEW j \in 1 .. n, i # j
                      PROVE  recent'[i] # recent'[j]
            BY <1>3
        <3>2. /\ Back(p, i) \in 1 .. n /\ Back(p, j) \in 1 .. n /\ Back(p, i) # Back(p, j)
              /\ recent'[i] = recent[Back(p, i)] /\ recent'[j] = recent[Back(p, j)]
            BY <1>5, <1>6
        <3>. QED
            BY <3>1, <3>2
    <2>6. \A i \in 1 .. Len(recent') : Cached(i)'.key = recent'[i]
        <3>1. \A i \in 1 .. n : Cached(i).key = recent[i]
            BY CacheShape
        <3>. QED
            BY <1>3, <1>5, <1>6, <1>10, <3>1
    <2>7. \A i \in Len(recent)' + 1 .. CacheSize : Cached(i)'.key = InvalidKey
        <3>1. \A i \in n + 1 .. CacheSize : Cached(i).key = InvalidKey
            BY CacheShape
        <3>2. \A i \in n + 1 .. CacheSize : i \in Indices /\ Back(p, i) = i
            BY <1>1, <1>2 DEF Back
        <3>. QED
            BY <1>3, <1>9, <3>1, <3>2
    <2>. QED
        BY <1>3, <1>7, <1>8, <2>2, <2>3, <2>4, <2>5, <2>6, <2>7 DEF CacheInv, CacheIsLru, Cached, Shaders, IsOrder
<1>12. \A b : Has(isaCache, b)' <=> Has(isaCache, b)
    BY <1>8 DEF Has
<1>13. \A j \in 1 .. Len(recent)' : \E i \in 1 .. Len(recent) :
            recent'[j] = recent[i] /\ Cached(j)' = Cached(i)
    BY <1>3, <1>6, <1>10
<1>14. 1 \in 1 .. Len(recent)'
    BY <1>1, <1>2, <1>3
<1>. QED
    BY <1>3, <1>11, <1>12, <1>13, <1>14

\* A miss: the shader takes the entry used the longest ago.
LEMMA PutStep ==
    ASSUME CacheInv, NEW a \in Addresses, ~Has(isaCache, a), NEW isa \in Shaders, isa.address = a,
           isaCache' = Put(isaCache, a, isa), Used(a)
    PROVE  /\ CacheInv'
           /\ \A i \in 1 .. Len(recent) : recent[i] # a
           /\ 1 \in 1 .. Len(recent)' /\ recent'[1] = a /\ Cached(1)'.value = isa
           /\ \A j \in 2 .. Len(recent)' : \E i \in 1 .. Len(recent) :
                recent'[j] = recent[i] /\ Cached(j)' = Cached(i)
<1>. PICK q : q = PlaceInRecent(a)
    OBVIOUS
<1>. PICK n : n = Len(recent)
    OBVIOUS
<1>. PICK lru : lru = isaCache.lru
    OBVIOUS
<1>. PICK entries : entries = isaCache.entries
    OBVIOUS
<1>. PICK next : next = PromoteInLru(lru, CacheSize)
    OBVIOUS
<1>. PICK entry : entry = [key |-> a, value |-> isa]
    OBVIOUS
<1>1. /\ CacheSize \in Nat \ {0} /\ Indices = 1 .. CacheSize /\ n \in 0 .. CacheSize
      /\ IsOrder(lru)
      /\ entries \in [Indices -> [key : Addresses \cup {InvalidKey}, value : Shaders \cup {NoValue}]]
      /\ \A i \in 1 .. n : Cached(i).key = recent[i] /\ recent[i] \in Addresses
      /\ \A i \in n + 1 .. CacheSize : Cached(i).key = InvalidKey
    BY CacheShape
<1>2. \A i \in 1 .. n : recent[i] # a
    BY CachedIsRecent
<1>3. /\ recent' \in Seq(Addresses) /\ q \in 1 .. CacheSize /\ (q = CacheSize \/ q = n + 1)
      /\ q <= n + 1 /\ Len(recent)' = (IF q > n THEN q ELSE n) /\ recent'[1] = a
      /\ \A j \in 2 .. q : recent'[j] = recent[j - 1]
    <2>1. /\ q \in 1 .. CacheSize
          /\ recent' \in Seq(Addresses)
          /\ Len(recent') = IF q > n THEN q ELSE n
          /\ q <= n + 1
          /\ recent'[1] = a
          /\ \A j \in 2 .. q : recent'[j] = recent[j - 1]
          /\ IF \E i \in 1 .. n : recent[i] = a
             THEN q <= n /\ recent[q] = a
             ELSE q = CacheSize \/ q = n + 1
        BY UsedIs
    <2>. QED
        BY <1>2, <2>1
<1>4. Len(recent)' = q
    BY <1>1, <1>3
<1>5. IsOrder(next) /\ ComesFrom(next, lru, CacheSize)
    <2>1. CacheSize \in Indices
        BY <1>1
    <2>2. next = PromoteInLru(lru, CacheSize)
        OBVIOUS
    <2>3. IsOrder(PromoteInLru(lru, CacheSize)) /\ ComesFrom(PromoteInLru(lru, CacheSize), lru, CacheSize)
        BY <1>1, <2>1, Promoted
    <2>. QED
        BY <2>2, <2>3
<1>6. ASSUME NEW j \in 2 .. CacheSize
      PROVE  j \in Indices /\ j - 1 \in Indices /\ next[j] = lru[j - 1] /\ next[j] # next[1]
    <2>1. j \in Indices /\ j - 1 \in Indices /\ 1 \in Indices /\ j # 1 /\ Back(CacheSize, j) = j - 1
        BY <1>1 DEF Back
    <2>2. next[j] = lru[Back(CacheSize, j)]
        BY <1>5, <2>1 DEF ComesFrom
    <2>. QED
        BY <1>5, <2>1, <2>2 DEF IsOrder
<1>7. next[1] \in Indices /\ 1 \in Indices
    BY <1>1, <1>5 DEF IsOrder
<1>8. isaCache' = [entries |-> [entries EXCEPT ![next[1]] = entry], lru |-> next]
    BY DEF Put
<1>9. isaCache'.lru = next /\ isaCache'.entries = [entries EXCEPT ![next[1]] = entry]
    BY <1>8
<1>10. Cached(1)' = entry
    BY <1>1, <1>7, <1>9 DEF Cached
<1>11. \A j \in 2 .. CacheSize : Cached(j)' = Cached(j - 1)
    <2>. SUFFICES ASSUME NEW j \in 2 .. CacheSize
                  PROVE  Cached(j)' = Cached(j - 1)
        OBVIOUS
    <2>1. next[j] \in Indices
        BY <1>5, <1>6 DEF IsOrder
    <2>. QED
        BY <1>1, <1>6, <1>9, <2>1 DEF Cached
<1>12. \A j \in 2 .. q : /\ j \in 2 .. CacheSize /\ j - 1 \in 1 .. n
                         /\ recent'[j] = recent[j - 1] /\ Cached(j)' = Cached(j - 1)
    BY <1>1, <1>3, <1>11
<1>13. \A j \in 1 .. q : j = 1 \/ j \in 2 .. q
    BY <1>1, <1>3
<1>14. entry \in [key : Addresses \cup {InvalidKey}, value : Shaders \cup {NoValue}]
       /\ entry.key = a /\ entry.value = isa
    OBVIOUS
<1>15. CacheInv'
    <2>1. isaCache'.entries \in [Indices -> [key : Addresses \cup {InvalidKey}, value : Shaders \cup {NoValue}]]
        <3>. PICK image : image = isaCache'.entries
            OBVIOUS
        <3>1. image = [entries EXCEPT ![next[1]] = entry]
            BY <1>9
        <3>2. DOMAIN entries = Indices
            BY <1>1
        <3>3. image = [i \in Indices |-> IF i = next[1] THEN entry ELSE entries[i]]
            BY <3>1, <3>2
        <3>4. \A i \in Indices :
                entries[i] \in [key : Addresses \cup {InvalidKey}, value : Shaders \cup {NoValue}]
            BY <1>1
        <3>. QED
            BY <1>14, <3>3, <3>4
    <2>2. isaCache' \in [entries : [Indices -> [key : Addresses \cup {InvalidKey}, value : Shaders \cup {NoValue}]],
                         lru : [Indices -> Indices]]
        BY <1>5, <1>8, <1>9, <2>1 DEF IsOrder
    <2>3. ASSUME NEW i \in Indices, isaCache'.entries[i].key # InvalidKey
          PROVE  isaCache'.entries[i].value \in Shaders
                 /\ isaCache'.entries[i].value.address = isaCache'.entries[i].key
        <3>1. CASE i = next[1]
            <4>1. isaCache'.entries[i] = entry
                BY <1>1, <1>7, <1>9, <3>1
            <4>. QED
                BY <1>14, <4>1
        <3>2. CASE i # next[1]
            <4>1. isaCache'.entries[i] = entries[i]
                BY <1>1, <1>9, <3>2
            <4>. QED
                BY <2>3, <4>1 DEF CacheInv
        <3>. QED
            BY <3>1, <3>2
    <2>4. Len(recent)' <= CacheSize
        BY <1>1, <1>3, <1>4
    <2>5. \A i, j \in 1 .. Len(recent') : i # j => recent'[i] # recent'[j]
        <3>1. \A i, j \in 1 .. n : i # j => recent[i] # recent[j]
            BY DEF CacheInv
        <3>2. \A i, j \in 2 .. q : i # j => recent'[i] # recent'[j]
            BY <1>12, <3>1
        <3>3. \A i \in 2 .. q : recent'[i] # recent'[1]
            BY <1>2, <1>3, <1>12
        <3>. QED
            BY <1>4, <1>13, <3>2, <3>3
    <2>6. \A i \in 1 .. Len(recent') : Cached(i)'.key = recent'[i]
        BY <1>1, <1>3, <1>4, <1>10, <1>12, <1>13, <1>14
    <2>7. \A i \in Len(recent)' + 1 .. CacheSize : Cached(i)'.key = InvalidKey
        <3>. SUFFICES ASSUME NEW i \in q + 1 .. CacheSize
                      PROVE  Cached(i)'.key = InvalidKey
            BY <1>4
        <3>1. i \in 2 .. CacheSize /\ i - 1 \in n + 1 .. CacheSize
            BY <1>1, <1>3
        <3>. QED
            BY <1>1, <1>11, <3>1
    <2>. QED
        BY <1>3, <1>5, <1>9, <2>2, <2>3, <2>4, <2>5, <2>6, <2>7 DEF CacheInv, CacheIsLru, Cached, Shaders, IsOrder
<1>16. \A j \in 2 .. Len(recent)' : \E i \in 1 .. Len(recent) :
            recent'[j] = recent[i] /\ Cached(j)' = Cached(i)
    BY <1>4, <1>12
<1>17. 1 \in 1 .. Len(recent)'
    BY <1>1, <1>3, <1>4
<1>. QED
    BY <1>2, <1>3, <1>10, <1>14, <1>15, <1>16, <1>17

-----------------------------------------------------------------------------
(* The two threads.                                                        *)

LEMMA RequestTurns ==
    ASSUME NEW s \in RequestStates, NEW phase, NEW left
    PROVE  Turn(s, phase, left) =
                [phase |-> phase, left |-> left, client |-> s.client, unit |-> s.unit, job |-> s.job]
<1>1. s = [phase |-> s.phase, left |-> s.left, client |-> s.client, unit |-> s.unit, job |-> s.job]
    BY DEF RequestStates
<1>. PICK q : q = [s EXCEPT !.phase = phase]
    OBVIOUS
<1>2. q = [phase |-> phase, left |-> s.left, client |-> s.client, unit |-> s.unit, job |-> s.job]
    BY <1>1
<1>3. Turn(s, phase, left) = [q EXCEPT !.left = left]
    BY DEF Turn
<1>. QED
    BY <1>2, <1>3

\* A request that has its shader is offered to the unit.
LEMMA StoreIs ==
    ASSUME request \in RequestStates, NEW S, NEW T, request.job \in [inputs : S, isa : T], NEW isa, Store(isa)
    PROVE  request' = [phase |-> "offer", left |-> 0, client |-> request.client, unit |-> request.unit,
                       job |-> [inputs |-> request.job.inputs, isa |-> isa]]
<1>. PICK q : q = Turn(request, "offer", 0)
    OBVIOUS
<1>. PICK job : job = request.job
    OBVIOUS
<1>1. q = [phase |-> "offer", left |-> 0, client |-> request.client, unit |-> request.unit, job |-> job]
    BY RequestTurns
<1>2. job = [inputs |-> job.inputs, isa |-> job.isa]
    OBVIOUS
<1>3. request' = [q EXCEPT !.job.isa = isa]
    BY DEF Store
<1>4. request' = [q EXCEPT !.job = [job EXCEPT !.isa = isa]]
    BY <1>1, <1>3
<1>. PICK next : next = [job EXCEPT !.isa = isa]
    OBVIOUS
<1>5. next = [inputs |-> job.inputs, isa |-> isa]
    BY <1>2
<1>. QED
    BY <1>1, <1>4, <1>5

\* A tick of requestThread.
LEMMA RequestStep ==
    ASSUME RequestInv, CacheInv, version \in [Addresses -> Nat], RequestThread
    PROVE  /\ request.phase = "top" =>
                \/ UNCHANGED request
                \/ \E c \in Clients, u \in Units :
                      /\ Requesting(c) /\ (Free(u) \/ u \in Released)
                      /\ request' = [phase |-> "ask", left |-> 0, client |-> c, unit |-> u, job |-> None]
           /\ request.phase = "ask" =>
                request' = [phase |-> "read", left |-> RequestTicks, client |-> request.client,
                            unit |-> request.unit,
                            job |-> [inputs |-> client[request.client].sent, isa |-> None]]
           /\ request.phase \in {"read", "fetch", "feed"} => request.left > 1 \/ request.left = 1
           /\ request.phase \in {"read", "fetch", "feed"} /\ request.left > 1 =>
                request' = [phase |-> request.phase, left |-> request.left - 1, client |-> request.client,
                            unit |-> request.unit, job |-> request.job]
           /\ request.phase \in {"read", "fetch"} /\ request.left = 1 =>
                \/ \E isa \in Shaders :
                      /\ isa.address = IsaAddress
                      /\ request' = [phase |-> "offer", left |-> 0, client |-> request.client,
                                     unit |-> request.unit,
                                     job |-> [inputs |-> request.job.inputs, isa |-> isa]]
                \/ /\ request.phase = "read" /\ ~Has(isaCache, IsaAddress)
                   /\ request' = [phase |-> "fetch", left |-> FetchTicks, client |-> request.client,
                                  unit |-> request.unit, job |-> request.job]
           /\ request.phase = "offer" =>
                request' = [phase |-> "feed", left |-> FeedTicks, client |-> request.client,
                            unit |-> request.unit, job |-> request.job]
           /\ request.phase = "feed" /\ request.left = 1 => request' = NoRequest
<1>1. request \in RequestStates /\ request.left \in Nat
    BY DEF RequestInv, RequestStates
<1>2. \A phase, left :
        Turn(request, phase, left) =
            [phase |-> phase, left |-> left, client |-> request.client, unit |-> request.unit, job |-> request.job]
    BY <1>1, RequestTurns
<1>3. request.phase = "top" =>
            \/ UNCHANGED request
            \/ \E c \in Clients, u \in Units :
                  /\ Requesting(c) /\ (Free(u) \/ u \in Released)
                  /\ request' = [phase |-> "ask", left |-> 0, client |-> c, unit |-> u, job |-> None]
    <2>. SUFFICES ASSUME request.phase = "top"
                  PROVE  \/ UNCHANGED request
                         \/ \E c \in Clients, u \in Units :
                              /\ Requesting(c) /\ (Free(u) \/ u \in Released)
                              /\ request' = [phase |-> "ask", left |-> 0, client |-> c, unit |-> u, job |-> None]
        OBVIOUS
    <2>1. PICK seen \in {{}, Released} : RequestTop(seen)
        BY DEF RequestThread, RequestAsk, RequestRead, RequestFetched, RequestOffer, RequestFed, RequestDone,
               RequestCounts
    <2>. DEFINE asking == {c \in Clients : Requesting(c)}
                free == {u \in Units : Free(u)} \cup seen
    <2>2. CASE asking = {} \/ free = {}
        BY <2>1, <2>2 DEF RequestTop
    <2>3. CASE asking # {} /\ free # {}
        <3>1. asking \subseteq Nat /\ free \subseteq Nat
            BY DEF Clients, Units, Released
        <3>2. request' = [NoRequest EXCEPT !.phase = "ask", !.client = LeastOf(asking), !.unit = LeastOf(free)]
            BY <2>1, <2>3 DEF RequestTop
        <3>3. /\ \A c \in asking : c \in Clients /\ Requesting(c)
              /\ \A u \in free : u \in Units /\ (Free(u) \/ u \in Released)
            BY DEF Released
        <3>. HIDE DEF asking, free
        <3>. PICK c : c = LeastOf(asking)
            OBVIOUS
        <3>. PICK u : u = LeastOf(free)
            OBVIOUS
        <3>4. c \in asking /\ u \in free
            BY <2>3, <3>1, LeastIn
        <3>5. request' = [phase |-> "ask", left |-> 0, client |-> c, unit |-> u, job |-> None]
            BY <3>2 DEF NoRequest
        <3>. QED
            BY <3>3, <3>4, <3>5
    <2>. QED
        BY <2>2, <2>3
<1>4. ASSUME request.phase = "ask"
      PROVE  request' = [phase |-> "read", left |-> RequestTicks, client |-> request.client,
                         unit |-> request.unit,
                         job |-> [inputs |-> client[request.client].sent, isa |-> None]]
    <2>1. RequestAsk
        BY <1>4 DEF RequestThread, RequestTop, RequestAsk, RequestRead, RequestFetched, RequestOffer, RequestFed,
               RequestDone, RequestCounts
    <2>2. Requesting(request.client)
        BY <1>4 DEF RequestInv, Requesting
    <2>3. request' = [Turn(request, "read", RequestTicks) EXCEPT
                         !.job = [inputs |-> client[request.client].sent, isa |-> None]]
        BY <2>1, <2>2 DEF RequestAsk
    <2>. QED
        BY <1>2, <2>3
<1>5. request.phase \in {"read", "fetch", "feed"} => request.left > 1 \/ request.left = 1
    BY <1>1 DEF RequestInv
<1>6. ASSUME request.phase \in {"read", "fetch", "feed"}, request.left > 1
      PROVE  request' = [phase |-> request.phase, left |-> request.left - 1, client |-> request.client,
                         unit |-> request.unit, job |-> request.job]
    <2>1. request.left # 1
        BY <1>6
    <2>2. RequestCounts
        BY <1>6, <2>1 DEF RequestThread, RequestTop, RequestAsk, RequestRead, RequestFetched, RequestOffer,
               RequestFed, RequestDone
    <2>. QED
        BY <1>2, <2>2 DEF RequestCounts
<1>7. ASSUME request.phase \in {"read", "fetch"}, request.left = 1
      PROVE  \/ \E isa \in Shaders :
                  /\ isa.address = IsaAddress
                  /\ request' = [phase |-> "offer", left |-> 0, client |-> request.client,
                                 unit |-> request.unit,
                                 job |-> [inputs |-> request.job.inputs, isa |-> isa]]
             \/ /\ request.phase = "read" /\ ~Has(isaCache, IsaAddress)
                /\ request' = [phase |-> "fetch", left |-> FetchTicks, client |-> request.client,
                               unit |-> request.unit, job |-> request.job]
    <2>1. ~(request.left > 1)
        BY <1>7
    <2>2. RequestRead \/ RequestFetched
        BY <1>7, <2>1 DEF RequestThread, RequestTop, RequestAsk, RequestOffer, RequestFed, RequestDone,
               RequestCounts
    <2>3. request.job \in [inputs : RequestsOf(request.client), isa : Shaders \cup {None}]
          /\ request.client \in Clients
        BY <1>7 DEF RequestInv
    <2>4. IsaAddress \in Addresses
        BY <2>3 DEF IsaAddress, RequestsOf
    <2>5. CASE RequestRead /\ Has(isaCache, IsaAddress)
        <3>. PICK isa : isa = Value(isaCache, IsaAddress)
            OBVIOUS
        <3>1. Store(isa)
            BY <2>5 DEF RequestRead, GetIsa
        <3>2. isa \in Shaders /\ isa.address = IsaAddress
            BY <2>4, <2>5, HitIs
        <3>. QED
            BY <1>1, <2>3, <3>1, <3>2, StoreIs
    <2>6. CASE RequestRead /\ ~Has(isaCache, IsaAddress)
        BY <1>2, <2>6 DEF RequestRead, GetIsa
    <2>7. CASE RequestFetched
        <3>. PICK isa : isa = [address |-> IsaAddress, version |-> version[IsaAddress]]
            OBVIOUS
        <3>1. Store(isa)
            BY <2>7 DEF RequestFetched
        <3>2. isa \in Shaders /\ isa.address = IsaAddress
            BY <2>4 DEF Shaders
        <3>. QED
            BY <1>1, <2>3, <3>1, <3>2, StoreIs
    <2>. QED
        BY <2>2, <2>5, <2>6, <2>7
<1>8. ASSUME request.phase = "offer"
      PROVE  request' = [phase |-> "feed", left |-> FeedTicks, client |-> request.client,
                         unit |-> request.unit, job |-> request.job]
    <2>1. RequestOffer
        BY <1>8 DEF RequestThread, RequestTop, RequestAsk, RequestRead, RequestFetched, RequestFed,
               RequestDone, RequestCounts
    <2>2. unit[request.unit].phase = "ask"
        BY <1>8 DEF RequestInv
    <2>. QED
        BY <1>2, <2>1, <2>2 DEF RequestOffer
<1>9. ASSUME request.phase = "feed", request.left = 1
      PROVE  request' = NoRequest
    <2>1. ~(request.left > 1)
        BY <1>9
    <2>. QED
        BY <1>9, <2>1 DEF RequestThread, RequestTop, RequestAsk, RequestRead, RequestFetched, RequestOffer,
               RequestFed, RequestDone, RequestCounts
<1>. QED
    BY <1>3, <1>4, <1>5, <1>6, <1>7, <1>8, <1>9

LEMMA ResponseTurns ==
    ASSUME NEW s \in ResponseStates, NEW phase, NEW left
    PROVE  Turn(s, phase, left) =
                [phase |-> phase, left |-> left, client |-> s.client, unit |-> s.unit, message |-> s.message]
<1>1. s = [phase |-> s.phase, left |-> s.left, client |-> s.client, unit |-> s.unit, message |-> s.message]
    BY DEF ResponseStates
<1>. PICK q : q = [s EXCEPT !.phase = phase]
    OBVIOUS
<1>2. q = [phase |-> phase, left |-> s.left, client |-> s.client, unit |-> s.unit, message |-> s.message]
    BY <1>1
<1>3. Turn(s, phase, left) = [q EXCEPT !.left = left]
    BY DEF Turn
<1>. QED
    BY <1>2, <1>3

\* A tick of responseThread.
LEMMA ResponseStep ==
    ASSUME ResponseInv, UnitInv, ResponseThread
    PROVE  /\ response.phase = "top" =>
                \/ UNCHANGED response
                \/ \E u \in Units :
                      /\ unit[u].phase = "offer"
                      /\ response' = [phase |-> "ask", left |-> 0, client |-> unit[u].job.inputs.client,
                                      unit |-> u, message |-> None]
           /\ response.phase = "ask" =>
                response' = [phase |-> "read", left |-> ReplyTicks, client |-> response.client,
                             unit |-> response.unit,
                             message |-> [token |-> unit[response.unit].job.inputs.token,
                                          result |-> unit[response.unit].job]]
           /\ response.phase \in {"read", "send"} => response.left > 1 \/ response.left = 1
           /\ response.phase \in {"read", "send"} /\ response.left > 1 =>
                response' = [phase |-> response.phase, left |-> response.left - 1, client |-> response.client,
                             unit |-> response.unit, message |-> response.message]
           /\ response.phase = "read" /\ response.left = 1 =>
                response' = [phase |-> "offer", left |-> 0, client |-> response.client,
                             unit |-> response.unit, message |-> response.message]
           /\ response.phase = "offer" =>
                response' = IF client[response.client].phase = "ask"
                            THEN [phase |-> "send", left |-> ReplyTicks + 1, client |-> response.client,
                                  unit |-> response.unit, message |-> response.message]
                            ELSE response
           /\ response.phase = "send" /\ response.left = 1 => response' = NoResponse
<1>1. response \in ResponseStates /\ response.left \in Nat
    BY DEF ResponseInv, ResponseStates
<1>2. \A phase, left :
        Turn(response, phase, left) =
            [phase |-> phase, left |-> left, client |-> response.client, unit |-> response.unit,
             message |-> response.message]
    BY <1>1, ResponseTurns
<1>3. ASSUME NEW u \in Units, unit[u].phase = "offer"
      PROVE  /\ shaderUnitState[u].client = unit[u].job.inputs.client
             /\ shaderUnitState[u].token = unit[u].job.inputs.token
    <2>1. shaderUnitState[u] = [client |-> unit[u].job.inputs.client, token |-> unit[u].job.inputs.token]
        BY <1>3 DEF UnitInv
    <2>. QED
        BY <2>1
<1>4. response.phase = "top" =>
            \/ UNCHANGED response
            \/ \E u \in Units :
                  /\ unit[u].phase = "offer"
                  /\ response' = [phase |-> "ask", left |-> 0, client |-> unit[u].job.inputs.client,
                                  unit |-> u, message |-> None]
    <2>. SUFFICES ASSUME response.phase = "top"
                  PROVE  \/ UNCHANGED response
                         \/ \E u \in Units :
                              /\ unit[u].phase = "offer"
                              /\ response' = [phase |-> "ask", left |-> 0,
                                              client |-> unit[u].job.inputs.client,
                                              unit |-> u, message |-> None]
        OBVIOUS
    <2>1. ResponseTop
        BY DEF ResponseThread, ResponseAsk, ResponseRead, ResponseOffer, ResponseSent, ResponseCounts
    <2>. DEFINE responding == {u \in Units : Responding(u)}
    <2>2. CASE responding = {}
        BY <2>1, <2>2 DEF ResponseTop
    <2>3. CASE responding # {}
        <3>1. responding \subseteq Nat /\ \A u \in responding : u \in Units /\ unit[u].phase = "offer"
            BY DEF Units, Responding
        <3>2. response' = [NoResponse EXCEPT !.phase = "ask", !.unit = LeastOf(responding),
                                             !.client = shaderUnitState[LeastOf(responding)].client]
            BY <2>1, <2>3 DEF ResponseTop
        <3>. HIDE DEF responding
        <3>. PICK u : u = LeastOf(responding)
            OBVIOUS
        <3>3. u \in Units /\ unit[u].phase = "offer"
            BY <2>3, <3>1, LeastIn
        <3>4. response' = [phase |-> "ask", left |-> 0, client |-> shaderUnitState[u].client,
                           unit |-> u, message |-> None]
            BY <3>2 DEF NoResponse
        <3>5. shaderUnitState[u].client = unit[u].job.inputs.client
            BY <1>3, <3>3
        <3>6. response' = [phase |-> "ask", left |-> 0, client |-> unit[u].job.inputs.client,
                           unit |-> u, message |-> None]
            BY <3>4, <3>5
        <3>. QED
            BY <3>3, <3>6
    <2>. QED
        BY <2>2, <2>3
<1>5. ASSUME response.phase = "ask"
      PROVE  response' = [phase |-> "read", left |-> ReplyTicks, client |-> response.client,
                          unit |-> response.unit,
                          message |-> [token |-> unit[response.unit].job.inputs.token,
                                       result |-> unit[response.unit].job]]
    <2>1. ResponseAsk
        BY <1>5 DEF ResponseThread, ResponseTop, ResponseRead, ResponseOffer, ResponseSent, ResponseCounts
    <2>2. response.unit \in Units /\ unit[response.unit].phase = "offer"
        BY <1>5 DEF ResponseInv
    <2>3. response' = [Turn(response, "read", ReplyTicks) EXCEPT
                          !.message = [token |-> shaderUnitState[response.unit].token,
                                       result |-> unit[response.unit].job]]
        BY <2>1, <2>2 DEF ResponseAsk, Responding
    <2>4. shaderUnitState[response.unit].token = unit[response.unit].job.inputs.token
        <3>. PICK u : u = response.unit
            OBVIOUS
        <3>1. u \in Units /\ unit[u].phase = "offer"
            BY <2>2
        <3>2. shaderUnitState[u].token = unit[u].job.inputs.token
            BY <1>3, <3>1
        <3>. QED
            BY <3>2
    <2>. PICK message : message = [token |-> shaderUnitState[response.unit].token,
                                   result |-> unit[response.unit].job]
        OBVIOUS
    <2>5. response' = [phase |-> "read", left |-> ReplyTicks, client |-> response.client,
                       unit |-> response.unit, message |-> message]
        BY <1>2, <2>3
    <2>. QED
        BY <2>4, <2>5
<1>6. response.phase \in {"read", "send"} => response.left > 1 \/ response.left = 1
    BY <1>1 DEF ResponseInv
<1>7. ASSUME response.phase \in {"read", "send"}, response.left > 1
      PROVE  response' = [phase |-> response.phase, left |-> response.left - 1, client |-> response.client,
                          unit |-> response.unit, message |-> response.message]
    <2>1. response.left # 1
        BY <1>7
    <2>2. ResponseCounts
        BY <1>7, <2>1 DEF ResponseThread, ResponseTop, ResponseAsk, ResponseRead, ResponseOffer, ResponseSent
    <2>. QED
        BY <1>2, <2>2 DEF ResponseCounts
<1>8. ASSUME response.phase = "read", response.left = 1
      PROVE  response' = [phase |-> "offer", left |-> 0, client |-> response.client,
                          unit |-> response.unit, message |-> response.message]
    <2>1. ~(response.left > 1)
        BY <1>8
    <2>2. ResponseRead
        BY <1>8, <2>1 DEF ResponseThread, ResponseTop, ResponseAsk, ResponseOffer, ResponseSent, ResponseCounts
    <2>. QED
        BY <1>2, <2>2 DEF ResponseRead
<1>9. ASSUME response.phase = "offer"
      PROVE  response' = IF client[response.client].phase = "ask"
                         THEN [phase |-> "send", left |-> ReplyTicks + 1, client |-> response.client,
                               unit |-> response.unit, message |-> response.message]
                         ELSE response
    <2>1. ResponseOffer
        BY <1>9 DEF ResponseThread, ResponseTop, ResponseAsk, ResponseRead, ResponseSent, ResponseCounts
    <2>. QED
        BY <1>2, <2>1 DEF ResponseOffer
<1>10. ASSUME response.phase = "send", response.left = 1
       PROVE  response' = NoResponse
    <2>1. ~(response.left > 1)
        BY <1>10
    <2>. QED
        BY <1>10, <2>1 DEF ResponseThread, ResponseTop, ResponseAsk, ResponseRead, ResponseOffer, ResponseSent,
               ResponseCounts
<1>. QED
    BY <1>4, <1>5, <1>6, <1>7, <1>8, <1>9, <1>10

-----------------------------------------------------------------------------
(* The invariant.                                                          *)

LEMMA SetsStay ==
    ASSUME limit' = limit
    PROVE  /\ \A c : RequestsOf(c)' = RequestsOf(c)
           /\ Requests' = Requests /\ Jobs' = Jobs /\ Results' = Results /\ Messages' = Messages
           /\ UnitStates' = UnitStates /\ RequestStates' = RequestStates /\ ResponseStates' = ResponseStates
<1>1. \A c : RequestsOf(c)' = RequestsOf(c)
    BY DEF RequestsOf, Tokens
<1>2. Requests' = Requests
    BY <1>1 DEF Requests
<1>3. Jobs' = Jobs
    BY <1>2 DEF Jobs
<1>4. Results' = Results
    BY <1>3 DEF Results
<1>5. Messages' = Messages
    BY <1>4 DEF Messages
<1>. QED
    BY <1>1, <1>2, <1>3, <1>4, <1>5 DEF UnitStates, RequestStates, ResponseStates

\* What is in the sets.
LEMMA RequestIs ==
    ASSUME limit \in Limits
    PROVE  /\ \A c \in Clients : RequestsOf(c) \subseteq Requests
           /\ \A c \in Clients : \A r \in RequestsOf(c) :
                r.client = c /\ r.token \in Nat /\ r.address \in Addresses
           /\ \A r \in Requests : r.client \in Clients /\ r.token \in Nat /\ r.address \in Addresses
                                  /\ r \in RequestsOf(r.client)
           /\ \A j \in Results : /\ j \in Jobs /\ j.inputs \in Requests /\ j.isa \in Shaders
                                 /\ j.isa.address = j.inputs.address
           /\ \A m \in Messages : /\ m.result \in Results /\ m.token = m.result.inputs.token
                                  /\ m.token \in Nat
<1>1. \A c \in Clients : RequestsOf(c) \subseteq Requests
    BY DEF Requests
<1>2. \A c \in Clients : \A r \in RequestsOf(c) :
        r.client = c /\ r.token \in Nat /\ r.address \in Addresses
    BY TokensCount DEF RequestsOf
<1>3. \A r \in Requests : r.client \in Clients /\ r.token \in Nat /\ r.address \in Addresses
                          /\ r \in RequestsOf(r.client)
    BY <1>2 DEF Requests
<1>4. \A j \in Results : /\ j \in Jobs /\ j.inputs \in Requests /\ j.isa \in Shaders
                         /\ j.isa.address = j.inputs.address
    BY DEF Results, Jobs
<1>5. \A m \in Messages : m.result \in Results /\ m.token = m.result.inputs.token /\ m.token \in Nat
    BY DEF Messages
<1>. QED
    BY <1>1, <1>2, <1>3, <1>4, <1>5

\* A tick of a client, field by field.
LEMMA ClientTick ==
    ASSUME ArrayIInv, Tick, NEW c \in Clients
    PROVE  /\ ClientInv(c, client[c])'
           /\ client[c].phase = "rest" => client'[c].phase \in {"offer", "ask", "rest", "drain"}
           /\ client[c].phase = "offer" =>
                IF request.phase = "ask" /\ request.client = c
                THEN client'[c].phase = "send" /\ client'[c].left = RequestTicks
                ELSE client'[c] = client[c]
           /\ client[c].phase = "ask" =>
                IF response.phase = "offer" /\ response.client = c
                THEN /\ client'[c].phase = "take" /\ client'[c].left = ReplyTicks + 1
                     /\ client'[c].got = response.message
                ELSE client'[c] = client[c]
           /\ client[c].phase \in {"send", "take", "drain"} => client[c].left > 1 \/ client[c].left = 1
           /\ client[c].phase \in {"send", "take", "drain"} /\ client[c].left > 1 =>
                /\ client'[c].phase = client[c].phase /\ client'[c].left = client[c].left - 1
                /\ client'[c].got = client[c].got
           /\ client[c].phase \in {"send", "take", "drain"} /\ client[c].left = 1 =>
                client'[c].phase \in {"offer", "ask", "rest", "drain"}
           /\ \A r \in client[c].waiting : ~Dropped(c, r) =>
                /\ r \in client'[c].waiting
                /\ ClientHolds(c, r)' => ClientHolds(c, r) /\ ~RequestReceiving(c)
<1>1. /\ limit \in Limits /\ ClientInv(c, client[c]) /\ ResponseInv
      /\ client' \in Choices(ClientNext, Clients) /\ UNCHANGED limit
    BY DEF ArrayIInv, Tick
<1>2. response.phase = "offer" => response.message \in Messages
    BY <1>1 DEF ResponseInv
<1>3. /\ ClientInv(c, client[c])'
      /\ client[c].phase \in {"rest", "send", "take", "drain"} =>
            \/ client[c].phase \in {"send", "take", "drain"} /\ client[c].left > 1
               /\ client'[c] = Turn(client[c], client[c].phase, client[c].left - 1)
            \/ (client[c].phase \in {"send", "take", "drain"} => client[c].left = 1)
               /\ client'[c].phase \in {"offer", "ask", "rest", "drain"}
      /\ client[c].phase = "offer" =>
            client'[c] = IF RequestReceiving(c) THEN Turn(client[c], "send", RequestTicks) ELSE client[c]
      /\ client[c].phase = "ask" =>
            client'[c] = IF Answering(c)
                         THEN [Turn(client[c], "take", ReplyTicks + 1) EXCEPT !.got = response.message]
                         ELSE client[c]
      /\ \A r \in client[c].waiting : ~Dropped(c, r) =>
            /\ r \in client'[c].waiting
            /\ ClientHolds(c, r)' => ClientHolds(c, r)
    BY <1>1, <1>2, ClientStep
<1>. PICK s : s = client[c]
    OBVIOUS
<1>. PICK t : t = client'[c]
    OBVIOUS
<1>4. /\ s.phase \in {"rest", "offer", "send", "ask", "take", "drain"} /\ s.left \in Nat
      /\ \A phase, left :
            Turn(s, phase, left) = [phase |-> phase, left |-> left, token |-> s.token,
                                    sent |-> s.sent, got |-> s.got, waiting |-> s.waiting]
      /\ \A phase, left, got :
            [Turn(s, phase, left) EXCEPT !.got = got] =
                [phase |-> phase, left |-> left, token |-> s.token,
                 sent |-> s.sent, got |-> got, waiting |-> s.waiting]
    BY <1>1, StateIs DEF ClientInv, WaitingInv
<1>5. s.phase \in {"send", "take", "drain"} => s.left > 1 \/ s.left = 1
    BY <1>1, <1>4 DEF ClientInv
<1>6. ASSUME s.phase = "offer"
      PROVE  IF request.phase = "ask" /\ request.client = c
             THEN t.phase = "send" /\ t.left = RequestTicks
             ELSE t = s
    <2>1. CASE RequestReceiving(c)
        <3>1. t = Turn(s, "send", RequestTicks)
            BY <1>3, <1>6, <2>1
        <3>2. t = [phase |-> "send", left |-> RequestTicks, token |-> s.token,
                   sent |-> s.sent, got |-> s.got, waiting |-> s.waiting]
            BY <1>4, <3>1
        <3>. QED
            BY <2>1, <3>2 DEF RequestReceiving
    <2>2. CASE ~RequestReceiving(c)
        BY <1>3, <1>6, <2>2 DEF RequestReceiving
    <2>. QED
        BY <2>1, <2>2
<1>7. ASSUME s.phase = "ask"
      PROVE  IF response.phase = "offer" /\ response.client = c
             THEN t.phase = "take" /\ t.left = ReplyTicks + 1 /\ t.got = response.message
             ELSE t = s
    <2>1. CASE Answering(c)
        <3>1. t = [Turn(s, "take", ReplyTicks + 1) EXCEPT !.got = response.message]
            BY <1>3, <1>7, <2>1
        <3>2. t = [phase |-> "take", left |-> ReplyTicks + 1, token |-> s.token,
                   sent |-> s.sent, got |-> response.message, waiting |-> s.waiting]
            BY <1>4, <3>1
        <3>. QED
            BY <2>1, <3>2 DEF Answering
    <2>2. CASE ~Answering(c)
        BY <1>3, <1>7, <2>2 DEF Answering
    <2>. QED
        BY <2>1, <2>2
<1>8. ASSUME s.phase \in {"send", "take", "drain"}, s.left > 1
      PROVE  t.phase = s.phase /\ t.left = s.left - 1 /\ t.got = s.got
    <2>1. s.left # 1
        BY <1>8
    <2>2. t = Turn(s, s.phase, s.left - 1)
        BY <1>3, <1>8, <2>1
    <2>3. t = [phase |-> s.phase, left |-> s.left - 1, token |-> s.token,
               sent |-> s.sent, got |-> s.got, waiting |-> s.waiting]
        BY <1>4, <2>2
    <2>. QED
        BY <2>3
<1>9. ASSUME s.phase \in {"send", "take", "drain"}, s.left = 1
      PROVE  t.phase \in {"offer", "ask", "rest", "drain"}
    <2>1. ~(s.left > 1)
        BY <1>9
    <2>. QED
        BY <1>3, <1>9, <2>1
<1>10. s.phase = "rest" => t.phase \in {"offer", "ask", "rest", "drain"}
    BY <1>3
<1>11. ASSUME NEW r \in client[c].waiting, ~Dropped(c, r)
       PROVE  /\ r \in client'[c].waiting
              /\ ClientHolds(c, r)' => ClientHolds(c, r) /\ ~RequestReceiving(c)
    <2>1. r \in client'[c].waiting /\ (ClientHolds(c, r)' => ClientHolds(c, r))
        BY <1>3, <1>11
    <2>2. ClientHolds(c, r)' => ~RequestReceiving(c)
        BY <1>6, <2>1 DEF ClientHolds, RequestReceiving
    <2>. QED
        BY <2>1, <2>2
<1>. QED
    BY <1>3, <1>5, <1>6, <1>7, <1>8, <1>9, <1>10, <1>11

\* A tick of a unit, field by field.
LEMMA UnitTick ==
    ASSUME ArrayIInv, Tick, NEW u \in Units
    PROVE  /\ unit[u].phase = "ask" =>
                IF request.phase = "offer" /\ request.unit = u
                THEN unit'[u].phase = "load" /\ unit'[u].left = FeedTicks /\ unit'[u].job = request.job
                ELSE unit'[u] = unit[u]
           /\ unit[u].phase \in {"load", "run", "reply"} => unit[u].left > 1 \/ unit[u].left = 1
           /\ unit[u].phase = "load" /\ unit[u].left = 1 =>
                unit'[u].phase = "run" /\ unit'[u].left \in Nat \ {0} /\ unit'[u].job = unit[u].job
           /\ unit[u].phase = "run" /\ unit[u].left = 1 =>
                unit'[u].phase = "offer" /\ unit'[u].job = unit[u].job
           /\ unit[u].phase = "offer" =>
                IF response.phase = "ask" /\ response.unit = u
                THEN unit'[u].phase = "reply" /\ unit'[u].left = ReplyTicks /\ unit'[u].job = unit[u].job
                ELSE unit'[u] = unit[u]
           /\ unit[u].phase = "reply" /\ unit[u].left = 1 => unit'[u].phase = "ask"
           /\ unit[u].phase \in {"load", "run", "reply"} /\ unit[u].left > 1 =>
                /\ unit'[u].phase = unit[u].phase /\ unit'[u].left = unit[u].left - 1
                /\ unit'[u].job = unit[u].job
           /\ unit'[u] \in UnitStates
<1>1. /\ unit[u] \in UnitStates /\ unit' \in Choices(UnitNext, Units)
      /\ unit[u].phase \in {"load", "run", "reply"} => unit[u].left # 0
      /\ request.phase = "offer" => request.job \in Jobs
    BY DEF ArrayIInv, Tick, UnitInv, RequestInv, Results
<1>2. /\ unit[u].phase = "ask" =>
            unit'[u] = IF Feeding(u) THEN [phase |-> "load", left |-> FeedTicks, job |-> request.job]
                       ELSE unit[u]
      /\ unit[u].phase \in {"load", "run", "reply"} => unit[u].left > 1 \/ unit[u].left = 1
      /\ unit[u].phase = "load" /\ unit[u].left = 1 =>
            \E t \in RunTicks : unit'[u] = [phase |-> "run", left |-> t, job |-> unit[u].job]
      /\ unit[u].phase = "run" /\ unit[u].left = 1 =>
            unit'[u] = [phase |-> "offer", left |-> 0, job |-> unit[u].job]
      /\ unit[u].phase = "offer" =>
            unit'[u] = IF ResponseReceiving(u)
                       THEN [phase |-> "reply", left |-> ReplyTicks, job |-> unit[u].job] ELSE unit[u]
      /\ unit[u].phase = "reply" /\ unit[u].left = 1 =>
            unit'[u] = [phase |-> "ask", left |-> 0, job |-> None]
      /\ unit[u].phase \in {"load", "run", "reply"} /\ unit[u].left > 1 =>
            unit'[u] = [phase |-> unit[u].phase, left |-> unit[u].left - 1, job |-> unit[u].job]
    BY <1>1, UnitStep
<1>. PICK s : s = unit[u]
    OBVIOUS
<1>. PICK t : t = unit'[u]
    OBVIOUS
<1>3. /\ s.phase \in {"ask", "load", "run", "offer", "reply"} /\ s.left \in Nat
      /\ s.job \in Jobs \cup {None}
    BY <1>1 DEF UnitStates
<1>4. RunTicks \subseteq Nat \ {0} /\ FeedTicks \in Nat /\ ReplyTicks \in Nat
    BY ArrayAssumption
<1>5. ASSUME s.phase = "ask"
      PROVE  /\ IF request.phase = "offer" /\ request.unit = u
                THEN t.phase = "load" /\ t.left = FeedTicks /\ t.job = request.job
                ELSE t = s
             /\ t \in UnitStates
    <2>1. CASE Feeding(u)
        BY <1>1, <1>2, <1>4, <1>5, <2>1 DEF Feeding, UnitStates
    <2>2. CASE ~Feeding(u)
        BY <1>1, <1>2, <1>5, <2>2 DEF Feeding
    <2>. QED
        BY <2>1, <2>2
<1>6. ASSUME s.phase = "load", s.left = 1
      PROVE  t.phase = "run" /\ t.left \in Nat \ {0} /\ t.job = s.job /\ t \in UnitStates
    <2>. PICK ticks \in RunTicks : t = [phase |-> "run", left |-> ticks, job |-> s.job]
        BY <1>2, <1>6
    <2>. QED
        BY <1>3, <1>4 DEF UnitStates
<1>7. ASSUME s.phase = "run", s.left = 1
      PROVE  t.phase = "offer" /\ t.job = s.job /\ t \in UnitStates
    BY <1>2, <1>3, <1>7 DEF UnitStates
<1>8. ASSUME s.phase = "offer"
      PROVE  /\ IF response.phase = "ask" /\ response.unit = u
                THEN t.phase = "reply" /\ t.left = ReplyTicks /\ t.job = s.job
                ELSE t = s
             /\ t \in UnitStates
    <2>1. CASE ResponseReceiving(u)
        BY <1>2, <1>3, <1>4, <1>8, <2>1 DEF ResponseReceiving, UnitStates
    <2>2. CASE ~ResponseReceiving(u)
        BY <1>1, <1>2, <1>8, <2>2 DEF ResponseReceiving
    <2>. QED
        BY <2>1, <2>2
<1>9. ASSUME s.phase = "reply", s.left = 1
      PROVE  t.phase = "ask" /\ t \in UnitStates
    BY <1>2, <1>9 DEF UnitStates
<1>10. ASSUME s.phase \in {"load", "run", "reply"}, s.left > 1
       PROVE  t.phase = s.phase /\ t.left = s.left - 1 /\ t.job = s.job /\ t \in UnitStates
    <2>1. t = [phase |-> s.phase, left |-> s.left - 1, job |-> s.job]
        BY <1>2, <1>10
    <2>2. s.left - 1 \in Nat
        BY <1>3, <1>10
    <2>. QED
        BY <1>3, <2>1, <2>2 DEF UnitStates
<1>. QED
    BY <1>2, <1>3, <1>5, <1>6, <1>7, <1>8, <1>9, <1>10

\* A tick of requestThread, field by field.
LEMMA RequestTick ==
    ASSUME ArrayIInv, Tick
    PROVE  /\ request' \in RequestStates
           /\ request.phase = "top" =>
                \/ request' = request
                \/ \E c \in Clients, u \in Units :
                      /\ client[c].phase = "offer" /\ (Free(u) \/ u \in Released)
                      /\ request'.phase = "ask" /\ request'.client = c /\ request'.unit = u
           /\ request.phase # "top" /\ ~(request.phase = "feed" /\ request.left = 1) =>
                request'.client = request.client /\ request'.unit = request.unit
           /\ request.phase = "ask" =>
                /\ request'.phase = "read" /\ request'.left = RequestTicks
                /\ request'.job.inputs = client[request.client].sent
                /\ request'.job \in [inputs : RequestsOf(request.client), isa : Shaders \cup {None}]
           /\ request.phase \in {"read", "fetch", "feed"} => request.left > 1 \/ request.left = 1
           /\ request.phase \in {"read", "fetch", "feed"} /\ request.left > 1 =>
                /\ request'.phase = request.phase /\ request'.left = request.left - 1
                /\ request'.job = request.job
           /\ request.phase \in {"read", "fetch"} /\ request.left = 1 =>
                /\ request'.job.inputs = request.job.inputs
                /\ request'.job \in [inputs : RequestsOf(request.client), isa : Shaders \cup {None}]
                /\ \/ request'.phase = "offer" /\ request'.job \in Results
                   \/ request'.phase = "fetch" /\ request'.left = FetchTicks /\ ~Has(isaCache, IsaAddress)
           /\ request.phase = "offer" =>
                request'.phase = "feed" /\ request'.left = FeedTicks /\ request'.job = request.job
           /\ request.phase = "feed" /\ request.left = 1 => request'.phase = "top"
<1>. PICK q : q = request
    OBVIOUS
<1>. PICK n : n = request'
    OBVIOUS
<1>1. /\ limit \in Limits /\ RequestInv /\ CacheInv /\ version \in [Addresses -> Nat] /\ RequestThread
      /\ \A c \in Clients : ClientInv(c, client[c])
    BY DEF ArrayIInv, Tick, CurrentInv
<1>2. /\ q.phase = "top" =>
            \/ UNCHANGED request
            \/ \E c \in Clients, u \in Units :
                  /\ Requesting(c) /\ (Free(u) \/ u \in Released)
                  /\ n = [phase |-> "ask", left |-> 0, client |-> c, unit |-> u, job |-> None]
      /\ q.phase = "ask" =>
            n = [phase |-> "read", left |-> RequestTicks, client |-> q.client, unit |-> q.unit,
                 job |-> [inputs |-> client[q.client].sent, isa |-> None]]
      /\ q.phase \in {"read", "fetch", "feed"} => q.left > 1 \/ q.left = 1
      /\ q.phase \in {"read", "fetch", "feed"} /\ q.left > 1 =>
            n = [phase |-> q.phase, left |-> q.left - 1, client |-> q.client, unit |-> q.unit, job |-> q.job]
      /\ q.phase \in {"read", "fetch"} /\ q.left = 1 =>
            \/ \E isa \in Shaders :
                  /\ isa.address = IsaAddress
                  /\ n = [phase |-> "offer", left |-> 0, client |-> q.client, unit |-> q.unit,
                          job |-> [inputs |-> q.job.inputs, isa |-> isa]]
            \/ /\ q.phase = "read" /\ ~Has(isaCache, IsaAddress)
               /\ n = [phase |-> "fetch", left |-> FetchTicks, client |-> q.client, unit |-> q.unit, job |-> q.job]
      /\ q.phase = "offer" =>
            n = [phase |-> "feed", left |-> FeedTicks, client |-> q.client, unit |-> q.unit, job |-> q.job]
      /\ q.phase = "feed" /\ q.left = 1 => n = NoRequest
    BY <1>1, RequestStep
<1>3. /\ q \in RequestStates
      /\ q.phase \in {"top", "ask", "read", "fetch", "offer", "feed"} /\ q.left \in Nat
      /\ q.client \in Clients \cup {None} /\ q.unit \in Units \cup {None}
      /\ q.job \in [inputs : Requests, isa : Shaders \cup {None}] \cup {None}
      /\ q.phase # "top" => q.client \in Clients /\ q.unit \in Units
      /\ q.phase = "ask" => client[q.client].phase = "offer"
      /\ q.phase \in {"read", "fetch", "offer", "feed"} =>
            q.job \in [inputs : RequestsOf(q.client), isa : Shaders \cup {None}]
    BY <1>1 DEF RequestInv, RequestStates
<1>4. {RequestTicks, FetchTicks, FeedTicks} \subseteq Nat \ {0}
    BY ArrayAssumption
<1>5. ASSUME q.phase = "top"
      PROVE  /\ n \in RequestStates
             /\ \/ n = q
                \/ \E c \in Clients, u \in Units :
                      /\ client[c].phase = "offer" /\ (Free(u) \/ u \in Released)
                      /\ n.phase = "ask" /\ n.client = c /\ n.unit = u
    <2>1. CASE n = q
        BY <1>3, <2>1
    <2>2. CASE n # q
        <3>. PICK c \in Clients, u \in Units :
                  /\ Requesting(c) /\ (Free(u) \/ u \in Released)
                  /\ n = [phase |-> "ask", left |-> 0, client |-> c, unit |-> u, job |-> None]
            BY <1>2, <1>5, <2>2
        <3>1. n.phase = "ask" /\ n.client = c /\ n.unit = u /\ n \in RequestStates
            BY DEF RequestStates
        <3>. QED
            BY <3>1 DEF Requesting
    <2>. QED
        BY <2>1, <2>2
<1>6. ASSUME q.phase = "ask"
      PROVE  /\ n \in RequestStates /\ n.client = q.client /\ n.unit = q.unit
             /\ n.phase = "read" /\ n.left = RequestTicks
             /\ n.job.inputs = client[q.client].sent
             /\ n.job \in [inputs : RequestsOf(q.client), isa : Shaders \cup {None}]
    <2>. PICK c : c = q.client
        OBVIOUS
    <2>. PICK sent : sent = client[c].sent
        OBVIOUS
    <2>1. c \in Clients /\ client[c].phase = "offer" /\ ClientInv(c, client[c])
        BY <1>1, <1>3, <1>6
    <2>2. sent \in RequestsOf(c)
        BY <2>1, StateIs DEF ClientInv, WaitingInv
    <2>3. sent \in Requests
        BY <1>1, <2>1, <2>2, RequestIs
    <2>4. n = [phase |-> "read", left |-> RequestTicks, client |-> q.client, unit |-> q.unit,
               job |-> [inputs |-> sent, isa |-> None]]
        BY <1>2, <1>6
    <2>. QED
        BY <1>3, <1>4, <1>6, <2>2, <2>3, <2>4 DEF RequestStates
<1>7. ASSUME q.phase \in {"read", "fetch", "feed"}, q.left > 1
      PROVE  /\ n \in RequestStates /\ n.client = q.client /\ n.unit = q.unit
             /\ n.phase = q.phase /\ n.left = q.left - 1 /\ n.job = q.job
    <2>1. n = [phase |-> q.phase, left |-> q.left - 1, client |-> q.client, unit |-> q.unit, job |-> q.job]
        BY <1>2, <1>7
    <2>2. q.left - 1 \in Nat
        BY <1>3, <1>7
    <2>. QED
        BY <1>3, <2>1, <2>2 DEF RequestStates
<1>8. ASSUME q.phase \in {"read", "fetch"}, q.left = 1
      PROVE  /\ n \in RequestStates /\ n.client = q.client /\ n.unit = q.unit
             /\ n.job.inputs = q.job.inputs
             /\ n.job \in [inputs : RequestsOf(q.client), isa : Shaders \cup {None}]
             /\ \/ n.phase = "offer" /\ n.job \in Results
                \/ n.phase = "fetch" /\ n.left = FetchTicks /\ ~Has(isaCache, IsaAddress)
    <2>. PICK job : job = q.job
        OBVIOUS
    <2>1. job \in [inputs : RequestsOf(q.client), isa : Shaders \cup {None}] /\ q.client \in Clients
        BY <1>3, <1>8
    <2>2. job.inputs \in RequestsOf(q.client) /\ job.inputs \in Requests
        BY <1>1, <2>1, RequestIs
    <2>3. CASE \E isa \in Shaders :
                  /\ isa.address = IsaAddress
                  /\ n = [phase |-> "offer", left |-> 0, client |-> q.client, unit |-> q.unit,
                          job |-> [inputs |-> q.job.inputs, isa |-> isa]]
        <3>. PICK isa \in Shaders :
                  /\ isa.address = IsaAddress
                  /\ n = [phase |-> "offer", left |-> 0, client |-> q.client, unit |-> q.unit,
                          job |-> [inputs |-> q.job.inputs, isa |-> isa]]
            BY <2>3
        <3>. PICK next : next = [inputs |-> job.inputs, isa |-> isa]
            OBVIOUS
        <3>1. n = [phase |-> "offer", left |-> 0, client |-> q.client, unit |-> q.unit, job |-> next]
            OBVIOUS
        <3>2. next.inputs = job.inputs /\ next.isa = isa
            OBVIOUS
        <3>3. isa.address = job.inputs.address
            BY DEF IsaAddress
        <3>4. next \in Results
            BY <2>2, <3>2, <3>3 DEF Results, Jobs
        <3>5. next \in [inputs : RequestsOf(q.client), isa : Shaders \cup {None}]
              /\ next \in [inputs : Requests, isa : Shaders \cup {None}]
            BY <2>2
        <3>6. n \in RequestStates
            BY <1>3, <1>8, <3>1, <3>5 DEF RequestStates
        <3>. QED
            BY <3>1, <3>2, <3>4, <3>5, <3>6
    <2>4. CASE /\ q.phase = "read" /\ ~Has(isaCache, IsaAddress)
               /\ n = [phase |-> "fetch", left |-> FetchTicks, client |-> q.client, unit |-> q.unit, job |-> q.job]
        BY <1>3, <1>4, <2>1, <2>4 DEF RequestStates
    <2>. QED
        BY <1>2, <1>8, <2>3, <2>4
<1>9. ASSUME q.phase = "offer"
      PROVE  /\ n \in RequestStates /\ n.client = q.client /\ n.unit = q.unit
             /\ n.phase = "feed" /\ n.left = FeedTicks /\ n.job = q.job
    BY <1>2, <1>3, <1>4, <1>9 DEF RequestStates
<1>10. ASSUME q.phase = "feed", q.left = 1
       PROVE  n \in RequestStates /\ n.phase = "top"
    BY <1>2, <1>10 DEF NoRequest, RequestStates
<1>11. q.phase \in {"read", "fetch", "feed"} => q.left > 1 \/ q.left = 1
    BY <1>2
<1>12. n \in RequestStates
    BY <1>3, <1>5, <1>6, <1>7, <1>8, <1>9, <1>10, <1>11
<1>13. q.phase # "top" /\ ~(q.phase = "feed" /\ q.left = 1) => n.client = q.client /\ n.unit = q.unit
    BY <1>3, <1>6, <1>7, <1>8, <1>9, <1>11
<1>. QED
    BY <1>5, <1>6, <1>7, <1>8, <1>9, <1>10, <1>11, <1>12, <1>13

\* A tick of responseThread, field by field.
LEMMA ResponseTick ==
    ASSUME ArrayIInv, Tick
    PROVE  /\ response' \in ResponseStates
           /\ response.phase = "top" =>
                \/ response' = response
                \/ \E u \in Units :
                      /\ unit[u].phase = "offer" /\ response'.phase = "ask"
                      /\ response'.client = unit[u].job.inputs.client /\ response'.unit = u
           /\ response.phase # "top" /\ ~(response.phase = "send" /\ response.left = 1) =>
                response'.client = response.client /\ response'.unit = response.unit
           /\ response.phase = "ask" =>
                /\ response'.phase = "read" /\ response'.left = ReplyTicks
                /\ response'.message.result = unit[response.unit].job
                /\ response'.message \in Messages
           /\ response.phase \in {"read", "send"} => response.left > 1 \/ response.left = 1
           /\ response.phase \in {"read", "send"} /\ response.left > 1 =>
                /\ response'.phase = response.phase /\ response'.left = response.left - 1
                /\ response'.message = response.message
           /\ response.phase = "read" /\ response.left = 1 =>
                response'.phase = "offer" /\ response'.message = response.message
           /\ response.phase = "offer" =>
                IF client[response.client].phase = "ask"
                THEN /\ response'.phase = "send" /\ response'.left = ReplyTicks + 1
                     /\ response'.message = response.message
                ELSE response' = response
           /\ response.phase = "send" /\ response.left = 1 => response'.phase = "top"
<1>. PICK q : q = response
    OBVIOUS
<1>. PICK n : n = response'
    OBVIOUS
<1>1. limit \in Limits /\ ResponseInv /\ UnitInv /\ ResponseThread
    BY DEF ArrayIInv, Tick
<1>2. /\ q.phase = "top" =>
            \/ UNCHANGED response
            \/ \E u \in Units :
                  /\ unit[u].phase = "offer"
                  /\ n = [phase |-> "ask", left |-> 0, client |-> unit[u].job.inputs.client,
                          unit |-> u, message |-> None]
      /\ q.phase = "ask" =>
            n = [phase |-> "read", left |-> ReplyTicks, client |-> q.client, unit |-> q.unit,
                 message |-> [token |-> unit[q.unit].job.inputs.token, result |-> unit[q.unit].job]]
      /\ q.phase \in {"read", "send"} => q.left > 1 \/ q.left = 1
      /\ q.phase \in {"read", "send"} /\ q.left > 1 =>
            n = [phase |-> q.phase, left |-> q.left - 1, client |-> q.client, unit |-> q.unit,
                 message |-> q.message]
      /\ q.phase = "read" /\ q.left = 1 =>
            n = [phase |-> "offer", left |-> 0, client |-> q.client, unit |-> q.unit, message |-> q.message]
      /\ q.phase = "offer" =>
            n = IF client[q.client].phase = "ask"
                THEN [phase |-> "send", left |-> ReplyTicks + 1, client |-> q.client, unit |-> q.unit,
                      message |-> q.message]
                ELSE q
      /\ q.phase = "send" /\ q.left = 1 => n = NoResponse
    BY <1>1, ResponseStep
<1>3. /\ q \in ResponseStates
      /\ q.phase \in {"top", "ask", "read", "offer", "send"} /\ q.left \in Nat
      /\ q.client \in Clients \cup {None} /\ q.unit \in Units \cup {None}
      /\ q.message \in Messages \cup {None}
      /\ q.phase # "top" => q.client \in Clients /\ q.unit \in Units
      /\ q.phase = "ask" => unit[q.unit].phase = "offer"
    BY <1>1 DEF ResponseInv, ResponseStates
<1>4. \A u \in Units : unit[u].phase # "ask" => unit[u].job \in Results
    BY <1>1 DEF UnitInv
<1>5. ReplyTicks \in Nat \ {0}
    BY ArrayAssumption
<1>6. ASSUME q.phase = "top"
      PROVE  /\ n \in ResponseStates
             /\ \/ n = q
                \/ \E u \in Units :
                      /\ unit[u].phase = "offer" /\ n.phase = "ask"
                      /\ n.client = unit[u].job.inputs.client /\ n.unit = u
    <2>1. CASE n = q
        BY <1>3, <2>1
    <2>2. CASE n # q
        <3>. PICK u \in Units :
                  /\ unit[u].phase = "offer"
                  /\ n = [phase |-> "ask", left |-> 0, client |-> unit[u].job.inputs.client,
                          unit |-> u, message |-> None]
            BY <1>2, <1>6, <2>2
        <3>. PICK job : job = unit[u].job
            OBVIOUS
        <3>1. job.inputs.client \in Clients
            BY <1>1, <1>4, RequestIs
        <3>2. n.phase = "ask" /\ n.client = job.inputs.client /\ n.unit = u /\ n \in ResponseStates
            BY <3>1 DEF ResponseStates
        <3>. QED
            BY <3>2
    <2>. QED
        BY <2>1, <2>2
<1>7. ASSUME q.phase = "ask"
      PROVE  /\ n \in ResponseStates /\ n.client = q.client /\ n.unit = q.unit
             /\ n.phase = "read" /\ n.left = ReplyTicks
             /\ n.message.result = unit[q.unit].job /\ n.message \in Messages
    <2>. PICK u : u = q.unit
        OBVIOUS
    <2>. PICK job : job = unit[u].job
        OBVIOUS
    <2>. PICK message : message = [token |-> job.inputs.token, result |-> job]
        OBVIOUS
    <2>1. job \in Results
        BY <1>3, <1>4, <1>7
    <2>2. job.inputs.token \in Nat
        BY <1>1, <2>1, RequestIs
    <2>3. message.result = job /\ message.token = job.inputs.token
        OBVIOUS
    <2>4. message \in Messages
        BY <2>1, <2>2, <2>3 DEF Messages
    <2>5. n = [phase |-> "read", left |-> ReplyTicks, client |-> q.client, unit |-> q.unit,
               message |-> message]
        BY <1>2, <1>7
    <2>. QED
        BY <1>3, <1>5, <1>7, <2>3, <2>4, <2>5 DEF ResponseStates
<1>8. ASSUME q.phase \in {"read", "send"}, q.left > 1
      PROVE  /\ n \in ResponseStates /\ n.client = q.client /\ n.unit = q.unit
             /\ n.phase = q.phase /\ n.left = q.left - 1 /\ n.message = q.message
    <2>1. n = [phase |-> q.phase, left |-> q.left - 1, client |-> q.client, unit |-> q.unit,
               message |-> q.message]
        BY <1>2, <1>8
    <2>2. q.left - 1 \in Nat
        BY <1>3, <1>8
    <2>. QED
        BY <1>3, <2>1, <2>2 DEF ResponseStates
<1>9. ASSUME q.phase = "read", q.left = 1
      PROVE  /\ n \in ResponseStates /\ n.client = q.client /\ n.unit = q.unit
             /\ n.phase = "offer" /\ n.message = q.message
    BY <1>2, <1>3, <1>9 DEF ResponseStates
<1>10. ASSUME q.phase = "offer"
       PROVE  /\ n \in ResponseStates /\ n.client = q.client /\ n.unit = q.unit
              /\ IF client[q.client].phase = "ask"
                 THEN n.phase = "send" /\ n.left = ReplyTicks + 1 /\ n.message = q.message
                 ELSE n = q
    <2>1. CASE client[q.client].phase = "ask"
        BY <1>2, <1>3, <1>5, <1>10, <2>1 DEF ResponseStates
    <2>2. CASE client[q.client].phase # "ask"
        BY <1>2, <1>3, <1>10, <2>2
    <2>. QED
        BY <2>1, <2>2
<1>11. ASSUME q.phase = "send", q.left = 1
       PROVE  n \in ResponseStates /\ n.phase = "top"
    BY <1>2, <1>11 DEF NoResponse, ResponseStates
<1>12. q.phase \in {"read", "send"} => q.left > 1 \/ q.left = 1
    BY <1>2
<1>13. n \in ResponseStates
    BY <1>3, <1>6, <1>7, <1>8, <1>9, <1>10, <1>11, <1>12
<1>14. q.phase # "top" /\ ~(q.phase = "send" /\ q.left = 1) => n.client = q.client /\ n.unit = q.unit
    BY <1>3, <1>7, <1>8, <1>9, <1>10, <1>12
<1>. QED
    BY <1>6, <1>7, <1>8, <1>9, <1>10, <1>11, <1>12, <1>13, <1>14

\* A unit that is free, or is being released, receives the next command.
LEMMA FreeUnitAsks ==
    ASSUME ArrayIInv, Tick, request.phase = "top", NEW u \in Units, Free(u) \/ u \in Released
    PROVE  unit'[u].phase = "ask"
<1>1. /\ unit[u].phase = "load" <=> request.phase = "feed" /\ request.unit = u
      /\ shaderUnitState[u] =
            IF unit[u].phase \in {"ask", "load"} THEN None
            ELSE [client |-> unit[u].job.inputs.client, token |-> unit[u].job.inputs.token]
      /\ unit[u].phase # "ask" => unit[u].job \in Results
      /\ limit \in Limits
      /\ unit[u].phase = "reply" <=> response.phase = "read" /\ response.unit = u
      /\ unit[u].phase = "reply" => unit[u].left = response.left
    BY DEF ArrayIInv, UnitInv, ResponseInv
<1>2. CASE Free(u)
    <2>1. CASE unit[u].phase \in {"ask", "load"}
        <3>1. unit[u].phase = "ask"
            BY <1>1, <2>1
        <3>. QED
            BY <3>1, UnitTick
    <2>2. CASE unit[u].phase \notin {"ask", "load"}
        <3>. PICK r : r = unit[u].job.inputs
            OBVIOUS
        <3>1. r.client \in Clients /\ r.token \in Nat
            BY <1>1, <2>2, RequestIs
        <3>2. [client |-> r.client, token |-> r.token] \in [client : Clients, token : Nat]
            BY <3>1
        <3>3. shaderUnitState[u] = [client |-> r.client, token |-> r.token]
            BY <1>1, <2>2
        <3>4. shaderUnitState[u] # None
            BY <3>2, <3>3, ArrayAssumption
        <3>. QED
            BY <1>2, <3>4 DEF Free
    <2>. QED
        BY <2>1, <2>2
<1>3. CASE u \in Released
    <2>1. unit[u].phase = "reply" /\ unit[u].left = 1
        BY <1>1, <1>3 DEF Released
    <2>. QED
        BY <2>1, UnitTick
<1>. QED
    BY <1>2, <1>3

LEMMA RequestKept ==
    ASSUME ArrayIInv, Tick
    PROVE  RequestInv'
<1>. PICK q : q = request
    OBVIOUS
<1>. PICK n : n = request'
    OBVIOUS
<1>1. /\ limit \in Limits /\ limit' = limit /\ \A c \in Clients : ClientInv(c, client[c])
      /\ q.phase \in {"top", "ask", "read", "fetch", "offer", "feed"} /\ q.left \in Nat
      /\ q.phase # "top" => q.client \in Clients /\ q.unit \in Units
      /\ q.phase = "ask" => client[q.client].phase = "offer"
      /\ q.phase \in {"read", "fetch", "offer", "feed"} =>
            q.job \in [inputs : RequestsOf(q.client), isa : Shaders \cup {None}]
      /\ q.phase \in {"offer", "feed"} => q.job \in Results
      /\ q.phase \in {"ask", "read", "fetch", "offer"} => unit[q.unit].phase = "ask"
      /\ \A c \in Clients : /\ client[c].phase = "send" <=> q.phase = "read" /\ q.client = c
                            /\ client[c].phase = "send" => client[c].left = q.left
    BY DEF ArrayIInv, Tick, RequestInv, RequestStates
<1>2. /\ n \in RequestStates
      /\ q.phase = "top" =>
            \/ n = q
            \/ \E c \in Clients, u \in Units :
                  /\ client[c].phase = "offer" /\ (Free(u) \/ u \in Released)
                  /\ n.phase = "ask" /\ n.client = c /\ n.unit = u
      /\ q.phase # "top" /\ ~(q.phase = "feed" /\ q.left = 1) => n.client = q.client /\ n.unit = q.unit
      /\ q.phase = "ask" =>
            /\ n.phase = "read" /\ n.left = RequestTicks
            /\ n.job.inputs = client[q.client].sent
            /\ n.job \in [inputs : RequestsOf(q.client), isa : Shaders \cup {None}]
      /\ q.phase \in {"read", "fetch", "feed"} => q.left > 1 \/ q.left = 1
      /\ q.phase \in {"read", "fetch", "feed"} /\ q.left > 1 =>
            n.phase = q.phase /\ n.left = q.left - 1 /\ n.job = q.job
      /\ q.phase \in {"read", "fetch"} /\ q.left = 1 =>
            /\ n.job.inputs = q.job.inputs
            /\ n.job \in [inputs : RequestsOf(q.client), isa : Shaders \cup {None}]
            /\ \/ n.phase = "offer" /\ n.job \in Results
               \/ n.phase = "fetch" /\ n.left = FetchTicks /\ ~Has(isaCache, IsaAddress)
      /\ q.phase = "offer" => n.phase = "feed" /\ n.left = FeedTicks /\ n.job = q.job
      /\ q.phase = "feed" /\ q.left = 1 => n.phase = "top"
    BY RequestTick
<1>3. /\ RequestTicks \in Nat /\ RequestTicks # 0 /\ FetchTicks \in Nat /\ FetchTicks # 0
      /\ FeedTicks \in Nat /\ FeedTicks # 0
    BY ArrayAssumption
<1>4. n.phase # "top" => n.client \in Clients /\ n.unit \in Units
    BY <1>1, <1>2
<1>5. n.phase \in {"read", "fetch", "feed"} => n.left # 0
    <2>1. q.phase \in {"read", "fetch", "feed"} /\ q.left > 1 => q.left - 1 # 0
        BY <1>1
    <2>. QED
        BY <1>1, <1>2, <1>3, <2>1
<1>6. ASSUME n.phase = "ask"
      PROVE  q.phase = "top" /\ client'[n.client].phase = "offer" /\ unit'[n.unit].phase = "ask"
    <2>1. q.phase = "top" /\ n # q
        BY <1>1, <1>2, <1>6
    <2>. PICK c \in Clients, u \in Units :
              /\ client[c].phase = "offer" /\ (Free(u) \/ u \in Released)
              /\ n.phase = "ask" /\ n.client = c /\ n.unit = u
        BY <1>2, <2>1
    <2>2. client'[c] = client[c]
        BY <2>1, ClientTick
    <2>3. unit'[u].phase = "ask"
        BY <2>1, FreeUnitAsks
    <2>. QED
        BY <2>1, <2>2, <2>3
<1>7. n.phase \in {"read", "fetch", "offer", "feed"} =>
            n.job \in [inputs : RequestsOf(n.client), isa : Shaders \cup {None}]
    BY <1>1, <1>2
<1>8. n.phase \in {"offer", "feed"} => n.job \in Results
    BY <1>1, <1>2
<1>9. ASSUME n.phase \in {"read", "fetch", "offer"}
      PROVE  unit'[n.unit].phase = "ask"
    <2>1. q.phase \in {"ask", "read", "fetch"} /\ n.unit = q.unit /\ q.unit \in Units
        BY <1>1, <1>2, <1>9
    <2>2. unit'[q.unit] = unit[q.unit]
        BY <1>1, <2>1, UnitTick
    <2>. QED
        BY <1>1, <2>1, <2>2
<1>10. ASSUME NEW c \in Clients
       PROVE  /\ client'[c].phase = "send" <=> n.phase = "read" /\ n.client = c
              /\ client'[c].phase = "send" => client'[c].left = n.left
    <2>. PICK s : s = client[c]
        OBVIOUS
    <2>. PICK t : t = client'[c]
        OBVIOUS
    <2>1. /\ s.phase = "rest" => t.phase \in {"offer", "ask", "rest", "drain"}
          /\ s.phase = "offer" =>
                IF q.phase = "ask" /\ q.client = c THEN t.phase = "send" /\ t.left = RequestTicks ELSE t = s
          /\ s.phase = "ask" =>
                IF response.phase = "offer" /\ response.client = c THEN t.phase = "take" ELSE t = s
          /\ s.phase \in {"send", "take", "drain"} => s.left > 1 \/ s.left = 1
          /\ s.phase \in {"send", "take", "drain"} /\ s.left > 1 => t.phase = s.phase /\ t.left = s.left - 1
          /\ s.phase \in {"send", "take", "drain"} /\ s.left = 1 => t.phase \in {"offer", "ask", "rest", "drain"}
        BY ClientTick
    <2>2. s.phase \in {"rest", "offer", "send", "ask", "take", "drain"}
        BY <1>1 DEF ClientInv, WaitingInv, ClientStates
    <2>3. /\ s.phase = "send" <=> q.phase = "read" /\ q.client = c
          /\ s.phase = "send" => s.left = q.left
          /\ q.phase = "ask" /\ q.client = c => s.phase = "offer"
        BY <1>1
    <2>4. CASE s.phase = "send"
        BY <1>2, <2>1, <2>3, <2>4
    <2>5. CASE s.phase = "offer" /\ q.phase = "ask" /\ q.client = c
        BY <1>2, <2>1, <2>5
    <2>6. CASE s.phase # "send" /\ ~(s.phase = "offer" /\ q.phase = "ask" /\ q.client = c)
        <3>1. t.phase # "send"
            BY <2>1, <2>2, <2>6
        <3>2. ~(n.phase = "read" /\ n.client = c)
            BY <1>1, <1>2, <2>3, <2>6
        <3>. QED
            BY <3>1, <3>2
    <2>. QED
        BY <2>4, <2>5, <2>6
<1>11. /\ \A c : RequestsOf(c)' = RequestsOf(c)
       /\ Results' = Results /\ RequestStates' = RequestStates
    BY <1>1, SetsStay
<1>. QED
    BY <1>2, <1>4, <1>5, <1>6, <1>7, <1>8, <1>9, <1>10, <1>11 DEF RequestInv, Shaders

LEMMA UnitKept ==
    ASSUME ArrayIInv, Tick
    PROVE  UnitInv'
<1>. PICK q : q = request
    OBVIOUS
<1>. PICK n : n = request'
    OBVIOUS
<1>1. /\ limit \in Limits /\ limit' = limit
      /\ q.phase \in {"top", "ask", "read", "fetch", "offer", "feed"} /\ q.left \in Nat
      /\ q.phase \in {"offer", "feed"} =>
            /\ q.job \in Results /\ q.client \in Clients
            /\ q.job \in [inputs : RequestsOf(q.client), isa : Shaders \cup {None}]
      /\ q.phase \in {"ask", "read", "fetch", "offer"} => unit[q.unit].phase = "ask"
      /\ Marks
    BY DEF ArrayIInv, Tick, RequestInv, RequestStates
<1>2. /\ q.phase = "top" => n.phase \in {"top", "ask"}
      /\ q.phase # "top" /\ ~(q.phase = "feed" /\ q.left = 1) => n.unit = q.unit
      /\ q.phase = "ask" => n.phase = "read"
      /\ q.phase \in {"read", "fetch", "feed"} => q.left > 1 \/ q.left = 1
      /\ q.phase \in {"read", "fetch", "feed"} /\ q.left > 1 =>
            n.phase = q.phase /\ n.left = q.left - 1 /\ n.job = q.job
      /\ q.phase \in {"read", "fetch"} /\ q.left = 1 => n.phase \in {"offer", "fetch"}
      /\ q.phase = "offer" => n.phase = "feed" /\ n.left = FeedTicks /\ n.job = q.job
      /\ q.phase = "feed" /\ q.left = 1 => n.phase = "top"
    BY RequestTick
<1>3. FeedTicks \in Nat /\ FeedTicks # 0 /\ ReplyTicks \in Nat /\ ReplyTicks # 0
    BY ArrayAssumption
<1>4. Results' = Results /\ UnitStates' = UnitStates
    BY <1>1, SetsStay
<1>. DEFINE MarkOf(s) ==
                IF s.phase \in {"ask", "load"} THEN None
                ELSE [client |-> s.job.inputs.client, token |-> s.job.inputs.token]
<1>5. ASSUME NEW u \in Units
      PROVE  /\ unit'[u] \in UnitStates
             /\ unit'[u].phase # "ask" => unit'[u].job \in Results
             /\ unit'[u].phase \in {"load", "run", "reply"} => unit'[u].left # 0
             /\ unit'[u].phase = "load" <=> n.phase = "feed" /\ n.unit = u
             /\ unit'[u].phase = "load" => unit'[u].left = n.left /\ unit'[u].job = n.job
             /\ shaderUnitState'[u] = MarkOf(unit'[u])
    <2>. PICK s : s = unit[u]
        OBVIOUS
    <2>. PICK t : t = unit'[u]
        OBVIOUS
    <2>1. /\ s \in UnitStates
          /\ s.phase # "ask" => s.job \in Results
          /\ s.phase \in {"load", "run", "reply"} => s.left # 0
          /\ s.phase = "load" <=> q.phase = "feed" /\ q.unit = u
          /\ s.phase = "load" => s.left = q.left /\ s.job = q.job
          /\ shaderUnitState[u] = MarkOf(s)
          /\ s.phase = "reply" <=> response.phase = "read" /\ response.unit = u
          /\ s.phase = "reply" => s.left = response.left
        BY DEF ArrayIInv, UnitInv, ResponseInv
    <2>2. s.phase \in {"ask", "load", "run", "offer", "reply"} /\ s.left \in Nat
        BY <2>1 DEF UnitStates
    <2>3. /\ s.phase = "ask" =>
                IF q.phase = "offer" /\ q.unit = u
                THEN t.phase = "load" /\ t.left = FeedTicks /\ t.job = q.job
                ELSE t = s
          /\ s.phase \in {"load", "run", "reply"} => s.left > 1 \/ s.left = 1
          /\ s.phase = "load" /\ s.left = 1 => t.phase = "run" /\ t.left \in Nat \ {0} /\ t.job = s.job
          /\ s.phase = "run" /\ s.left = 1 => t.phase = "offer" /\ t.job = s.job
          /\ s.phase = "offer" =>
                IF response.phase = "ask" /\ response.unit = u
                THEN t.phase = "reply" /\ t.left = ReplyTicks /\ t.job = s.job
                ELSE t = s
          /\ s.phase = "reply" /\ s.left = 1 => t.phase = "ask"
          /\ s.phase \in {"load", "run", "reply"} /\ s.left > 1 =>
                t.phase = s.phase /\ t.left = s.left - 1 /\ t.job = s.job
          /\ t \in UnitStates
        BY UnitTick
    <2>4. t.phase # "ask" => t.job \in Results
        BY <1>1, <2>1, <2>2, <2>3
    <2>5. t.phase \in {"load", "run", "reply"} => t.left # 0
        <3>1. s.left > 1 => s.left - 1 # 0
            BY <2>2
        <3>. QED
            BY <1>3, <2>1, <2>2, <2>3, <3>1
    <2>6. /\ t.phase = "load" <=> n.phase = "feed" /\ n.unit = u
          /\ t.phase = "load" => t.left = n.left /\ t.job = n.job
        <3>1. CASE q.phase = "offer" /\ q.unit = u
            BY <1>1, <1>2, <2>3, <3>1
        <3>2. CASE q.phase = "feed" /\ q.unit = u
            BY <1>2, <2>1, <2>3, <3>2
        <3>3. CASE ~(q.phase \in {"offer", "feed"} /\ q.unit = u)
            <4>1. t.phase # "load"
                BY <2>1, <2>2, <2>3, <3>3
            <4>2. ~(n.phase = "feed" /\ n.unit = u)
                BY <1>1, <1>2, <3>3
            <4>. QED
                BY <4>1, <4>2
        <3>. QED
            BY <3>1, <3>2, <3>3
    <2>7. shaderUnitState'[u] = IF q.phase = "feed" /\ q.left = 1 /\ q.unit = u THEN Mark
                                ELSE IF u \in Released THEN None ELSE shaderUnitState[u]
        BY <1>1 DEF Marks, MarkFree, RequestDone
    <2>8. u \in Released <=> s.phase = "reply" /\ s.left = 1
        BY <2>1 DEF Released
    <2>9. shaderUnitState'[u] = MarkOf(t)
        <3>1. CASE q.phase = "feed" /\ q.left = 1 /\ q.unit = u
            <4>1. t.phase = "run" /\ t.job = q.job
                BY <2>1, <2>3, <3>1
            <4>. PICK r : r = q.job.inputs
                OBVIOUS
            <4>2. r.client = q.client
                <5>1. q.client \in Clients /\ r \in RequestsOf(q.client)
                    BY <1>1, <3>1
                <5>. QED
                    BY <1>1, <5>1, RequestIs
            <4>3. Mark = [client |-> r.client, token |-> r.token]
                BY <4>2 DEF Mark
            <4>. QED
                BY <2>7, <3>1, <4>1, <4>3
        <3>2. CASE ~(q.phase = "feed" /\ q.left = 1 /\ q.unit = u) /\ u \in Released
            <4>1. t.phase = "ask"
                BY <2>3, <2>8, <3>2
            <4>. QED
                BY <2>7, <3>2, <4>1
        <3>3. CASE ~(q.phase = "feed" /\ q.left = 1 /\ q.unit = u) /\ u \notin Released
            <4>1. shaderUnitState'[u] = MarkOf(s)
                BY <2>1, <2>7, <3>3
            <4>2. CASE s.phase \in {"ask", "load"}
                <5>1. t.phase \in {"ask", "load"}
                    BY <2>1, <2>3, <3>3, <4>2
                <5>. QED
                    BY <4>1, <4>2, <5>1
            <4>3. CASE s.phase \in {"run", "offer", "reply"}
                <5>1. t.phase \in {"run", "offer", "reply"} /\ t.job = s.job
                    BY <2>3, <2>8, <3>3, <4>3
                <5>. QED
                    BY <4>1, <4>3, <5>1
            <4>. QED
                BY <2>2, <4>2, <4>3
        <3>. QED
            BY <3>1, <3>2, <3>3
    <2>. HIDE DEF MarkOf
    <2>. QED
        BY <2>3, <2>4, <2>5, <2>6, <2>9
<1>. QED
    BY <1>4, <1>5 DEF UnitInv

LEMMA ResponseKept ==
    ASSUME ArrayIInv, Tick
    PROVE  ResponseInv'
<1>. PICK q : q = response
    OBVIOUS
<1>. PICK n : n = response'
    OBVIOUS
<1>1. /\ limit \in Limits /\ limit' = limit /\ \A c \in Clients : ClientInv(c, client[c])
      /\ q.phase \in {"top", "ask", "read", "offer", "send"} /\ q.left \in Nat
      /\ q.phase # "top" => q.client \in Clients /\ q.unit \in Units
      /\ q.phase = "ask" => unit[q.unit].phase = "offer" /\ q.client = unit[q.unit].job.inputs.client
      /\ q.phase \in {"read", "offer", "send"} =>
            q.message \in Messages /\ q.message.result.inputs.client = q.client
      /\ \A u \in Units :
            /\ unit[u].phase # "ask" => unit[u].job \in Results
            /\ unit[u].phase \in {"ask", "load", "run", "offer", "reply"}
            /\ unit[u].phase = "reply" <=> q.phase = "read" /\ q.unit = u
            /\ unit[u].phase = "reply" => unit[u].left = q.left /\ unit[u].job = q.message.result
      /\ \A c \in Clients :
            /\ client[c].phase = "take" <=> q.phase = "send" /\ q.client = c
            /\ client[c].phase = "take" => client[c].left = q.left /\ client[c].got = q.message
    BY DEF ArrayIInv, Tick, ResponseInv, ResponseStates, UnitInv, UnitStates
<1>2. /\ n \in ResponseStates
      /\ q.phase = "top" =>
            \/ n = q
            \/ \E u \in Units :
                  /\ unit[u].phase = "offer" /\ n.phase = "ask"
                  /\ n.client = unit[u].job.inputs.client /\ n.unit = u
      /\ q.phase # "top" /\ ~(q.phase = "send" /\ q.left = 1) => n.client = q.client /\ n.unit = q.unit
      /\ q.phase = "ask" =>
            /\ n.phase = "read" /\ n.left = ReplyTicks
            /\ n.message.result = unit[q.unit].job /\ n.message \in Messages
      /\ q.phase \in {"read", "send"} => q.left > 1 \/ q.left = 1
      /\ q.phase \in {"read", "send"} /\ q.left > 1 =>
            n.phase = q.phase /\ n.left = q.left - 1 /\ n.message = q.message
      /\ q.phase = "read" /\ q.left = 1 => n.phase = "offer" /\ n.message = q.message
      /\ q.phase = "offer" =>
            IF client[q.client].phase = "ask"
            THEN n.phase = "send" /\ n.left = ReplyTicks + 1 /\ n.message = q.message
            ELSE n = q
      /\ q.phase = "send" /\ q.left = 1 => n.phase = "top"
    BY ResponseTick
<1>3. ReplyTicks \in Nat /\ ReplyTicks # 0 /\ ReplyTicks + 1 # 0
    BY ArrayAssumption
<1>4. n.phase # "top" => n.client \in Clients /\ n.unit \in Units
    <2>1. CASE q.phase = "top"
        <3>1. CASE n = q
            BY <2>1, <3>1
        <3>2. CASE n # q
            <4>. PICK u \in Units :
                      /\ unit[u].phase = "offer" /\ n.phase = "ask"
                      /\ n.client = unit[u].job.inputs.client /\ n.unit = u
                BY <1>2, <2>1, <3>2
            <4>. PICK job : job = unit[u].job
                OBVIOUS
            <4>1. job \in Results
                BY <1>1
            <4>2. job.inputs.client \in Clients
                BY <1>1, <4>1, RequestIs
            <4>. QED
                BY <4>2
        <3>. QED
            BY <3>1, <3>2
    <2>2. CASE q.phase # "top"
        BY <1>1, <1>2, <2>2
    <2>. QED
        BY <2>1, <2>2
<1>5. n.phase \in {"read", "send"} => n.left # 0
    <2>1. q.left > 1 => q.left - 1 # 0
        BY <1>1
    <2>. QED
        BY <1>1, <1>2, <1>3, <2>1
<1>6. ASSUME n.phase = "ask"
      PROVE  unit'[n.unit].phase = "offer" /\ n.client = unit'[n.unit].job.inputs.client
    <2>1. q.phase = "top" /\ n # q
        BY <1>1, <1>2, <1>6
    <2>. PICK u \in Units :
              /\ unit[u].phase = "offer" /\ n.phase = "ask"
              /\ n.client = unit[u].job.inputs.client /\ n.unit = u
        BY <1>2, <2>1
    <2>2. unit'[u] = unit[u]
        BY <2>1, UnitTick
    <2>. QED
        BY <2>2
<1>7. n.phase \in {"read", "offer", "send"} =>
            n.message \in Messages /\ n.message.result.inputs.client = n.client
    BY <1>1, <1>2
<1>8. ASSUME NEW u \in Units
      PROVE  /\ unit'[u].phase = "reply" <=> n.phase = "read" /\ n.unit = u
             /\ unit'[u].phase = "reply" => unit'[u].left = n.left /\ unit'[u].job = n.message.result
    <2>. PICK s : s = unit[u]
        OBVIOUS
    <2>. PICK t : t = unit'[u]
        OBVIOUS
    <2>1. /\ s.phase \in {"ask", "load", "run", "offer", "reply"}
          /\ s.phase = "reply" <=> q.phase = "read" /\ q.unit = u
          /\ s.phase = "reply" => s.left = q.left /\ s.job = q.message.result
          /\ q.phase = "ask" /\ q.unit = u => s.phase = "offer"
        BY <1>1
    <2>2. /\ s.phase = "ask" => t.phase = "load" \/ t = s
          /\ s.phase \in {"load", "run", "reply"} => s.left > 1 \/ s.left = 1
          /\ s.phase = "load" /\ s.left = 1 => t.phase = "run"
          /\ s.phase = "run" /\ s.left = 1 => t.phase = "offer"
          /\ s.phase = "offer" =>
                IF q.phase = "ask" /\ q.unit = u
                THEN t.phase = "reply" /\ t.left = ReplyTicks /\ t.job = s.job
                ELSE t = s
          /\ s.phase = "reply" /\ s.left = 1 => t.phase = "ask"
          /\ s.phase \in {"load", "run", "reply"} /\ s.left > 1 =>
                t.phase = s.phase /\ t.left = s.left - 1 /\ t.job = s.job
        BY UnitTick
    <2>3. CASE q.phase = "ask" /\ q.unit = u
        BY <1>2, <2>1, <2>2, <2>3
    <2>4. CASE q.phase = "read" /\ q.unit = u
        BY <1>2, <2>1, <2>2, <2>4
    <2>5. CASE ~(q.phase \in {"ask", "read"} /\ q.unit = u)
        <3>1. t.phase # "reply"
            BY <2>1, <2>2, <2>5
        <3>2. ~(n.phase = "read" /\ n.unit = u)
            BY <1>1, <1>2, <2>5
        <3>. QED
            BY <3>1, <3>2
    <2>. QED
        BY <2>3, <2>4, <2>5
<1>9. ASSUME NEW c \in Clients
      PROVE  /\ client'[c].phase = "take" <=> n.phase = "send" /\ n.client = c
             /\ client'[c].phase = "take" => client'[c].left = n.left /\ client'[c].got = n.message
    <2>. PICK s : s = client[c]
        OBVIOUS
    <2>. PICK t : t = client'[c]
        OBVIOUS
    <2>1. /\ s.phase = "rest" => t.phase \in {"offer", "ask", "rest", "drain"}
          /\ s.phase = "offer" => t.phase = "send" \/ t = s
          /\ s.phase = "ask" =>
                IF q.phase = "offer" /\ q.client = c
                THEN t.phase = "take" /\ t.left = ReplyTicks + 1 /\ t.got = q.message
                ELSE t = s
          /\ s.phase \in {"send", "take", "drain"} => s.left > 1 \/ s.left = 1
          /\ s.phase \in {"send", "take", "drain"} /\ s.left > 1 =>
                t.phase = s.phase /\ t.left = s.left - 1 /\ t.got = s.got
          /\ s.phase \in {"send", "take", "drain"} /\ s.left = 1 => t.phase \in {"offer", "ask", "rest", "drain"}
        BY ClientTick
    <2>2. s.phase \in {"rest", "offer", "send", "ask", "take", "drain"}
        BY <1>1 DEF ClientInv, WaitingInv, ClientStates
    <2>3. /\ s.phase = "take" <=> q.phase = "send" /\ q.client = c
          /\ s.phase = "take" => s.left = q.left /\ s.got = q.message
        BY <1>1
    <2>4. CASE s.phase = "take"
        BY <1>2, <2>1, <2>3, <2>4
    <2>5. CASE s.phase = "ask" /\ q.phase = "offer" /\ q.client = c
        BY <1>2, <2>1, <2>5
    <2>6. CASE s.phase # "take" /\ ~(s.phase = "ask" /\ q.phase = "offer" /\ q.client = c)
        <3>1. t.phase # "take"
            BY <2>1, <2>2, <2>6
        <3>2. ~(n.phase = "send" /\ n.client = c)
            BY <1>1, <1>2, <2>3, <2>6
        <3>. QED
            BY <3>1, <3>2
    <2>. QED
        BY <2>4, <2>5, <2>6
<1>10. Messages' = Messages /\ ResponseStates' = ResponseStates
    BY <1>1, SetsStay
<1>. QED
    BY <1>2, <1>4, <1>5, <1>6, <1>7, <1>8, <1>9, <1>10 DEF ResponseInv

\* What requestThread holds it held, or takes from the client.
LEMMA RequestHeld ==
    ASSUME ArrayIInv, Tick, NEW r, RequestHolds(r)'
    PROVE  /\ request.phase # "offer"
           /\ \/ RequestHolds(r)
              \/ ClientHolds(r.client, r) /\ RequestReceiving(r.client)
<1>1. /\ limit \in Limits /\ \A c \in Clients : ClientInv(c, client[c])
      /\ request.phase \in {"top", "ask", "read", "fetch", "offer", "feed"}
      /\ request.phase # "top" => request.client \in Clients
      /\ request.phase = "ask" => client[request.client].phase = "offer"
    BY DEF ArrayIInv, RequestInv, RequestStates
<1>2. request'.phase \in {"read", "fetch", "offer"} /\ request'.job.inputs = r
    BY DEF RequestHolds
<1>3. request.phase \in {"ask", "read", "fetch"}
    BY <1>1, <1>2, RequestTick
<1>4. CASE request.phase = "ask"
    <2>. PICK c : c = request.client
        OBVIOUS
    <2>1. c \in Clients /\ client[c].phase = "offer" /\ ClientInv(c, client[c])
        BY <1>1, <1>4
    <2>2. r = client[c].sent
        BY <1>2, <1>4, RequestTick
    <2>3. r \in RequestsOf(c)
        BY <2>1, <2>2, StateIs DEF ClientInv, WaitingInv
    <2>4. r.client = c
        BY <1>1, <2>1, <2>3, RequestIs
    <2>. QED
        BY <1>4, <2>1, <2>2, <2>4 DEF ClientHolds, RequestReceiving
<1>5. CASE request.phase \in {"read", "fetch"}
    <2>1. request'.job.inputs = request.job.inputs
        BY <1>5, RequestTick
    <2>. QED
        BY <1>2, <1>5, <2>1 DEF RequestHolds
<1>. QED
    BY <1>3, <1>4, <1>5

\* What a unit holds it held, or takes from requestThread.
LEMMA UnitHeld ==
    ASSUME ArrayIInv, Tick, NEW r, NEW u \in Units, UnitHolds(u, r)'
    PROVE  /\ ~(unit[u].phase = "reply" /\ unit[u].left = 1)
           /\ \/ UnitHolds(u, r)
              \/ request.phase = "offer" /\ request.unit = u /\ RequestHolds(r)
<1>1. unit[u].phase \in {"ask", "load", "run", "offer", "reply"}
    BY DEF ArrayIInv, UnitInv, UnitStates
<1>2. unit'[u].phase # "ask" /\ unit'[u].job.inputs = r
    BY DEF UnitHolds
<1>3. ~(unit[u].phase = "reply" /\ unit[u].left = 1)
    BY <1>2, UnitTick
<1>4. CASE unit[u].phase = "ask"
    <2>1. request.phase = "offer" /\ request.unit = u /\ unit'[u].job = request.job
        BY <1>2, <1>4, UnitTick
    <2>. QED
        BY <1>2, <1>3, <2>1 DEF RequestHolds
<1>5. CASE unit[u].phase # "ask"
    <2>1. unit'[u].job = unit[u].job
        BY <1>1, <1>3, <1>5, UnitTick
    <2>. QED
        BY <1>2, <1>3, <1>5, <2>1 DEF UnitHolds
<1>. QED
    BY <1>4, <1>5

\* What responseThread holds it held, or has read from a unit.
LEMMA ResponseHeld ==
    ASSUME ArrayIInv, Tick, NEW r, ResponseHolds(r)'
    PROVE  /\ ~(response.phase = "send" /\ response.left = 1)
           /\ \/ ResponseHolds(r)
              \/ \E u \in Units : UnitHolds(u, r) /\ unit[u].phase = "reply" /\ unit[u].left = 1
<1>1. /\ response.phase \in {"top", "ask", "read", "offer", "send"}
      /\ response.phase # "top" => response.unit \in Units
      /\ \A u \in Units :
            /\ unit[u].phase = "reply" <=> response.phase = "read" /\ response.unit = u
            /\ unit[u].phase = "reply" => unit[u].left = response.left /\ unit[u].job = response.message.result
    BY DEF ArrayIInv, ResponseInv, ResponseStates
<1>2. response'.phase \in {"offer", "send"} /\ response'.message.result.inputs = r
    BY DEF ResponseHolds
<1>3. /\ response.phase \in {"read", "offer", "send"}
      /\ response.phase = "read" => response.left = 1
      /\ response.phase = "send" => response.left # 1
      /\ response'.message = response.message
    <2>1. response.phase \in {"read", "offer", "send"} /\ ~(response.phase = "send" /\ response.left = 1)
        BY <1>1, <1>2, ResponseTick
    <2>. QED
        BY <1>2, <2>1, ResponseTick
<1>4. CASE response.phase = "read"
    <2>. PICK u : u = response.unit
        OBVIOUS
    <2>1. u \in Units /\ unit[u].phase = "reply" /\ unit[u].left = 1 /\ unit[u].job = response.message.result
        BY <1>1, <1>3, <1>4
    <2>2. UnitHolds(u, r)
        BY <1>2, <1>3, <2>1 DEF UnitHolds
    <2>. QED
        BY <1>4, <2>1, <2>2
<1>5. CASE response.phase \in {"offer", "send"}
    BY <1>2, <1>3, <1>5 DEF ResponseHolds
<1>. QED
    BY <1>3, <1>4, <1>5

\* A client forgets a request at the end of its response.
LEMMA DroppedIsHeld ==
    ASSUME ArrayIInv, NEW r \in Requests, Dropped(r.client, r), r \in client[r.client].waiting
    PROVE  ResponseHolds(r) /\ response.phase = "send" /\ response.left = 1
<1>. PICK c : c = r.client
    OBVIOUS
<1>. PICK q : q = response.message.result.inputs
    OBVIOUS
<1>1. limit \in Limits /\ c \in Clients /\ ClientInv(c, client[c])
    BY RequestIs DEF ArrayIInv
<1>2. client[c].phase = "take" /\ client[c].left = 1 /\ r.token = client[c].got.token
    BY DEF Dropped
<1>3. /\ response.phase = "send" /\ response.client = c /\ response.left = 1
      /\ client[c].got = response.message /\ response.message \in Messages
      /\ response.message.result.inputs.client = c
    BY <1>1, <1>2 DEF ArrayIInv, ResponseInv
<1>4. q \in Requests /\ q.client = c /\ q.token = response.message.token
    BY <1>1, <1>3, RequestIs
<1>5. ResponseHolds(q)
    BY <1>3 DEF ResponseHolds
<1>6. q \in client[c].waiting
    BY <1>4, <1>5 DEF ArrayIInv, FlightInv, HeldOnce
<1>7. q = r
    BY <1>1, <1>2, <1>3, <1>4, <1>6 DEF ClientInv, WaitingInv
<1>. QED
    BY <1>3, <1>5, <1>7

LEMMA FlightKept ==
    ASSUME ArrayIInv, Tick
    PROVE  FlightInv'
<1>1. limit \in Limits /\ limit' = limit /\ Requests' = Requests
    BY SetsStay DEF ArrayIInv, Tick
<1>. SUFFICES ASSUME NEW r \in Requests
              PROVE  HeldOnce(r)'
    BY <1>1 DEF FlightInv
<1>. PICK c : c = r.client
    OBVIOUS
<1>2. c \in Clients /\ r.client = c /\ HeldOnce(r)
    BY <1>1, RequestIs DEF ArrayIInv, FlightInv
<1>3. ClientHolds(c, r) => r \in client[c].waiting
    BY <1>2 DEF ArrayIInv, ClientInv, ClientHolds
<1>4. ClientHolds(c, r)' => r \in client'[c].waiting
    BY <1>2, ClientTick DEF ClientInv, ClientHolds
<1>5. RequestHolds(r)' => /\ request.phase # "offer"
                          /\ RequestHolds(r) \/ (ClientHolds(c, r) /\ RequestReceiving(c))
    BY <1>2, RequestHeld
<1>6. \A u \in Units : UnitHolds(u, r)' =>
            /\ ~(unit[u].phase = "reply" /\ unit[u].left = 1)
            /\ UnitHolds(u, r) \/ (request.phase = "offer" /\ request.unit = u /\ RequestHolds(r))
    BY UnitHeld
<1>7. ResponseHolds(r)' =>
            /\ ~(response.phase = "send" /\ response.left = 1)
            /\ \/ ResponseHolds(r)
               \/ \E u \in Units : UnitHolds(u, r) /\ unit[u].phase = "reply" /\ unit[u].left = 1
    BY ResponseHeld
<1>8. /\ ClientHolds(c, r) => ~RequestHolds(r) /\ ~ResponseHolds(r)
      /\ RequestHolds(r) => r \in client[c].waiting /\ ~ResponseHolds(r)
      /\ ResponseHolds(r) => r \in client[c].waiting
      /\ \A u \in Units : UnitHolds(u, r) =>
            /\ r \in client[c].waiting
            /\ ~ClientHolds(c, r) /\ ~RequestHolds(r) /\ ~ResponseHolds(r)
            /\ \A v \in Units \ {u} : ~UnitHolds(v, r)
    BY <1>2 DEF HeldOnce
<1>9. CASE r \notin client[c].waiting
    <2>1. ~RequestHolds(r)' /\ ~ResponseHolds(r)' /\ \A u \in Units : ~UnitHolds(u, r)'
        BY <1>3, <1>5, <1>6, <1>7, <1>8, <1>9
    <2>. QED
        BY <1>2, <2>1 DEF HeldOnce
<1>10. CASE r \in client[c].waiting /\ Dropped(c, r)
    <2>1. ResponseHolds(r) /\ response.phase = "send" /\ response.left = 1
        BY <1>2, <1>10, DroppedIsHeld
    <2>2. ~RequestHolds(r)' /\ ~ResponseHolds(r)' /\ \A u \in Units : ~UnitHolds(u, r)'
        BY <1>5, <1>6, <1>7, <1>8, <2>1
    <2>. QED
        BY <1>2, <2>2 DEF HeldOnce
<1>11. CASE r \in client[c].waiting /\ ~Dropped(c, r)
    <2>1. /\ r \in client'[c].waiting
          /\ ClientHolds(c, r)' => ClientHolds(c, r) /\ ~RequestReceiving(c)
        BY <1>2, <1>11, ClientTick
    <2>2. ClientHolds(c, r)' => ~RequestHolds(r)' /\ ~ResponseHolds(r)'
        BY <1>5, <1>7, <1>8, <2>1
    <2>3. RequestHolds(r)' => ~ResponseHolds(r)'
        BY <1>5, <1>7, <1>8
    <2>4. ASSUME NEW u \in Units, UnitHolds(u, r)'
          PROVE  /\ ~ClientHolds(c, r)' /\ ~RequestHolds(r)' /\ ~ResponseHolds(r)'
                 /\ \A v \in Units \ {u} : ~UnitHolds(v, r)'
        <3>1. ~ClientHolds(c, r)' /\ ~RequestHolds(r)'
            BY <1>5, <1>6, <1>8, <2>1, <2>4
        <3>2. ~ResponseHolds(r)'
            BY <1>6, <1>7, <1>8, <2>4
        <3>3. \A v \in Units \ {u} : ~UnitHolds(v, r)'
            BY <1>6, <1>8, <2>4
        <3>. QED
            BY <3>1, <3>2, <3>3
    <2>. QED
        BY <1>2, <2>1, <2>2, <2>3, <2>4 DEF HeldOnce
<1>. QED
    BY <1>9, <1>10, <1>11

\* An address among those used last is outdated after a use if it was before.
LEMMA OutdatedStays ==
    ASSUME NEW a \in Addresses, Used(a), recent' \in Seq(Addresses)
    PROVE  /\ \A b \in outdated' : \E i \in 1 .. Len(recent') : recent'[i] = b
           /\ \A i \in 1 .. Len(recent') : recent'[i] \in outdated' <=> recent'[i] \in outdated
<1>1. DOMAIN recent' = 1 .. Len(recent')
    OBVIOUS
<1>. QED
    BY <1>1 DEF Used

\* What the cache holds stays what CurrentInv says of it, if each place had it
\* before or has what is in memory.
LEMMA CachedStays ==
    ASSUME CurrentInv, version' = version, NEW a \in Addresses, Used(a), recent' \in Seq(Addresses),
           NEW j \in 1 .. Len(recent'), NEW i \in 1 .. Len(recent), recent'[j] = recent[i],
           Cached(j)' = Cached(i)
    PROVE  /\ Cached(j)'.value.version <= version[recent'[j]]
           /\ Cached(j)'.value.version = version[recent'[j]] <=> recent'[j] \notin outdated'
<1>1. /\ Cached(i).value.version <= version[recent[i]]
      /\ Cached(i).value.version = version[recent[i]] <=> recent[i] \notin outdated
    BY DEF CurrentInv, Cached
<1>2. recent'[j] \in outdated' <=> recent'[j] \in outdated
    BY OutdatedStays
<1>. QED
    BY <1>1, <1>2

LEMMA CacheKept ==
    ASSUME ArrayIInv, Tick
    PROVE  CacheInv' /\ MissInv' /\ CurrentInv'
<1>. PICK a : a = IsaAddress
    OBVIOUS
<1>. PICK q : q = request
    OBVIOUS
<1>. PICK n : n = request'
    OBVIOUS
<1>1. /\ limit \in Limits /\ RequestInv /\ CacheInv /\ MissInv /\ CurrentInv /\ RequestThread
      /\ version' = version /\ version \in [Addresses -> Nat]
    BY DEF ArrayIInv, Tick, CurrentInv
<1>2. /\ q \in RequestStates
      /\ q.phase \in {"top", "ask", "read", "fetch", "offer", "feed"}
      /\ q.phase \in {"read", "fetch", "offer", "feed"} =>
            /\ q.job \in [inputs : RequestsOf(q.client), isa : Shaders \cup {None}]
            /\ q.client \in Clients
    BY <1>1 DEF RequestInv, RequestStates
<1>3. q.phase \in {"read", "fetch", "offer", "feed"} => a \in Addresses /\ q.job.inputs.address = a
    BY <1>2 DEF IsaAddress, RequestsOf
<1>4. CASE RequestRead /\ Has(isaCache, a)
    <2>. PICK isa : isa = Value(isaCache, a)
        OBVIOUS
    <2>. PICK hit : hit = HitIn(isaCache, a)
        OBVIOUS
    <2>1. q.phase = "read" /\ Store(isa) /\ isaCache' = Get(isaCache, a) /\ Used(a) /\ a \in Addresses
        BY <1>3, <1>4 DEF RequestRead, GetIsa
    <2>2. /\ CacheInv'
          /\ 1 \in 1 .. Len(recent)' /\ recent'[1] = a
          /\ \A j \in 1 .. Len(recent)' : \E i \in 1 .. Len(recent) :
                recent'[j] = recent[i] /\ Cached(j)' = Cached(i)
        BY <1>1, <1>4, <2>1, GetStep
    <2>3. recent' \in Seq(Addresses)
        BY <2>2 DEF CacheInv
    <2>4. hit \in 1 .. Len(recent) /\ recent[hit] = a /\ isa = Cached(hit).value
        BY <1>1, <1>4, <2>1, HitIs DEF Cached
    <2>5. n = [phase |-> "offer", left |-> 0, client |-> q.client, unit |-> q.unit,
               job |-> [inputs |-> q.job.inputs, isa |-> isa]]
        BY <1>2, <2>1, StoreIs
    <2>6. n.phase = "offer" /\ n.job.inputs = q.job.inputs /\ n.job.isa = isa
        BY <2>5
    <2>7. \A b \in outdated' : \E i \in 1 .. Len(recent') : recent'[i] = b
        BY <2>1, <2>3, OutdatedStays
    <2>8. ASSUME NEW j \in 1 .. Len(recent')
          PROVE  /\ Cached(j)'.value.version <= version[recent'[j]]
                 /\ Cached(j)'.value.version = version[recent'[j]] <=> recent'[j] \notin outdated'
        <3>. PICK i \in 1 .. Len(recent) : recent'[j] = recent[i] /\ Cached(j)' = Cached(i)
            BY <2>2
        <3>. QED
            BY <1>1, <2>1, <2>3, CachedStays
    <2>9. isa.version = version[a] <=> a \notin outdated'
        <3>1. isa.version = version[a] <=> a \notin outdated
            BY <1>1, <2>4 DEF CurrentInv, Cached
        <3>2. a \in outdated' <=> a \in outdated
            BY <2>1, <2>2, <2>3, OutdatedStays
        <3>. QED
            BY <3>1, <3>2
    <2>10. ShaderIsCurrent'
        BY <1>1, <1>3, <2>1, <2>6, <2>9 DEF ShaderIsCurrent, IsaAddress
    <2>11. CurrentInv'
        BY <1>1, <2>7, <2>8, <2>10 DEF CurrentInv, Cached
    <2>12. MissInv'
        BY <2>6 DEF MissInv
    <2>. QED
        BY <2>2, <2>11, <2>12
<1>5. CASE RequestFetched
    <2>. PICK isa : isa = [address |-> a, version |-> version[a]]
        OBVIOUS
    <2>1. q.phase = "fetch" /\ Store(isa) /\ isaCache' = Put(isaCache, a, isa) /\ Used(a)
        BY <1>5 DEF RequestFetched
    <2>2. a \in Addresses /\ ~Has(isaCache, a)
        BY <1>1, <1>3, <2>1 DEF MissInv
    <2>3. isa \in Shaders /\ isa.address = a /\ isa.version = version[a]
        BY <1>1, <2>2 DEF Shaders
    <2>4. /\ CacheInv'
          /\ \A i \in 1 .. Len(recent) : recent[i] # a
          /\ 1 \in 1 .. Len(recent)' /\ recent'[1] = a /\ Cached(1)'.value = isa
          /\ \A j \in 2 .. Len(recent)' : \E i \in 1 .. Len(recent) :
                recent'[j] = recent[i] /\ Cached(j)' = Cached(i)
        BY <1>1, <2>1, <2>2, <2>3, PutStep
    <2>5. recent' \in Seq(Addresses)
        BY <2>4 DEF CacheInv
    <2>6. n = [phase |-> "offer", left |-> 0, client |-> q.client, unit |-> q.unit,
               job |-> [inputs |-> q.job.inputs, isa |-> isa]]
        BY <1>2, <2>1, StoreIs
    <2>7. n.phase = "offer" /\ n.job.inputs = q.job.inputs /\ n.job.isa = isa
        BY <2>6
    <2>8. \A b \in outdated' : \E i \in 1 .. Len(recent') : recent'[i] = b
        BY <2>1, <2>2, <2>5, OutdatedStays
    <2>9. a \notin outdated /\ a \notin outdated'
        <3>1. a \notin outdated
            BY <1>1, <2>4 DEF CurrentInv
        <3>2. a \in outdated' <=> a \in outdated
            BY <2>1, <2>2, <2>4, <2>5, OutdatedStays
        <3>. QED
            BY <3>1, <3>2
    <2>10. ASSUME NEW j \in 1 .. Len(recent')
           PROVE  /\ Cached(j)'.value.version <= version[recent'[j]]
                  /\ Cached(j)'.value.version = version[recent'[j]] <=> recent'[j] \notin outdated'
        <3>1. CASE j = 1
            <4>1. version[a] <= version[a]
                BY <1>1, <2>2
            <4>2. Cached(1)'.value.version = version[a]
                BY <2>3, <2>4
            <4>. QED
                BY <2>4, <2>9, <3>1, <4>1, <4>2
        <3>2. CASE j # 1
            <4>1. j \in 2 .. Len(recent')
                BY <2>5, <3>2
            <4>. PICK i \in 1 .. Len(recent) : recent'[j] = recent[i] /\ Cached(j)' = Cached(i)
                BY <2>4, <4>1
            <4>. QED
                BY <1>1, <2>1, <2>2, <2>5, CachedStays
        <3>. QED
            BY <3>1, <3>2
    <2>11. ShaderIsCurrent'
        BY <1>1, <1>3, <2>1, <2>3, <2>7, <2>9 DEF ShaderIsCurrent, IsaAddress
    <2>12. CurrentInv'
        BY <1>1, <2>8, <2>10, <2>11 DEF CurrentInv, Cached
    <2>13. MissInv'
        BY <2>7 DEF MissInv
    <2>. QED
        BY <2>4, <2>12, <2>13
<1>6. CASE ~(RequestRead /\ Has(isaCache, a)) /\ ~RequestFetched
    <2>1. isaCache' = isaCache /\ recent' = recent /\ outdated' = outdated
        <3>1. UNCHANGED cacheVars
            BY <1>1, <1>6 DEF RequestThread, RequestTop, RequestAsk, RequestRead, GetIsa, RequestOffer, RequestFed,
                   RequestCounts
        <3>. QED
            BY <3>1 DEF cacheVars
    <2>2. \A phase, left :
            Turn(q, phase, left) =
                [phase |-> phase, left |-> left, client |-> q.client, unit |-> q.unit, job |-> q.job]
        BY <1>2, RequestTurns
    <2>3. ASSUME q.phase \in {"read", "fetch"}, q.left = 1
          PROVE  n.phase = "fetch" /\ n.job = q.job /\ ~Has(isaCache, a)
        <3>1. ~(q.left > 1)
            BY <2>3
        <3>2. RequestRead
            BY <1>1, <1>6, <2>3, <3>1 DEF RequestThread, RequestTop, RequestAsk, RequestOffer, RequestFed,
                   RequestDone, RequestCounts
        <3>3. n = Turn(q, "fetch", FetchTicks) /\ ~Has(isaCache, a)
            BY <1>6, <3>2 DEF RequestRead, GetIsa
        <3>. QED
            BY <2>2, <3>3
    <2>4. /\ q.phase = "top" => n.phase \in {"top", "ask"}
          /\ q.phase = "ask" => n.phase = "read"
          /\ q.phase \in {"read", "fetch", "feed"} => q.left > 1 \/ q.left = 1
          /\ q.phase \in {"read", "fetch", "feed"} /\ q.left > 1 => n.phase = q.phase /\ n.job = q.job
          /\ q.phase = "offer" => n.phase = "feed" /\ n.job = q.job
          /\ q.phase = "feed" /\ q.left = 1 => n.phase = "top"
        BY RequestTick
    <2>5. CacheInv'
        BY <1>1, <2>1 DEF CacheInv, CacheIsLru, IsOrder
    <2>6. n.phase \in {"offer", "feed"} => q.phase \in {"offer", "feed"} /\ n.job = q.job
        BY <1>2, <2>3, <2>4
    <2>7. n.phase = "fetch" => n.job = q.job /\ ~Has(isaCache, a)
        BY <1>1, <1>2, <2>3, <2>4 DEF MissInv
    <2>8. MissInv'
        BY <2>1, <2>7 DEF MissInv, IsaAddress, Has
    <2>9. ShaderIsCurrent'
        BY <1>1, <2>1, <2>6 DEF CurrentInv, ShaderIsCurrent, IsaAddress
    <2>10. CurrentInv'
        BY <1>1, <2>1, <2>9 DEF CurrentInv
    <2>. QED
        BY <2>5, <2>8, <2>10
<1>. QED
    BY <1>4, <1>5, <1>6

\* An upload, or a step that changes nothing here, leaves all but the currency.
LEMMA SameState ==
    ASSUME ArrayIInv,
           UNCHANGED <<limit, client, unit, request, response, shaderUnitState, isaCache, recent>>
    PROVE  /\ limit' \in Limits /\ (\A c \in Clients : ClientInv(c, client[c]))'
           /\ RequestInv' /\ UnitInv' /\ ResponseInv' /\ FlightInv' /\ CacheInv' /\ MissInv'
<1>1. /\ \A c : RequestsOf(c)' = RequestsOf(c)
      /\ Requests' = Requests /\ Results' = Results /\ Messages' = Messages
      /\ UnitStates' = UnitStates /\ RequestStates' = RequestStates /\ ResponseStates' = ResponseStates
    BY SetsStay
<1>2. limit' \in Limits
    BY DEF ArrayIInv
<1>3. ASSUME NEW c \in Clients
      PROVE  ClientInv(c, client[c])'
    <2>1. ClientStates(c)' = ClientStates(c)
        BY <1>1 DEF ClientStates, Tokens
    <2>2. ClientInv(c, client[c])
        BY DEF ArrayIInv
    <2>. QED
        BY <2>1, <2>2 DEF ClientInv, WaitingInv
<1>4. RequestInv'
    BY <1>1 DEF ArrayIInv, RequestInv, Shaders
<1>5. UnitInv'
    BY <1>1 DEF ArrayIInv, UnitInv
<1>6. ResponseInv'
    BY <1>1 DEF ArrayIInv, ResponseInv
<1>7. FlightInv'
    BY <1>1 DEF ArrayIInv, FlightInv, HeldOnce, ClientHolds, RequestHolds, UnitHolds, ResponseHolds
<1>8. CacheInv'
    BY DEF ArrayIInv, CacheInv, CacheIsLru, IsOrder
<1>9. MissInv'
    BY DEF ArrayIInv, MissInv, IsaAddress, Has
<1>. QED
    BY <1>2, <1>3, <1>4, <1>5, <1>6, <1>7, <1>8, <1>9

\* An upload finds no request under way.
LEMMA UploadKept ==
    ASSUME ArrayIInv, Upload
    PROVE  ArrayIInv'
<1>1. UNCHANGED <<limit, client, unit, request, response, shaderUnitState, isaCache, recent>>
    BY DEF Upload
<1>2. PICK a \in Addresses :
          /\ version[a] < Versions
          /\ version' = [version EXCEPT ![a] = @ + 1]
          /\ outdated' = outdated \cup {b \in {a} : \E i \in DOMAIN recent : recent[i] = b}
    BY ArrayAssumption DEF Upload
<1>3. /\ version \in [Addresses -> Nat] /\ Versions \in Nat /\ recent \in Seq(Addresses)
      /\ \A b \in Addresses : version[b] <= Versions
      /\ DOMAIN recent = 1 .. Len(recent)
    BY ArrayAssumption DEF ArrayIInv, CurrentInv, CacheInv
<1>4. /\ version' \in [Addresses -> Nat] /\ \A b \in Addresses : version'[b] <= Versions
      /\ version'[a] = version[a] + 1
      /\ \A b \in Addresses \ {a} : version'[b] = version[b]
    BY <1>2, <1>3
<1>5. \A b \in outdated' : \E i \in 1 .. Len(recent) : recent[i] = b
    BY <1>2, <1>3 DEF ArrayIInv, CurrentInv
<1>6. ASSUME NEW i \in 1 .. Len(recent)
      PROVE  /\ Cached(i).value.version <= version'[recent[i]]
             /\ Cached(i).value.version = version'[recent[i]] <=> recent[i] \notin outdated'
    <2>1. /\ recent[i] \in Addresses /\ Cached(i).value.version <= version[recent[i]]
          /\ Cached(i).value.version = version[recent[i]] <=> recent[i] \notin outdated
        BY <1>3 DEF ArrayIInv, CurrentInv, Cached
    <2>2. Cached(i).value.version \in Nat
        <3>1. /\ i \in Indices /\ IsOrder(isaCache.lru) /\ Cached(i).key = recent[i]
              /\ recent[i] # InvalidKey
            BY <2>1, CacheShape, ArrayAssumption DEF ArrayIInv
        <3>. PICK k : k = isaCache.lru[i]
            OBVIOUS
        <3>2. k \in Indices /\ isaCache.entries[k].key # InvalidKey
            BY <3>1 DEF IsOrder, Cached
        <3>3. isaCache.entries[k].value \in Shaders
            BY <3>2 DEF ArrayIInv, CacheInv
        <3>. QED
            BY <3>3 DEF Cached, Shaders
    <2>3. CASE recent[i] = a
        <3>. PICK v : v = Cached(i).value.version
            OBVIOUS
        <3>1. v \in Nat /\ v <= version[a] /\ version[a] \in Nat
            BY <1>3, <2>1, <2>2, <2>3
        <3>2. v <= version'[a] /\ v # version'[a]
            BY <1>4, <3>1
        <3>3. recent[i] \in outdated'
            BY <1>2, <1>3, <2>3
        <3>. QED
            BY <2>3, <3>2, <3>3
    <2>4. CASE recent[i] # a
        BY <1>2, <1>4, <2>1, <2>4
    <2>. QED
        BY <2>3, <2>4
<1>7. ASSUME request.phase \in {"offer", "feed"}
      PROVE  FALSE
    <2>. PICK u : u = request.unit
        OBVIOUS
    <2>. PICK r : r = request.job.inputs
        OBVIOUS
    <2>1. limit \in Limits /\ u \in Units /\ request.job \in Results
        BY <1>7 DEF ArrayIInv, RequestInv
    <2>2. r \in Requests /\ r.client \in Clients
        BY <2>1, RequestIs
    <2>3. RequestHolds(r) \/ UnitHolds(u, r)
        BY <1>7, <2>1 DEF ArrayIInv, UnitInv, RequestHolds, UnitHolds
    <2>4. r \in client[r.client].waiting
        BY <2>1, <2>2, <2>3 DEF ArrayIInv, FlightInv, HeldOnce
    <2>. QED
        BY <2>2, <2>4 DEF Upload
<1>8. ShaderIsCurrent'
    BY <1>1, <1>7 DEF ShaderIsCurrent
<1>9. CurrentInv'
    BY <1>1, <1>4, <1>5, <1>6, <1>8 DEF CurrentInv, Cached
<1>. QED
    BY <1>1, <1>9, SameState DEF ArrayIInv

LEMMA InitKept ==
    ASSUME Init
    PROVE  ArrayIInv
<1>1. CacheSize \in Nat \ {0} /\ Indices = 1 .. CacheSize /\ limit \in Limits /\ Versions \in Nat
    BY ArrayAssumption DEF Init, Indices
<1>2. ASSUME NEW c \in Clients
      PROVE  ClientInv(c, client[c])
    <2>1. client[c] = [phase |-> "rest", left |-> 0, token |-> 0, sent |-> None, got |-> None, waiting |-> {}]
        BY DEF Init
    <2>2. 0 \in Tokens(c) /\ 0 <= limit[c]
        BY <1>1, TokensCount
    <2>3. IsFiniteSet({}) /\ Cardinality({}) = 0
        BY FS_EmptySet
    <2>4. client[c] \in ClientStates(c)
        BY <2>1, <2>2 DEF ClientStates
    <2>. QED
        BY <2>1, <2>2, <2>3, <2>4 DEF ClientInv, WaitingInv
<1>3. /\ request \in RequestStates /\ request.phase = "top"
      /\ response \in ResponseStates /\ response.phase = "top"
    BY DEF Init, NoRequest, NoResponse, RequestStates, ResponseStates
<1>4. \A c \in Clients : client[c].phase = "rest"
    BY DEF Init
<1>5. \A u \in Units : unit[u].phase = "ask" /\ unit[u] \in UnitStates /\ shaderUnitState[u] = None
    BY DEF Init, UnitStates
<1>6. RequestInv
    BY <1>3, <1>4 DEF RequestInv
<1>7. UnitInv
    BY <1>3, <1>5 DEF UnitInv
<1>8. ResponseInv
    BY <1>3, <1>4, <1>5 DEF ResponseInv
<1>9. FlightInv
    <2>. SUFFICES ASSUME NEW r \in Requests
                  PROVE  HeldOnce(r)
        BY DEF FlightInv
    <2>1. r.client \in Clients
        BY <1>1, RequestIs
    <2>. QED
        BY <1>3, <1>4, <1>5, <2>1 DEF HeldOnce, ClientHolds, RequestHolds, UnitHolds, ResponseHolds
<1>10. /\ isaCache.entries = [i \in Indices |-> [key |-> InvalidKey, value |-> NoValue]]
       /\ isaCache.lru = [i \in Indices |-> i]
       /\ isaCache = [entries |-> isaCache.entries, lru |-> isaCache.lru]
       /\ recent = <<>> /\ outdated = {} /\ version = [b \in Addresses |-> 0]
    BY DEF Init, EmptyCache
<1>11. IsOrder(isaCache.lru)
    BY <1>10 DEF IsOrder
<1>12. \A i \in Indices : isaCache.entries[i].key = InvalidKey
    BY <1>10
<1>13. CacheInv
    <2>1. isaCache \in [entries : [Indices -> [key : Addresses \cup {InvalidKey}, value : Shaders \cup {NoValue}]],
                        lru : [Indices -> Indices]]
        BY <1>10
    <2>2. recent \in Seq(Addresses) /\ Len(recent) = 0
        BY <1>10
    <2>3. \A i \in Len(recent) + 1 .. CacheSize : isaCache.entries[isaCache.lru[i]].key = InvalidKey
        BY <1>1, <1>10, <1>12, <2>2
    <2>. QED
        BY <1>1, <1>11, <1>12, <2>1, <2>2, <2>3 DEF CacheInv, CacheIsLru
<1>14. MissInv
    BY <1>3 DEF MissInv
<1>15. CurrentInv
    BY <1>1, <1>3, <1>10 DEF CurrentInv, ShaderIsCurrent
<1>. QED
    BY <1>1, <1>2, <1>6, <1>7, <1>8, <1>9, <1>13, <1>14, <1>15 DEF ArrayIInv

-----------------------------------------------------------------------------
(* The theorems.                                                           *)

\* The invariant: who holds which request, which phases go in step, and what the
\* cache holds (gpu/blocks/shader_array).
THEOREM ArrayInvariant == Spec => []ArrayIInv
<1>1. Init => ArrayIInv
    BY InitKept
<1>2. ArrayIInv /\ [Next]_vars => ArrayIInv'
    <2>. SUFFICES ASSUME ArrayIInv, [Next]_vars
                  PROVE  ArrayIInv'
        OBVIOUS
    <2>1. CASE Tick
        <3>1. limit' \in Limits
            BY <2>1 DEF ArrayIInv, Tick
        <3>2. \A c \in Clients : ClientInv(c, client[c])'
            BY <2>1, ClientTick
        <3>. QED
            BY <2>1, <3>1, <3>2, RequestKept, UnitKept, ResponseKept, FlightKept, CacheKept DEF ArrayIInv
    <2>2. CASE Upload
        BY <2>2, UploadKept
    <2>3. CASE UNCHANGED vars
        <3>1. /\ UNCHANGED <<limit, client, unit, request, response, shaderUnitState, isaCache, recent>>
              /\ UNCHANGED <<version, outdated>>
            BY <2>3 DEF vars
        <3>2. ShaderIsCurrent'
            BY <3>1 DEF ArrayIInv, CurrentInv, ShaderIsCurrent, IsaAddress
        <3>3. CurrentInv'
            BY <3>1, <3>2 DEF ArrayIInv, CurrentInv
        <3>. QED
            BY <3>1, <3>3, SameState DEF ArrayIInv
    <2>. QED
        BY <2>1, <2>2, <2>3 DEF Next
<1>. QED
    BY <1>1, <1>2, PTL DEF Spec

\* A unit that has run is marked with the request it ran until its result is
\* read: requestThread marks it in time and responseThread frees it in time
\* (shader_frontend.cpp, shaderUnitStates).
THEOREM UnitsMarked == Spec => []UnitsAreMarked
<1>1. ArrayIInv => UnitsAreMarked
    <2>. SUFFICES ASSUME ArrayIInv, NEW u \in Units, unit[u].phase \in {"run", "offer", "reply"}
                  PROVE  /\ shaderUnitState[u] # None
                         /\ shaderUnitState[u] = [client |-> unit[u].job.inputs.client,
                                                  token |-> unit[u].job.inputs.token]
        BY DEF UnitsAreMarked
    <2>. PICK r : r = unit[u].job.inputs
        OBVIOUS
    <2>1. /\ limit \in Limits /\ unit[u].job \in Results
          /\ shaderUnitState[u] = [client |-> r.client, token |-> r.token]
        BY DEF ArrayIInv, UnitInv
    <2>2. r.client \in Clients /\ r.token \in Nat
        BY <2>1, RequestIs
    <2>3. [client |-> r.client, token |-> r.token] \in [client : Clients, token : Nat]
        BY <2>2
    <2>. QED
        BY <2>1, <2>3, ArrayAssumption
<1>. QED
    BY <1>1, ArrayInvariant, PTL

\* A client gets the results of its own requests, under their tokens and from the
\* shaders they name (shader_frontend.cpp, the two threads).
THEOREM ResponsesAreOwn == Spec => []OwnResponse
<1>1. ArrayIInv => OwnResponse
    <2>. SUFFICES ASSUME ArrayIInv, NEW c \in Clients, client[c].got # None
                  PROVE  /\ client[c].got.result.inputs \in client[c].waiting
                         /\ client[c].got.result.inputs.token = client[c].got.token
                         /\ client[c].got.result.isa.address = client[c].got.result.inputs.address
        BY DEF OwnResponse
    <2>. PICK m : m = client[c].got
        OBVIOUS
    <2>. PICK r : r = m.result.inputs
        OBVIOUS
    <2>1. limit \in Limits /\ client[c].phase = "take"
        BY DEF ArrayIInv, ClientInv
    <2>2. /\ response.phase = "send" /\ response.client = c /\ m = response.message
          /\ m \in Messages /\ r.client = c
        BY <2>1 DEF ArrayIInv, ResponseInv
    <2>3. m.result \in Results /\ m.token = r.token
        BY <2>1, <2>2, RequestIs
    <2>4. r \in Requests /\ m.result.isa.address = r.address
        BY <2>1, <2>3, RequestIs
    <2>5. ResponseHolds(r)
        BY <2>2 DEF ResponseHolds
    <2>6. r \in client[c].waiting
        BY <2>2, <2>4, <2>5 DEF ArrayIInv, FlightInv, HeldOnce
    <2>. QED
        BY <2>3, <2>4, <2>6
<1>. QED
    BY <1>1, ArrayInvariant, PTL

\* The cache holds the shaders of the addresses used last (entry_cache.h).
THEOREM CacheKeepsLatest == Spec => []CacheIsLru
<1>1. ArrayIInv => CacheIsLru
    BY DEF ArrayIInv, CacheInv
<1>. QED
    BY <1>1, ArrayInvariant, PTL

\* A unit is given the shader in memory unless that was uploaded while its address
\* was among those used last (shader_frontend.cpp, getIsa).
THEOREM CurrentUnlessCached == Spec => []ShaderIsCurrent
<1>1. ArrayIInv => ShaderIsCurrent
    BY DEF ArrayIInv, CurrentInv
<1>. QED
    BY <1>1, ArrayInvariant, PTL

\* Every variable stays in its range.
THEOREM ArrayTypes == Spec => []TypeOK
<1>1. ArrayIInv => TypeOK
    <2>. SUFFICES ASSUME ArrayIInv
                  PROVE  TypeOK
        OBVIOUS
    <2>1. limit \in Limits /\ version \in [Addresses -> 0 .. Versions]
        BY ArrayAssumption DEF ArrayIInv, CurrentInv
    <2>2. ASSUME NEW c \in Clients
          PROVE  /\ client[c].phase \in {"rest", "offer", "send", "ask", "take", "drain"}
                 /\ client[c].waiting \subseteq [client : {c}, token : Tokens(c), address : Addresses]
                 /\ Cardinality(client[c].waiting) <= limit[c]
        BY DEF ArrayIInv, ClientInv, WaitingInv, ClientStates, RequestsOf
    <2>3. \A u \in Units : unit[u].phase \in {"ask", "load", "run", "offer", "reply"}
        BY DEF ArrayIInv, UnitInv, UnitStates
    <2>4. request.phase \in {"top", "ask", "read", "fetch", "offer", "feed"}
        BY DEF ArrayIInv, RequestInv, RequestStates
    <2>5. response.phase \in {"top", "ask", "read", "offer", "send"}
        BY DEF ArrayIInv, ResponseInv, ResponseStates
    <2>6. ASSUME NEW u \in Units, shaderUnitState[u] # None
          PROVE  shaderUnitState[u].token \in Tokens(shaderUnitState[u].client)
        <3>. PICK r : r = unit[u].job.inputs
            OBVIOUS
        <3>1. unit[u].job \in Results /\ shaderUnitState[u] = [client |-> r.client, token |-> r.token]
            BY <2>6 DEF ArrayIInv, UnitInv
        <3>2. r \in RequestsOf(r.client)
            BY <2>1, <3>1, RequestIs
        <3>3. r.token \in Tokens(r.client)
            BY <3>2 DEF RequestsOf
        <3>. QED
            BY <3>1, <3>3
    <2>. QED
        BY <2>1, <2>2, <2>3, <2>4, <2>5, <2>6 DEF TypeOK
<1>. QED
    BY <1>1, ArrayInvariant, PTL
=============================================================================
