--------------------------- MODULE ConnectionProofs ---------------------------
(* Theorems about the three components that count what they hold: backend    *)
(* connections (ProxyServe), FastCGI slots (FastCGIPool) and page refreshes  *)
(* (PageRefresh), for every finite number of requests, backends and pages.   *)
EXTENDS ProxyServe, FastCGIPool, PageRefresh, FiniteSetTheorems, TLAPS

-----------------------------------------------------------------------------
(* Counting: one element at a time enters or leaves a counted set *)

\* A counted set that one element enters grows by one.
LEMMA OneEnters ==
  ASSUME NEW S, NEW T, NEW x, IsFiniteSet(S), x \notin S, T = S \cup {x}
  PROVE  IsFiniteSet(T) /\ Cardinality(T) = Cardinality(S) + 1 /\ Cardinality(S) \in Nat
  BY FS_AddElement, FS_CardinalityType

\* A counted set that one element leaves shrinks by one, and was not empty.
LEMMA OneLeaves ==
  ASSUME NEW S, NEW T, NEW x, IsFiniteSet(S), x \in S, T = S \ {x}
  PROVE  IsFiniteSet(T) /\ Cardinality(T) = Cardinality(S) - 1 /\ Cardinality(T) \in Nat
  BY FS_RemoveElement, FS_CardinalityType

\* A counted set that changes by one element at most: its count follows that
\* element.
LEMMA OneMoves ==
  ASSUME NEW S, NEW T, NEW x, IsFiniteSet(S), S \ {x} = T \ {x}
  PROVE  /\ IsFiniteSet(T) /\ Cardinality(S) \in Nat /\ Cardinality(T) \in Nat
         /\ Cardinality(T) = Cardinality(S) + (IF x \in T THEN 1 ELSE 0) - (IF x \in S THEN 1 ELSE 0)
         /\ x \in S => Cardinality(S) >= 1
<1>1. CASE x \in S /\ x \notin T
  <2>1. T = S \ {x}
    BY <1>1
  <2>2. Cardinality(S) \in Nat
    BY FS_CardinalityType
  <2> QED
    BY <1>1, <2>1, <2>2, OneLeaves
<1>2. CASE x \notin S /\ x \in T
  <2>1. T = S \cup {x}
    BY <1>2
  <2> QED
    BY <1>2, <2>1, OneEnters
<1>3. CASE x \in S <=> x \in T
  <2>1. T = S
    BY <1>3
  <2>2. x \in S => Cardinality(S) # 0
    BY FS_EmptySet
  <2> QED
    BY <1>3, <2>1, <2>2, FS_CardinalityType
<1> QED
  BY <1>1, <1>2, <1>3

-----------------------------------------------------------------------------
(* ProxyServe *)

\* Requests that backend b carries: what ActiveConns of b counts.
Carried(b) == {r \in Requests : req[r] \in Serving /\ req[r].at = b}

\* A request holds a backend exactly while it is past the choice of one.
AtWhileHeld ==
  \A r \in Requests : req[r] \in Serving => (req[r].pc = "select" <=> req[r].at = NoBackend)

\* A request that may not be replayed has reached nobody when it chooses, and
\* nobody but the backend it is at later.
ReachedOnlyHere ==
  \A r \in Requests :
    IF req[r] \in Serving
    THEN req[r].kind # "replay" =>
           /\ reached[r] \subseteq {req[r].at}
           /\ req[r].pc \in {"select", "dial"} => reached[r] = {}
    ELSE reached[r] = {}

\* A streamed request has tried nobody when it chooses: it never comes back.
StreamTriesOne ==
  \A r \in Requests :
    (req[r] \in Serving /\ req[r].kind = "stream") =>
       req[r].tried = IF req[r].pc = "select" THEN {} ELSE {req[r].at}

\* The inductive invariant of the proxied request.
ServeInv ==
  ServeTypeOK /\ ConnsMatchLoad /\ AtWhileHeld /\ ReachedOnlyHere /\ StreamTriesOne

\* The sets of requests that are counted are finite.
LEMMA CarriedFinite == \A b : IsFiniteSet(Carried(b)) /\ IsFiniteSet(Carried(b)')
  <1>1. \A b : Carried(b) \in SUBSET Requests /\ Carried(b)' \in SUBSET Requests
    BY DEF Carried
  <1> QED
    BY <1>1, FS_Subset, ProxyServeAssumption DEF ProxyServeAssumption

\* ConnsMatchLoad in terms of Carried, now and after a step.
LEMMA ConnsCarried ==
  /\ ConnsMatchLoad  <=> \A b \in Backends : conns[b] = Cardinality(Carried(b))
  /\ ConnsMatchLoad' <=> \A b \in Backends : conns'[b] = Cardinality(Carried(b)')
  BY DEF ConnsMatchLoad, Carried

\* Choosing a backend counts the request there.
LEMMA CountOpened ==
  ASSUME ServeTypeOK, ConnsMatchLoad, NEW r \in Requests, NEW b \in Backends, Opened(b),
         r \notin Carried(b),
         \A c \in Backends : Carried(c)' = IF c = b THEN Carried(b) \cup {r} ELSE Carried(c)
  PROVE  ConnsMatchLoad' /\ conns' \in [Backends -> Nat]
  <1>1. Cardinality(Carried(b)') = Cardinality(Carried(b)) + 1
    BY OneEnters, CarriedFinite
  <1>2. \A c \in Backends : conns'[c] = IF c = b THEN conns[b] + 1 ELSE conns[c]
    BY DEF ServeTypeOK, Opened
  <1>3. \A c \in Backends : conns'[c] = Cardinality(Carried(c)')
    BY <1>1, <1>2, ConnsCarried
  <1> QED
    BY <1>3, ConnsCarried DEF ServeTypeOK, Opened

\* Parting with it takes the request off the count, which was positive.
LEMMA CountClosed ==
  ASSUME ServeTypeOK, ConnsMatchLoad, NEW r \in Requests, NEW b \in Backends, Closed(b),
         r \in Carried(b),
         \A c \in Backends : Carried(c)' = IF c = b THEN Carried(b) \ {r} ELSE Carried(c)
  PROVE  ConnsMatchLoad' /\ conns' \in [Backends -> Nat]
  <1>1. /\ Cardinality(Carried(b)') = Cardinality(Carried(b)) - 1
        /\ Cardinality(Carried(b)') \in Nat
    BY OneLeaves, CarriedFinite
  <1>2. \A c \in Backends : conns'[c] = IF c = b THEN conns[b] - 1 ELSE conns[c]
    BY DEF ServeTypeOK, Closed
  <1>3. \A c \in Backends : conns'[c] = Cardinality(Carried(c)')
    BY <1>1, <1>2, ConnsCarried
  <1>4. \A c \in Backends : conns'[c] \in Nat
    BY <1>1, <1>2, <1>3 DEF ServeTypeOK
  <1> QED
    BY <1>3, <1>4, ConnsCarried DEF ServeTypeOK, Closed

\* A request that is past its arrival and not answered has a record of its own.
LEMMA PcOfServing ==
  ASSUME ServeTypeOK, NEW r \in Requests, req[r].pc \notin {"new", "done"}
  PROVE  req[r] \in Serving
  BY DEF ServeTypeOK, NewReq, DoneReq

\* Every path that ends a request at a backend: the decrement and the answer.
LEMMA AnswerClosed ==
  ASSUME ServeInv, NEW r \in Requests, req[r] \in Serving, req[r].pc # "select",
         Closed(req[r].at), Answer(r), UNCHANGED healthy
  PROVE  ServeInv'
<1> DEFINE b == req[r].at
<1>1. b \in Backends
  BY DEF ServeInv, AtWhileHeld, Serving
<1>2. /\ req' = [req EXCEPT ![r] = DoneReq] /\ reached' = [reached EXCEPT ![r] = {}]
      /\ req \in [Requests -> {NewReq, DoneReq} \cup Serving]
      /\ reached \in [Requests -> SUBSET Backends] /\ healthy' \subseteq Backends
  BY DEF ServeInv, ServeTypeOK, Answer
<1>3. DoneReq \notin Serving
  BY DEF DoneReq, Serving
<1>4. /\ \A q \in Requests : q # r => req'[q] = req[q] /\ reached'[q] = reached[q]
      /\ req'[r] = DoneReq /\ reached'[r] = {}
  BY <1>2
<1>5. r \in Carried(b) /\ \A c \in Backends : Carried(c)' = IF c = b THEN Carried(b) \ {r} ELSE Carried(c)
  BY <1>3, <1>4 DEF Carried
<1>6. ConnsMatchLoad' /\ conns' \in [Backends -> Nat]
  BY <1>1, <1>5, CountClosed DEF ServeInv
<1>7. ServeTypeOK'
  BY <1>2, <1>6 DEF ServeTypeOK
<1>8. AtWhileHeld' /\ ReachedOnlyHere' /\ StreamTriesOne'
  BY <1>3, <1>4 DEF ServeInv, AtWhileHeld, ReachedOnlyHere, StreamTriesOne
<1> QED
  BY <1>6, <1>7, <1>8 DEF ServeInv

\* Every path that sends a request to the next backend: the decrement, and a
\* request that reached nobody or may be replayed, and is not streamed.
LEMMA RetryClosed ==
  ASSUME ServeInv, NEW r \in Requests, req[r] \in Serving, req[r].pc # "select",
         req[r].kind # "stream", req[r].pc = "dial" \/ req[r].kind = "replay",
         Closed(req[r].at), Retry(r), UNCHANGED healthy
  PROVE  ServeInv'
<1> DEFINE b == req[r].at
           x == [req[r] EXCEPT !.pc = "select", !.at = NoBackend]
<1>1. b \in Backends /\ NoBackend \notin Backends
  BY ProxyServeAssumption DEF ServeInv, AtWhileHeld, Serving, ProxyServeAssumption, NoBackend, Backends
<1>2. /\ req' = [req EXCEPT ![r] = x] /\ reached' = reached
      /\ req \in [Requests -> {NewReq, DoneReq} \cup Serving]
      /\ reached \in [Requests -> SUBSET Backends] /\ healthy' \subseteq Backends
  BY DEF ServeInv, ServeTypeOK, Retry
<1>3. x \in Serving /\ x.pc = "select" /\ x.at = NoBackend /\ x.kind = req[r].kind
  BY DEF Serving
<1>4. /\ \A q \in Requests : q # r => req'[q] = req[q]
      /\ req'[r] = x
  BY <1>2
<1>5. r \in Carried(b) /\ \A c \in Backends : Carried(c)' = IF c = b THEN Carried(b) \ {r} ELSE Carried(c)
  BY <1>1, <1>3, <1>4 DEF Carried
<1>6. ConnsMatchLoad' /\ conns' \in [Backends -> Nat]
  BY <1>1, <1>5, CountClosed DEF ServeInv
<1>7. ServeTypeOK'
  BY <1>2, <1>3, <1>6 DEF ServeTypeOK
<1>8. AtWhileHeld'
  BY <1>3, <1>4 DEF ServeInv, AtWhileHeld
<1>9. ReachedOnlyHere' /\ StreamTriesOne'
  BY <1>2, <1>3, <1>4 DEF ServeInv, ReachedOnlyHere, StreamTriesOne
<1> QED
  BY <1>6, <1>7, <1>8, <1>9 DEF ServeInv

\* A streamed request has no retry left once it chose a backend.
LEMMA StreamNotRetried ==
  ASSUME ServeInv, NEW r \in Requests, req[r] \in Serving, req[r].pc # "select", RetriesLeft(r)
  PROVE  req[r].kind # "stream"
<1> SUFFICES ASSUME req[r].kind = "stream" PROVE FALSE
  OBVIOUS
<1>1. req[r].tried = {req[r].at}
  BY DEF ServeInv, StreamTriesOne
<1>2. Cardinality(req[r].tried) = 1
  BY <1>1, FS_Singleton
<1> QED
  BY <1>2 DEF RetriesLeft, RetriesFor

\* A step of the request path keeps the invariant.
LEMMA ServeStepInv ==
  ASSUME ServeInv, [ServeNext]_serveVars
  PROVE  ServeInv'
<1>1. CASE UNCHANGED serveVars
  BY <1>1 DEF serveVars, ServeInv, ServeTypeOK, ConnsMatchLoad, AtWhileHeld, ReachedOnlyHere, StreamTriesOne
<1>2. ASSUME NEW r \in Requests, NEW k \in Kinds, NEW canary \in BOOLEAN, Arrive(r, k, canary)
      PROVE  ServeInv'
  <2> DEFINE x == IF PoolFor(canary) = {} THEN DoneReq
                  ELSE [pc |-> "select", kind |-> k, pool |-> PoolFor(canary),
                        tried |-> {}, at |-> NoBackend]
  <2>1. /\ req' = [req EXCEPT ![r] = x] /\ reached' = reached
        /\ req \in [Requests -> {NewReq, DoneReq} \cup Serving]
        /\ UNCHANGED <<healthy, conns>> /\ req[r] = NewReq
    <3>1. reached[r] = {} /\ reached \in [Requests -> SUBSET Backends]
      BY <1>2 DEF Arrive, ServeInv, ServeTypeOK, ReachedOnlyHere, NewReq, Serving
    <3> QED
      BY <1>2, <3>1 DEF Arrive, Answer, ServeInv, ServeTypeOK
  <2>2. /\ x \in {DoneReq} \cup Serving /\ NewReq \notin Serving /\ DoneReq \notin Serving
        /\ x \in Serving => x.at = NoBackend /\ x.pc = "select" /\ x.tried = {}
    BY DEF NewReq, DoneReq, Serving, PoolFor, ServeInv, ServeTypeOK, Backends
  <2>3. req'[r] = x /\ \A q \in Requests : q # r => req'[q] = req[q]
    BY <2>1
  <2>4. \A c \in Backends : Carried(c)' = Carried(c)
    <3>1. NoBackend \notin Backends
      BY ProxyServeAssumption DEF ProxyServeAssumption, NoBackend, Backends
    <3> QED
      BY <2>1, <2>2, <2>3, <3>1 DEF Carried
  <2>5. ConnsMatchLoad'
    BY <2>1, <2>4, ConnsCarried DEF ServeInv
  <2>6. ServeTypeOK'
    BY <2>1, <2>2 DEF ServeInv, ServeTypeOK
  <2>7. AtWhileHeld' /\ StreamTriesOne'
    BY <2>2, <2>3 DEF ServeInv, AtWhileHeld, StreamTriesOne
  <2>8. ReachedOnlyHere'
    <3>1. reached[r] = {}
      BY <2>1, <2>2 DEF ServeInv, ReachedOnlyHere
    <3> QED
      BY <2>1, <2>2, <2>3, <3>1 DEF ServeInv, ReachedOnlyHere
  <2> QED
    BY <2>5, <2>6, <2>7, <2>8 DEF ServeInv
<1>3. ASSUME NEW r \in Requests, NEW b \in Backends, PickBackend(r, b)
      PROVE  ServeInv'
  <2> DEFINE x == [req[r] EXCEPT !.pc = "dial", !.at = b, !.tried = @ \cup {b}]
  <2>1. req[r] \in Serving /\ req[r].at = NoBackend
    BY <1>3, PcOfServing DEF PickBackend, ServeInv, AtWhileHeld
  <2>2. /\ req' = [req EXCEPT ![r] = x] /\ UNCHANGED <<healthy, reached>> /\ Opened(b)
        /\ req \in [Requests -> {NewReq, DoneReq} \cup Serving]
    BY <1>3 DEF PickBackend, ServeInv, ServeTypeOK
  <2>3. /\ x \in Serving /\ x.at = b /\ x.pc = "dial" /\ x.kind = req[r].kind
        /\ x.tried = req[r].tried \cup {b}
    BY <2>1 DEF Serving
  <2>4. req'[r] = x /\ \A q \in Requests : q # r => req'[q] = req[q]
    BY <2>2
  <2> HIDE DEF x
  <2>5. NoBackend \notin Backends
    BY ProxyServeAssumption DEF ProxyServeAssumption, NoBackend, Backends
  <2>6. r \notin Carried(b)
        /\ \A c \in Backends : Carried(c)' = IF c = b THEN Carried(b) \cup {r} ELSE Carried(c)
    BY <2>1, <2>3, <2>4, <2>5 DEF Carried
  <2>7. ConnsMatchLoad' /\ conns' \in [Backends -> Nat]
    BY <2>2, <2>6, CountOpened DEF ServeInv
  <2>8. ServeTypeOK'
    BY <2>2, <2>3, <2>7 DEF ServeInv, ServeTypeOK
  <2>9. AtWhileHeld'
    BY <2>3, <2>4, <2>5 DEF ServeInv, AtWhileHeld
  <2>10. ReachedOnlyHere' /\ StreamTriesOne'
    <3>1. req[r].pc = "select" /\ (req[r].kind # "replay" => reached[r] = {})
          /\ (req[r].kind = "stream" => req[r].tried = {})
      BY <1>3, <2>1 DEF PickBackend, ServeInv, ReachedOnlyHere, StreamTriesOne
    <3> QED
      BY <2>2, <2>3, <2>4, <3>1 DEF ServeInv, ReachedOnlyHere, StreamTriesOne
  <2> QED
    BY <2>7, <2>8, <2>9, <2>10 DEF ServeInv
<1>4. ASSUME NEW r \in Requests, Refuse(r)
      PROVE  ServeInv'
  BY <1>4, PcOfServing, AnswerClosed DEF Refuse, ServeInv
<1>5. ASSUME NEW r \in Requests, DialFails(r)
      PROVE  ServeInv'
  <2>1. req[r] \in Serving /\ req[r].pc = "dial"
    BY <1>5, PcOfServing DEF DialFails, ServeInv
  <2>2. CASE RetriesLeft(r)
    BY <1>5, <2>1, <2>2, StreamNotRetried, RetryClosed DEF DialFails
  <2>3. CASE ~RetriesLeft(r)
    BY <1>5, <2>1, <2>3, AnswerClosed DEF DialFails
  <2> QED
    BY <2>2, <2>3
<1>6. ASSUME NEW r \in Requests, RequestSent(r)
      PROVE  ServeInv'
  <2> DEFINE x == [req[r] EXCEPT !.pc = IF req[r].kind = "ws" THEN "tunnel" ELSE "sent"]
  <2>1. req[r] \in Serving /\ req[r].pc = "dial" /\ req[r].at \in Backends
    BY <1>6, PcOfServing DEF RequestSent, ServeInv, AtWhileHeld, Serving
  <2>2. /\ req' = [req EXCEPT ![r] = x] /\ UNCHANGED <<healthy, conns>>
        /\ reached' = [reached EXCEPT ![r] = @ \cup {req[r].at}]
        /\ req \in [Requests -> {NewReq, DoneReq} \cup Serving]
        /\ reached \in [Requests -> SUBSET Backends]
    BY <1>6 DEF RequestSent, ServeInv, ServeTypeOK
  <2>3. /\ x \in Serving /\ x.pc \in {"tunnel", "sent"} /\ x.at = req[r].at
        /\ x.kind = req[r].kind /\ x.tried = req[r].tried
    BY <2>1 DEF Serving
  <2>4. /\ req'[r] = x /\ reached'[r] = reached[r] \cup {req[r].at}
        /\ \A q \in Requests : q # r => req'[q] = req[q] /\ reached'[q] = reached[q]
    BY <2>2
  <2> HIDE DEF x
  <2>5. \A c \in Backends : Carried(c)' = Carried(c)
    BY <2>1, <2>3, <2>4 DEF Carried
  <2>6. ConnsMatchLoad'
    BY <2>2, <2>5, ConnsCarried DEF ServeInv
  <2>7. ServeTypeOK'
    BY <2>1, <2>2, <2>3 DEF ServeInv, ServeTypeOK
  <2>8. AtWhileHeld'
    BY <2>1, <2>3, <2>4 DEF ServeInv, AtWhileHeld
  <2>9. ReachedOnlyHere' /\ StreamTriesOne'
    BY <2>1, <2>3, <2>4 DEF ServeInv, ReachedOnlyHere, StreamTriesOne
  <2> QED
    BY <2>6, <2>7, <2>8, <2>9 DEF ServeInv
<1>7. ASSUME NEW r \in Requests, RoundTripFails(r)
      PROVE  ServeInv'
  <2>1. req[r] \in Serving /\ req[r].pc = "sent"
    BY <1>7, PcOfServing DEF RoundTripFails, ServeInv
  <2>2. CASE RetriesLeft(r) /\ CanReplay(r)
    BY <1>7, <2>1, <2>2, RetryClosed DEF RoundTripFails, CanReplay
  <2>3. CASE ~(RetriesLeft(r) /\ CanReplay(r))
    BY <1>7, <2>1, <2>3, AnswerClosed DEF RoundTripFails
  <2> QED
    BY <2>2, <2>3
<1>8. ASSUME NEW r \in Requests, GiveUp(r)
      PROVE  ServeInv'
  BY <1>8, PcOfServing, AnswerClosed DEF GiveUp, ServeInv
<1>9. ASSUME NEW r \in Requests, ResponseHeaders(r)
      PROVE  ServeInv'
  <2> DEFINE x == [req[r] EXCEPT !.pc = "body"]
  <2>1. req[r] \in Serving /\ req[r].pc = "sent"
    BY <1>9, PcOfServing DEF ResponseHeaders, ServeInv
  <2>2. /\ req' = [req EXCEPT ![r] = x] /\ UNCHANGED <<healthy, conns, reached>>
        /\ req \in [Requests -> {NewReq, DoneReq} \cup Serving]
    BY <1>9 DEF ResponseHeaders, ServeInv, ServeTypeOK
  <2>3. /\ x \in Serving /\ x.pc = "body" /\ x.at = req[r].at
        /\ x.kind = req[r].kind /\ x.tried = req[r].tried
    BY <2>1 DEF Serving
  <2>4. req'[r] = x /\ \A q \in Requests : q # r => req'[q] = req[q]
    BY <2>2
  <2> HIDE DEF x
  <2>5. \A c \in Backends : Carried(c)' = Carried(c)
    BY <2>1, <2>3, <2>4 DEF Carried
  <2>6. ConnsMatchLoad'
    BY <2>2, <2>5, ConnsCarried DEF ServeInv
  <2>7. ServeTypeOK'
    BY <2>2, <2>3 DEF ServeInv, ServeTypeOK
  <2>8. AtWhileHeld' /\ ReachedOnlyHere' /\ StreamTriesOne'
    BY <2>1, <2>2, <2>3, <2>4 DEF ServeInv, AtWhileHeld, ReachedOnlyHere, StreamTriesOne
  <2> QED
    BY <2>6, <2>7, <2>8 DEF ServeInv
<1>10. ASSUME NEW r \in Requests, Finish(r)
       PROVE  ServeInv'
  BY <1>10, PcOfServing, AnswerClosed DEF Finish, ServeInv
<1>11. ASSUME NEW b \in Primary, HealthChange(b)
       PROVE  ServeInv'
  BY <1>11 DEF HealthChange, ServeInv, ServeTypeOK, ConnsMatchLoad, AtWhileHeld, ReachedOnlyHere,
               StreamTriesOne, Backends
<1> QED
  BY <1>1, <1>2, <1>3, <1>4, <1>5, <1>6, <1>7, <1>8, <1>9, <1>10, <1>11 DEF ServeNext, ServeStep

\* At the start nobody is served and nothing is counted.
LEMMA ServeInitInv == ServeInit => ServeInv
<1> SUFFICES ASSUME ServeInit PROVE ServeInv
  OBVIOUS
<1>1. ServeTypeOK
  BY DEF ServeInit, ServeTypeOK
<1>2. \A r \in Requests : req[r] \notin Serving
  BY DEF ServeInit, NewReq, Serving
<1>3. \A b \in Backends : Carried(b) = {}
  BY <1>2 DEF Carried
<1>4. ConnsMatchLoad
  BY <1>3, FS_EmptySet, ConnsCarried DEF ServeInit
<1>5. AtWhileHeld /\ ReachedOnlyHere /\ StreamTriesOne
  BY <1>2 DEF ServeInit, AtWhileHeld, ReachedOnlyHere, StreamTriesOne
<1> QED
  BY <1>1, <1>4, <1>5 DEF ServeInv

\* The invariant of the proxied request holds throughout.
THEOREM ServeInvariant == ServeSpec => []ServeInv
<1>1. ServeInv /\ [ServeNext]_serveVars => ServeInv'
  BY ServeStepInv
<1> QED
  BY <1>1, ServeInitInv, PTL DEF ServeSpec

\* ActiveConns of every backend is the number of requests and tunnels it
\* carries, on every path through Serve and the WebSocket tunnel.
THEOREM ConnsExact == ServeSpec => []ConnsMatchLoad
  BY ServeInvariant, PTL DEF ServeInv

\* A request that may not be replayed reaches at most one backend, and a
\* streamed body is offered to one at most (canReplayRequest, maxRetries).
THEOREM NeverSentTwice == ServeSpec => []SentAtMostOnce
<1>1. ASSUME ServeInv PROVE SentAtMostOnce
  <2> SUFFICES ASSUME NEW r \in Requests, req[r] \in Serving
               PROVE  /\ Cardinality(reached[r]) > 1 => req[r].kind = "replay"
                      /\ req[r].kind = "stream" => Cardinality(req[r].tried) <= 1
    BY DEF SentAtMostOnce
  <2>1. \A S, x : S \subseteq {x} => Cardinality(S) <= 1
    <3> SUFFICES ASSUME NEW S, NEW x, S \subseteq {x} PROVE Cardinality(S) <= 1
      OBVIOUS
    <3>1. S = {} \/ S = {x}
      OBVIOUS
    <3> QED
      BY <3>1, FS_EmptySet, FS_Singleton
  <2>2. req[r].kind # "replay" => reached[r] \subseteq {req[r].at}
    BY <1>1 DEF ServeInv, ReachedOnlyHere
  <2>3. req[r].kind = "stream" => req[r].tried \subseteq {req[r].at}
    BY <1>1 DEF ServeInv, StreamTriesOne
  <2>4. Cardinality(reached[r]) \in Nat
    <3>1. IsFiniteSet(Backends) /\ reached[r] \in SUBSET Backends
      BY <1>1, FS_Union, ProxyServeAssumption DEF ProxyServeAssumption, ServeInv, ServeTypeOK, Backends
    <3> QED
      BY <3>1, FS_Subset, FS_CardinalityType
  <2>5. req[r].kind # "replay" => Cardinality(reached[r]) <= 1
    BY <2>1, <2>2
  <2>6. req[r].kind = "stream" => Cardinality(req[r].tried) <= 1
    BY <2>1, <2>3
  <2> QED
    BY <2>4, <2>5, <2>6
<1> QED
  BY <1>1, ServeInvariant, PTL

-----------------------------------------------------------------------------
(* FastCGIPool *)

PhpRecords == [pc : PhpPcs, reused : BOOLEAN, mayRetry : BOOLEAN, then : {"rest", "get", "wait"}]

\* Promises of a wake-up on their way: a release about to send its token, a
\* waiter that took one.
Waking == {"wake", "woken"}

\* A Get waits, or will go back to wait when it has parted with a connection
\* that was too old.
Waits(r) == php[r].pc = "wait" \/ (php[r].pc \in {"free", "wake"} /\ php[r].then = "wait")

\* NoLostWakeup, extended to those who will wait again: they may find the
\* slots as others left them meanwhile.
WakeupOwed ==
  ((\E r \in PhpRequests : Waits(r)) /\ ~IdleClosed)
     => MaxOpen - active <= freed + Cardinality(At(Waking))

\* The inductive invariant of the pool.
PoolInv == PoolTypeOK /\ SlotsMatchConnections /\ WakeupOwed

\* One request moves to another point of its path: what is counted at given
\* points changes by that request.
LEMMA CountMoves ==
  ASSUME NEW S, NEW r \in PhpRequests,
         \A q \in PhpRequests : q # r => php'[q] = php[q]
  PROVE  /\ Cardinality(At(S)) \in Nat /\ Cardinality(At(S)') \in Nat
         /\ Cardinality(At(S)') = Cardinality(At(S))
              + (IF php'[r].pc \in S THEN 1 ELSE 0) - (IF php[r].pc \in S THEN 1 ELSE 0)
         /\ php[r].pc \in S => Cardinality(At(S)) >= 1
<1>1. At(S) \in SUBSET PhpRequests /\ At(S) \ {r} = At(S)' \ {r}
  BY DEF At
<1>2. IsFiniteSet(At(S))
  BY <1>1, FS_Subset, FastCGIPoolAssumption DEF FastCGIPoolAssumption
<1>3. (r \in At(S) <=> php[r].pc \in S) /\ (r \in At(S)' <=> php'[r].pc \in S)
  BY DEF At
<1> QED
  BY <1>1, <1>2, <1>3, OneMoves

\* What a step of one request leaves to show: its new record, the two counts,
\* and who waits.
LEMMA PhpMoves ==
  ASSUME PoolTypeOK, NEW r \in PhpRequests, NEW x \in PhpRecords, php' = [php EXCEPT ![r] = x]
  PROVE  /\ php' \in [PhpRequests -> PhpRecords] /\ php'[r] = x
         /\ \A q \in PhpRequests : q # r => php'[q] = php[q]
         /\ Cardinality(At(Holding)) \in Nat /\ Cardinality(At(Waking)) \in Nat
         /\ Cardinality(At(Holding)') = Cardinality(At(Holding))
              + (IF x.pc \in Holding THEN 1 ELSE 0) - (IF php[r].pc \in Holding THEN 1 ELSE 0)
         /\ Cardinality(At(Waking)') = Cardinality(At(Waking))
              + (IF x.pc \in Waking THEN 1 ELSE 0) - (IF php[r].pc \in Waking THEN 1 ELSE 0)
         /\ php[r].pc \in Holding => Cardinality(At(Holding)) >= 1
         /\ (\E q \in PhpRequests : Waits(q)') => (\E q \in PhpRequests : Waits(q)) \/ Waits(r)'
<1>1. /\ php' \in [PhpRequests -> PhpRecords] /\ php'[r] = x
      /\ \A q \in PhpRequests : q # r => php'[q] = php[q]
  BY DEF PoolTypeOK, PhpRecords
<1>2. (\E q \in PhpRequests : Waits(q)') => (\E q \in PhpRequests : Waits(q)) \/ Waits(r)'
  BY <1>1 DEF Waits
<1> HIDE DEF Holding, Waking
<1> QED
  BY <1>1, <1>2, CountMoves

Held(pc) == IF pc \in Holding THEN 1 ELSE 0
Woke(pc) == IF pc \in Waking THEN 1 ELSE 0

\* A step of one request keeps the invariant when the slots follow what the
\* request holds, and when either no promise of a wake-up is lost and nobody
\* new waits, or no slot is free, or every token is there.
LEMMA PhpStepKeeps ==
  ASSUME PoolInv, NEW r \in PhpRequests, NEW x \in PhpRecords, php' = [php EXCEPT ![r] = x],
         closing' = closing, idle' \in 0..MaxIdle, active' \in Int, active' <= MaxOpen,
         freed' \in 0..MaxOpen,
         active' - idle' = active - idle + Held(x.pc) - Held(php[r].pc),
         \/ /\ active' + freed' + Woke(x.pc) >= active + freed + Woke(php[r].pc)
            /\ Waits(r)' => Waits(r)
         \/ active' = MaxOpen
         \/ freed' = MaxOpen
  PROVE  PoolInv'
<1> DEFINE H == Cardinality(At(Holding))
           W == Cardinality(At(Waking))
           h == IF closing = "held" THEN 1 ELSE 0
<1>1. /\ php' \in [PhpRequests -> PhpRecords]
      /\ H \in Nat /\ H' \in Nat /\ H' = H + Held(x.pc) - Held(php[r].pc)
      /\ W \in Nat /\ W' \in Nat /\ W' = W + Woke(x.pc) - Woke(php[r].pc)
      /\ (\E q \in PhpRequests : Waits(q)') => (\E q \in PhpRequests : Waits(q)) \/ Waits(r)'
  <2>1. H' \in Nat /\ W' \in Nat
    BY PhpMoves, CountMoves DEF PoolInv
  <2> QED
    BY <2>1, PhpMoves DEF PoolInv, Held, Woke
<1>2. /\ idle \in Nat /\ active \in Int /\ freed \in Nat /\ MaxOpen \in Nat /\ MaxIdle \in Nat
      /\ Held(x.pc) \in 0..1 /\ Held(php[r].pc) \in 0..1 /\ Woke(x.pc) \in 0..1 /\ Woke(php[r].pc) \in 0..1
  BY FastCGIPoolAssumption DEF FastCGIPoolAssumption, PoolInv, PoolTypeOK, Held, Woke
<1>3. active = idle + H + h /\ h \in 0..1 /\ h' = h
  BY DEF PoolInv, SlotsMatchConnections
<1> HIDE DEF H, W, h
<1>4. active' = idle' + H' + h'
  BY <1>1, <1>2, <1>3
<1>5. SlotsMatchConnections'
  BY <1>4 DEF SlotsMatchConnections, H, h
<1>6. PoolTypeOK'
  <2>1. active' \in 0..MaxOpen
    BY <1>1, <1>2, <1>3, <1>4
  <2> QED
    BY <1>1, <2>1 DEF PoolInv, PoolTypeOK, PhpRecords
<1>7. WakeupOwed'
  <2> SUFFICES ASSUME \E q \in PhpRequests : Waits(q)', ~IdleClosed'
               PROVE  MaxOpen - active' <= freed' + W'
    BY DEF WakeupOwed, W
  <2>1. freed' \in Nat
    OBVIOUS
  <2>2. CASE active' = MaxOpen
    BY <1>1, <1>2, <2>1, <2>2
  <2>3. CASE freed' = MaxOpen
    <3>1. active' \in Nat
      BY <1>1, <1>2, <1>3, <1>4
    <3> QED
      BY <1>1, <1>2, <2>3, <3>1
  <2>4. CASE /\ active' + freed' + Woke(x.pc) >= active + freed + Woke(php[r].pc)
             /\ Waits(r)' => Waits(r)
    <3>1. \E q \in PhpRequests : Waits(q)
      BY <1>1, <2>4
    <3>2. MaxOpen - active <= freed + W
      BY <3>1 DEF PoolInv, WakeupOwed, IdleClosed, W
    <3> QED
      BY <1>1, <1>2, <2>1, <2>4, <3>2
  <2> QED
    BY <2>2, <2>3, <2>4
<1> QED
  BY <1>5, <1>6, <1>7 DEF PoolInv

\* A step of Get, Execute, Put or release keeps the invariant.
LEMMA PhpStepInv ==
  ASSUME PoolInv, NEW r \in PhpRequests, PhpStep(r)
  PROVE  PoolInv'
<1> DEFINE p == php[r]
<1>1. /\ p \in PhpRecords /\ idle \in 0..MaxIdle /\ active \in 0..MaxOpen /\ freed \in 0..MaxOpen
      /\ php \in [PhpRequests -> PhpRecords] /\ MaxOpen \in Nat /\ MaxIdle \in Nat
  BY FastCGIPoolAssumption DEF FastCGIPoolAssumption, PoolInv, PoolTypeOK, PhpRecords
<1>2. \A t : php' = [php EXCEPT ![r] = t] => php'[r] = t
  BY <1>1
<1> DEFINE Slots(x) == /\ closing' = closing /\ idle' \in 0..MaxIdle /\ active' \in Int
                       /\ active' <= MaxOpen /\ freed' \in 0..MaxOpen
                       /\ active' - idle' = active - idle + Held(x.pc) - Held(p.pc)
           Wakes(x) == \/ /\ active' + freed' + Woke(x.pc) >= active + freed + Woke(p.pc)
                          /\ Waits(r)' => Waits(r)
                       \/ active' = MaxOpen
                       \/ freed' = MaxOpen
<1>3. ASSUME NEW x \in PhpRecords, php' = [php EXCEPT ![r] = x], Slots(x), Wakes(x)
      PROVE  PoolInv'
  BY <1>3, PhpStepKeeps
<1> HIDE DEF Slots, Wakes
<1>4. ASSUME NEW b \in BOOLEAN, AskPhp(r, b) PROVE PoolInv'
  <2> DEFINE x == [p EXCEPT !.pc = "get", !.mayRetry = b]
  <2>1. x \in PhpRecords /\ x.pc = "get" /\ php' = [php EXCEPT ![r] = x]
    BY <1>1, <1>4 DEF AskPhp, PhpRecords, PhpPcs, Holding
  <2> HIDE DEF x
  <2>2. Slots(x) /\ Wakes(x)
    BY <1>1, <1>2, <1>4, <2>1 DEF AskPhp, Slots, Wakes, Holding, Waking, Held, Woke, Waits
  <2> QED
    BY <1>3, <2>1, <2>2
<1>5. ASSUME NEW b \in BOOLEAN, TakeIdle(r, b) PROVE PoolInv'
  <2> DEFINE x == IF b THEN [p EXCEPT !.pc = "free", !.then = p.pc, !.reused = FALSE,
                                       !.mayRetry = @ /\ p.pc # "rest"]
                  ELSE [p EXCEPT !.pc = "exec", !.reused = TRUE]
  <2>1. x \in PhpRecords /\ x.pc \in {"free", "exec"} /\ (x.pc = "free" => x.then = p.pc) /\ php' = [php EXCEPT ![r] = x]
    <3>1. (p.mayRetry /\ p.pc # "rest") \in BOOLEAN
      OBVIOUS
    <3>2. x \in PhpRecords /\ x.pc \in {"free", "exec"} /\ (x.pc = "free" => x.then = p.pc)
      <4>1. CASE b
        BY <1>1, <1>5, <3>1, <4>1 DEF TakeIdle, PhpRecords, PhpPcs, Holding
      <4>2. CASE ~b
        BY <1>1, <1>5, <4>2 DEF TakeIdle, PhpRecords, PhpPcs, Holding
      <4> QED
        BY <4>1, <4>2
    <3>3. php' = [php EXCEPT ![r] = x]
      <4>1. CASE b
        BY <1>5, <4>1 DEF TakeIdle, Release
      <4>2. CASE ~b
        BY <1>1, <1>5, <4>2 DEF TakeIdle
      <4> QED
        BY <4>1, <4>2
    <3> QED
      BY <3>2, <3>3
  <2> HIDE DEF x
  <2>2. Slots(x) /\ Wakes(x)
    BY <1>1, <1>2, <1>5, <2>1 DEF TakeIdle, Slots, Wakes, Holding, Waking, Held, Woke, Waits
  <2> QED
    BY <1>3, <2>1, <2>2
<1>6. ASSUME NEW b \in BOOLEAN, DialPhp(r, b) PROVE PoolInv'
  <2> DEFINE x == IF b THEN [p EXCEPT !.pc = "exec", !.then = "rest"]
                  ELSE [p EXCEPT !.pc = "free", !.then = "rest", !.reused = FALSE,
                                 !.mayRetry = @ /\ "rest" # "rest"]
  <2>1. x \in PhpRecords /\ x.pc \in {"free", "exec"} /\ x.then = "rest" /\ php' = [php EXCEPT ![r] = x]
    BY <1>1, <1>6 DEF DialPhp, PhpRecords, PhpPcs, Holding, Release, GoTo
  <2> HIDE DEF x
  <2>2. Slots(x) /\ Wakes(x)
    BY <1>1, <1>2, <1>6, <2>1 DEF DialPhp, Slots, Wakes, Holding, Waking, Held, Woke, Waits
  <2> QED
    BY <1>3, <2>1, <2>2
<1>7. ASSUME NEW b \in BOOLEAN, Broken(r, b) PROVE PoolInv'
  <2> DEFINE x == IF p.reused /\ b /\ p.mayRetry THEN [Rest EXCEPT !.pc = "free", !.then = "get"]
                  ELSE [p EXCEPT !.pc = "free", !.then = "rest", !.reused = FALSE,
                                 !.mayRetry = @ /\ "rest" # "rest"]
  <2>1. x \in PhpRecords /\ x.pc = "free" /\ x.then # "wait" /\ php' = [php EXCEPT ![r] = x]
    BY <1>1, <1>7 DEF Broken, PhpRecords, PhpPcs, Holding, Release, Rest
  <2> HIDE DEF x
  <2>2. Slots(x) /\ Wakes(x)
    BY <1>1, <1>2, <1>7, <2>1 DEF Broken, Slots, Wakes, Holding, Waking, Held, Woke, Waits
  <2> QED
    BY <1>3, <2>1, <2>2
<1>8. ASSUME RefusedClosed(r) PROVE PoolInv'
  <2> DEFINE x == Rest
  <2>1. x \in PhpRecords /\ x.pc = "rest" /\ php' = [php EXCEPT ![r] = x]
    BY <1>1, <1>8 DEF RefusedClosed, PhpRecords, PhpPcs, Holding, GoTo, Rest
  <2> HIDE DEF x
  <2>2. Slots(x) /\ Wakes(x)
    BY <1>1, <1>2, <1>8, <2>1 DEF RefusedClosed, Slots, Wakes, Holding, Waking, Held, Woke, Waits
  <2> QED
    BY <1>3, <2>1, <2>2
<1>9. ASSUME NoneIdle(r) PROVE PoolInv'
  <2> DEFINE x == [p EXCEPT !.pc = "reserve", !.then = "rest"]
  <2>1. x \in PhpRecords /\ x.pc = "reserve" /\ php' = [php EXCEPT ![r] = x]
    BY <1>1, <1>9 DEF NoneIdle, PhpRecords, PhpPcs, Holding, GoTo
  <2> HIDE DEF x
  <2>2. Slots(x) /\ Wakes(x)
    BY <1>1, <1>2, <1>9, <2>1 DEF NoneIdle, Slots, Wakes, Holding, Waking, Held, Woke, Waits
  <2> QED
    BY <1>3, <2>1, <2>2
<1>10. ASSUME Reserve(r) PROVE PoolInv'
  <2> DEFINE x == [p EXCEPT !.pc = IF active < MaxOpen THEN "dial" ELSE "wait", !.then = "rest"]
  <2>1. x \in PhpRecords /\ x.pc = (IF active < MaxOpen THEN "dial" ELSE "wait") /\ php' = [php EXCEPT ![r] = x]
    BY <1>1, <1>10 DEF Reserve, PhpRecords, PhpPcs, Holding, GoTo
  <2> HIDE DEF x
  <2>2. Slots(x) /\ Wakes(x)
    BY <1>1, <1>2, <1>10, <2>1 DEF Reserve, Slots, Wakes, Holding, Waking, Held, Woke, Waits
  <2> QED
    BY <1>3, <2>1, <2>2
<1>11. ASSUME Woken(r) PROVE PoolInv'
  <2> DEFINE x == [p EXCEPT !.pc = "woken", !.then = "rest"]
  <2>1. x \in PhpRecords /\ x.pc = "woken" /\ php' = [php EXCEPT ![r] = x]
    BY <1>1, <1>11 DEF Woken, PhpRecords, PhpPcs, Holding, GoTo
  <2> HIDE DEF x
  <2>2. Slots(x) /\ Wakes(x)
    BY <1>1, <1>2, <1>11, <2>1 DEF Woken, Slots, Wakes, Holding, Waking, Held, Woke, Waits
  <2> QED
    BY <1>3, <2>1, <2>2
<1>12. ASSUME GiveUpWaiting(r) PROVE PoolInv'
  <2> DEFINE x == Rest
  <2>1. x \in PhpRecords /\ x.pc = "rest" /\ php' = [php EXCEPT ![r] = x]
    BY <1>1, <1>12 DEF GiveUpWaiting, PhpRecords, PhpPcs, Holding, GoTo, Rest
  <2> HIDE DEF x
  <2>2. Slots(x) /\ Wakes(x)
    BY <1>1, <1>2, <1>12, <2>1 DEF GiveUpWaiting, Slots, Wakes, Holding, Waking, Held, Woke, Waits
  <2> QED
    BY <1>3, <2>1, <2>2
<1>13. ASSUME Answered(r) PROVE PoolInv'
  <2> DEFINE x == [p EXCEPT !.pc = "put", !.then = "rest"]
  <2>1. x \in PhpRecords /\ x.pc = "put" /\ php' = [php EXCEPT ![r] = x]
    BY <1>1, <1>13 DEF Answered, PhpRecords, PhpPcs, Holding, GoTo
  <2> HIDE DEF x
  <2>2. Slots(x) /\ Wakes(x)
    BY <1>1, <1>2, <1>13, <2>1 DEF Answered, Slots, Wakes, Holding, Waking, Held, Woke, Waits
  <2> QED
    BY <1>3, <2>1, <2>2
<1>14. ASSUME PutBack(r) PROVE PoolInv'
  <2> DEFINE x == IF closing = "open" /\ idle < MaxIdle THEN Rest
                  ELSE [p EXCEPT !.pc = "free", !.then = "rest", !.reused = FALSE,
                                 !.mayRetry = @ /\ "rest" # "rest"]
  <2>1. x \in PhpRecords /\ x.pc = (IF closing = "open" /\ idle < MaxIdle THEN "rest" ELSE "free") /\ x.then = "rest" /\ php' = [php EXCEPT ![r] = x]
    BY <1>1, <1>14 DEF PutBack, PhpRecords, PhpPcs, Holding, GoTo, Release, Rest
  <2> HIDE DEF x
  <2>2. Slots(x) /\ Wakes(x)
    BY <1>1, <1>2, <1>14, <2>1 DEF PutBack, Slots, Wakes, Holding, Waking, Held, Woke, Waits
  <2> QED
    BY <1>3, <2>1, <2>2
<1>15. ASSUME FreeSlot(r) PROVE PoolInv'
  <2> DEFINE x == [p EXCEPT !.pc = "wake"]
  <2>1. x \in PhpRecords /\ x.pc = "wake" /\ x.then = p.then /\ php' = [php EXCEPT ![r] = x]
    BY <1>1, <1>15 DEF FreeSlot, PhpRecords, PhpPcs, Holding
  <2> HIDE DEF x
  <2>2. Slots(x) /\ Wakes(x)
    BY <1>1, <1>2, <1>15, <2>1 DEF FreeSlot, Slots, Wakes, Holding, Waking, Held, Woke, Waits
  <2> QED
    BY <1>3, <2>1, <2>2
<1>16. ASSUME WakeWaiter(r) PROVE PoolInv'
  <2> DEFINE x == IF p.then = "rest" THEN Rest ELSE [p EXCEPT !.pc = p.then, !.then = "rest"]
  <2>1. x \in PhpRecords /\ x.pc = p.then /\ php' = [php EXCEPT ![r] = x]
    BY <1>1, <1>16 DEF WakeWaiter, PhpRecords, PhpPcs, Holding, GoTo, Rest
  <2> HIDE DEF x
  <2>2. Slots(x) /\ Wakes(x)
    <3>1. x.pc \in {"rest", "get", "wait"}
      BY <1>1, <2>1 DEF PhpRecords
    <3>2. Slots(x)
      BY <1>1, <1>16, <2>1, <3>1 DEF WakeWaiter, Slots, Holding, Held
    <3>3. Waits(r)' => Waits(r)
      BY <1>2, <1>16, <2>1, <3>1 DEF WakeWaiter, Waits
    <3>4. freed' = MaxOpen \/ active' + freed' + Woke(x.pc) >= active + freed + Woke(p.pc)
      BY <1>1, <1>16, <3>1 DEF WakeWaiter, Waking, Woke
    <3> QED
      BY <3>2, <3>3, <3>4 DEF Wakes
  <2> QED
    BY <1>3, <2>1, <2>2
<1> QED
  BY <1>4, <1>5, <1>6, <1>7, <1>8, <1>9, <1>10, <1>11, <1>12, <1>13, <1>14, <1>15, <1>16 DEF PhpStep

\* A step of the pool keeps the invariant: Close gives back the slots of the
\* idle connections one by one.
LEMMA PoolStepInv ==
  ASSUME PoolInv, [PoolNext]_poolVars
  PROVE  PoolInv'
<1>1. CASE UNCHANGED poolVars
  BY <1>1 DEF poolVars, PoolInv, PoolTypeOK, SlotsMatchConnections, WakeupOwed, Waits, IdleClosed, At
<1>2. ASSUME NEW r \in PhpRequests, PhpStep(r) PROVE PoolInv'
  BY <1>2, PhpStepInv
<1>3. CASE ClosePool
  <2> DEFINE H == Cardinality(At(Holding))
  <2>1. H \in Nat /\ At(Holding)' = At(Holding) /\ At(Waking)' = At(Waking)
    <3>1. At(Holding) \in SUBSET PhpRequests /\ At(Holding)' = At(Holding) /\ At(Waking)' = At(Waking)
      BY <1>3 DEF ClosePool, At
    <3> QED
      BY <3>1, FS_Subset, FS_CardinalityType, FastCGIPoolAssumption DEF FastCGIPoolAssumption
  <2>2. /\ idle \in 0..MaxIdle /\ active \in 0..MaxOpen /\ MaxOpen \in Nat /\ MaxIdle \in Nat
        /\ active = idle + H + (IF closing = "held" THEN 1 ELSE 0)
    BY FastCGIPoolAssumption DEF FastCGIPoolAssumption, PoolInv, PoolTypeOK, SlotsMatchConnections
  <2> HIDE DEF H
  <2>3. /\ active' = idle' + H + (IF closing' = "held" THEN 1 ELSE 0)
        /\ idle' \in 0..MaxIdle /\ active' \in 0..MaxOpen
    BY <1>3, <2>1, <2>2 DEF ClosePool, CloseStep
  <2>4. PoolTypeOK'
    BY <1>3, <2>3 DEF PoolInv, PoolTypeOK, ClosePool, CloseStep
  <2>5. SlotsMatchConnections'
    BY <2>1, <2>3 DEF SlotsMatchConnections, H
  <2>6. ~IdleClosed' => ~IdleClosed /\ active' = active
    BY <1>3 DEF ClosePool, CloseStep, IdleClosed
  <2>7. WakeupOwed'
    BY <1>3, <2>1, <2>6 DEF PoolInv, WakeupOwed, Waits, ClosePool
  <2> QED
    BY <2>4, <2>5, <2>7 DEF PoolInv
<1> QED
  BY <1>1, <1>2, <1>3 DEF PoolNext

\* The pool opens empty.
LEMMA PoolInitInv == PoolInit => PoolInv
<1> SUFFICES ASSUME PoolInit PROVE PoolInv
  OBVIOUS
<1>1. PoolTypeOK
  BY FastCGIPoolAssumption DEF FastCGIPoolAssumption, PoolInit, PoolTypeOK, Rest, PhpPcs
<1>2. At(Holding) = {}
  BY DEF PoolInit, At, Rest, Holding
<1>3. SlotsMatchConnections
  BY <1>2, FS_EmptySet DEF PoolInit, SlotsMatchConnections
<1>4. WakeupOwed
  BY DEF PoolInit, WakeupOwed, Waits, Rest
<1> QED
  BY <1>1, <1>3, <1>4 DEF PoolInv

\* The invariant of the FastCGI pool holds throughout.
THEOREM PoolInvariant == PoolSpec => []PoolInv
<1>1. PoolInv /\ [PoolNext]_poolVars => PoolInv'
  BY PoolStepInv
<1> QED
  BY <1>1, PoolInitInv, PTL DEF PoolSpec

\* No slot is lost or counted twice: p.active is the connections held, idle
\* or in the hands of Close.
THEOREM SlotsExact == PoolSpec => []SlotsMatchConnections
  BY PoolInvariant, PTL DEF PoolInv

\* No Get sleeps beside a free slot without a wake-up on its way.
THEOREM WakeupNeverLost == PoolSpec => []NoLostWakeup
<1>1. PoolInv => NoLostWakeup
  BY DEF PoolInv, WakeupOwed, NoLostWakeup, Waits, At, Waking
<1> QED
  BY <1>1, PoolInvariant, PTL

-----------------------------------------------------------------------------
(* PageRefresh *)

ReaderRecords == [pc : {"rest", "fetch", "mark", "count", "recheck", "uncount", "unmark"}, page : Pages]
Guarded       == {"count", "recheck", "uncount", "unmark"}

\* What the guard and the counter count: requests past the guard of key k,
\* requests counted in revalActive, keys whose goroutine runs or is counted.
PastGuard(k)  == {r \in Readers : PageOf(r) = k /\ reader[r].pc \in Guarded}
Counted       == {r \in Readers : reader[r].pc \in {"recheck", "uncount"}}
Rechecking    == {r \in Readers : reader[r].pc = "recheck"}
Running       == {k \in Pages : refresh[k].run > 0}
Busy          == {k \in Pages : refresh[k].run + refresh[k].uncount > 0}

\* A request that was let past the cap may still start its goroutine: both
\* kinds together stay below it.
RefreshesBelowCap == Cardinality(Rechecking) + Cardinality(Running) <= MaxRefreshes

\* The inductive invariant of the refreshes.
RefreshInv == RefreshTypeOK /\ GuardHeldByOne /\ RefreshesBelowCap

\* Everything counted here is finite.
LEMMA RefreshFinite ==
  /\ \A k : IsFiniteSet(PastGuard(k)) /\ Cardinality(PastGuard(k)) \in Nat
  /\ IsFiniteSet(Counted) /\ Cardinality(Counted) \in 0..Cardinality(Readers)
  /\ IsFiniteSet(Rechecking) /\ Cardinality(Rechecking) \in 0..Cardinality(Counted)
  /\ IsFiniteSet(Running) /\ Cardinality(Running) \in Nat
  /\ IsFiniteSet(Busy) /\ Cardinality(Busy) \in 0..Cardinality(Pages)
  /\ Cardinality(Readers) \in Nat /\ Cardinality(Pages) \in Nat
<1>1. /\ \A k : PastGuard(k) \in SUBSET Readers
      /\ Counted \in SUBSET Readers /\ Rechecking \in SUBSET Counted
      /\ Running \in SUBSET Pages /\ Busy \in SUBSET Pages
  BY DEF PastGuard, Counted, Rechecking, Running, Busy
<1>2. IsFiniteSet(Readers) /\ IsFiniteSet(Pages)
  BY PageRefreshAssumption DEF PageRefreshAssumption
<1>3. /\ \A k : IsFiniteSet(PastGuard(k))
      /\ IsFiniteSet(Counted) /\ Cardinality(Counted) <= Cardinality(Readers)
      /\ IsFiniteSet(Running)
      /\ IsFiniteSet(Busy) /\ Cardinality(Busy) <= Cardinality(Pages)
  BY <1>1, <1>2, FS_Subset
<1>4. IsFiniteSet(Rechecking) /\ Cardinality(Rechecking) <= Cardinality(Counted)
  BY <1>1, <1>3, FS_Subset
<1> QED
  BY <1>2, <1>3, <1>4, FS_CardinalityType

\* The guard and the counters in terms of these sets.
LEMMA GuardCounts ==
  /\ GuardHeldByOne <=>
       /\ \A k \in Pages : Cardinality(PastGuard(k)) + refresh[k].run + refresh[k].uncount + refresh[k].unmark
                            = IF k \in revalidating THEN 1 ELSE 0
       /\ Cardinality(Running) <= MaxRefreshes
       /\ revalActive = Cardinality(Counted) + Cardinality(Busy)
  /\ GuardHeldByOne' <=>
       /\ \A k \in Pages : Cardinality(PastGuard(k)') + refresh'[k].run + refresh'[k].uncount + refresh'[k].unmark
                            = IF k \in revalidating' THEN 1 ELSE 0
       /\ Cardinality(Running') <= MaxRefreshes
       /\ revalActive' = Cardinality(Counted') + Cardinality(Busy')
  BY DEF GuardHeldByOne, Holders, PastGuard, Running, Counted, Busy, Guarded

One(b) == IF b THEN 1 ELSE 0

\* What a step of one reader changes of the counts: itself.
LEMMA ReaderMoves ==
  ASSUME RefreshTypeOK, NEW r \in Readers, NEW x \in ReaderRecords,
         reader' = [reader EXCEPT ![r] = x],
         x.page = PageOf(r) \/ (reader[r].pc \notin Guarded /\ x.pc \notin Guarded)
  PROVE  /\ reader' \in [Readers -> ReaderRecords]
         /\ \A k \in Pages : Cardinality(PastGuard(k)') = Cardinality(PastGuard(k))
               + One(k = PageOf(r) /\ x.pc \in Guarded) - One(k = PageOf(r) /\ reader[r].pc \in Guarded)
         /\ Cardinality(Counted') = Cardinality(Counted)
               + One(x.pc \in {"recheck", "uncount"}) - One(reader[r].pc \in {"recheck", "uncount"})
         /\ Cardinality(Rechecking') = Cardinality(Rechecking)
               + One(x.pc = "recheck") - One(reader[r].pc = "recheck")
         /\ reader[r].pc \in Guarded => Cardinality(PastGuard(PageOf(r))) >= 1
<1>1. /\ reader' \in [Readers -> ReaderRecords] /\ reader'[r] = x /\ PageOf(r) \in Pages
      /\ \A q \in Readers : q # r => reader'[q] = reader[q]
  BY DEF RefreshTypeOK, ReaderRecords, PageOf
<1>2. ASSUME NEW k \in Pages
      PROVE  /\ Cardinality(PastGuard(k)') = Cardinality(PastGuard(k))
               + One(k = PageOf(r) /\ x.pc \in Guarded) - One(k = PageOf(r) /\ reader[r].pc \in Guarded)
             /\ k = PageOf(r) /\ reader[r].pc \in Guarded => Cardinality(PastGuard(k)) >= 1
  <2>1. PastGuard(k) \ {r} = PastGuard(k)' \ {r}
    BY <1>1 DEF PastGuard, PageOf
  <2>2. /\ r \in PastGuard(k) <=> k = PageOf(r) /\ reader[r].pc \in Guarded
        /\ r \in PastGuard(k)' <=> k = PageOf(r) /\ x.pc \in Guarded
    BY <1>1 DEF PastGuard, PageOf
  <2> QED
    BY <2>1, <2>2, OneMoves, RefreshFinite DEF One
<1>3. Cardinality(Counted') = Cardinality(Counted)
               + One(x.pc \in {"recheck", "uncount"}) - One(reader[r].pc \in {"recheck", "uncount"})
  <2>1. Counted \ {r} = Counted' \ {r}
    BY <1>1 DEF Counted
  <2>2. /\ r \in Counted <=> reader[r].pc \in {"recheck", "uncount"}
        /\ r \in Counted' <=> x.pc \in {"recheck", "uncount"}
    BY <1>1 DEF Counted
  <2> QED
    BY <2>1, <2>2, OneMoves, RefreshFinite DEF One
<1>4. Cardinality(Rechecking') = Cardinality(Rechecking)
               + One(x.pc = "recheck") - One(reader[r].pc = "recheck")
  <2>1. Rechecking \ {r} = Rechecking' \ {r}
    BY <1>1 DEF Rechecking
  <2>2. /\ r \in Rechecking <=> reader[r].pc = "recheck"
        /\ r \in Rechecking' <=> x.pc = "recheck"
    BY <1>1 DEF Rechecking
  <2> QED
    BY <2>1, <2>2, OneMoves, RefreshFinite DEF One
<1> QED
  BY <1>1, <1>2, <1>3, <1>4

\* What a step of the goroutine of one key changes of the counts: that key.
LEMMA RefreshMoves ==
  ASSUME RefreshTypeOK, NEW k \in Pages, NEW x \in [run : Int, uncount : Int, unmark : Int],
         refresh' = [refresh EXCEPT ![k] = x]
  PROVE  /\ refresh'[k] = x /\ \A j \in Pages : j # k => refresh'[j] = refresh[j]
         /\ Cardinality(Running') = Cardinality(Running)
               + One(x.run > 0) - One(refresh[k].run > 0)
         /\ Cardinality(Busy') = Cardinality(Busy)
               + One(x.run + x.uncount > 0) - One(refresh[k].run + refresh[k].uncount > 0)
<1>1. refresh'[k] = x /\ \A j \in Pages : j # k => refresh'[j] = refresh[j]
  BY DEF RefreshTypeOK
<1>2. Running \ {k} = Running' \ {k} /\ Busy \ {k} = Busy' \ {k}
  BY <1>1 DEF Running, Busy
<1>3. /\ k \in Running <=> refresh[k].run > 0
      /\ k \in Running' <=> x.run > 0
      /\ k \in Busy <=> refresh[k].run + refresh[k].uncount > 0
      /\ k \in Busy' <=> x.run + x.uncount > 0
  BY <1>1 DEF Running, Busy
<1> QED
  BY <1>1, <1>2, <1>3, OneMoves, RefreshFinite DEF One

\* The arithmetic of a sum that is at most one.
LEMMA AtMostOne ==
  ASSUME NEW a \in Nat, NEW b \in Nat, NEW c \in Nat, a + b + c <= 1
  PROVE  a \in 0..1 /\ b \in 0..1 /\ c \in 0..1
  OBVIOUS

\* The bounds of the counters and of the goroutines of a key follow from what
\* they count.
LEMMA RefreshTypeFollows ==
  ASSUME page' \in [Pages -> {"none", "fresh", "stale"}], revalidating' \subseteq Pages,
         reader' \in [Readers -> ReaderRecords],
         refresh' \in [Pages -> [run : Nat, uncount : Nat, unmark : Nat]], GuardHeldByOne'
  PROVE  RefreshTypeOK'
<1>1. Counted' \in SUBSET Readers /\ Busy' \in SUBSET Pages /\ \A k : PastGuard(k)' \in SUBSET Readers
  BY DEF Counted, Busy, PastGuard
<1>2. /\ IsFiniteSet(Counted') /\ Cardinality(Counted') <= Cardinality(Readers)
      /\ IsFiniteSet(Busy') /\ Cardinality(Busy') <= Cardinality(Pages)
      /\ \A k : IsFiniteSet(PastGuard(k)')
  BY <1>1, FS_Subset, PageRefreshAssumption DEF PageRefreshAssumption
<1>3. /\ Cardinality(Counted') \in Nat /\ Cardinality(Busy') \in Nat
      /\ \A k : Cardinality(PastGuard(k)') \in Nat
  BY <1>2, FS_CardinalityType
<1>4. Cardinality(Readers) \in Nat /\ Cardinality(Pages) \in Nat
  BY FS_CardinalityType, PageRefreshAssumption DEF PageRefreshAssumption
<1>5. revalActive' \in 0..(Cardinality(Readers) + Cardinality(Pages))
  BY <1>2, <1>3, <1>4, GuardCounts
<1>6. ASSUME NEW k \in Pages
      PROVE  refresh'[k] \in [run : 0..1, uncount : 0..1, unmark : 0..1]
  <2>1. /\ refresh'[k].run \in Nat /\ refresh'[k].uncount \in Nat /\ refresh'[k].unmark \in Nat
        /\ refresh'[k] \in [run : Nat, uncount : Nat, unmark : Nat]
    OBVIOUS
  <2>2. refresh'[k].run + refresh'[k].uncount + refresh'[k].unmark <= 1
    BY <1>3, <2>1, GuardCounts
  <2>3. refresh'[k].run \in 0..1 /\ refresh'[k].uncount \in 0..1 /\ refresh'[k].unmark \in 0..1
    BY <2>1, <2>2, AtMostOne
  <2> QED
    BY <2>1, <2>3
<1> QED
  BY <1>5, <1>6 DEF RefreshTypeOK, ReaderRecords

\* A reader's step keeps the invariant.
LEMMA ReaderStepInv ==
  ASSUME RefreshInv, NEW r \in Readers,
         \/ Mark(r) \/ CountRefresh(r) \/ Recheck(r) \/ Uncount(r) \/ Unmark(r)
         \/ \E k \in Pages : ReadPage(r, k)
         \/ \E c \in BOOLEAN : FetchPage(r, c)
  PROVE  RefreshInv'
<1> DEFINE K == PageOf(r)
           G(k) == Cardinality(PastGuard(k))
           C == Cardinality(Counted)
           R == Cardinality(Rechecking)
           U == Cardinality(Running)
           B == Cardinality(Busy)
<1>1. /\ reader[r] \in ReaderRecords /\ K \in Pages /\ reader \in [Readers -> ReaderRecords]
      /\ page \in [Pages -> {"none", "fresh", "stale"}] /\ revalidating \subseteq Pages
      /\ refresh \in [Pages -> [run : Nat, uncount : Nat, unmark : Nat]]
  <2>1. \A k \in Pages : refresh[k] \in [run : Nat, uncount : Nat, unmark : Nat]
    BY DEF RefreshInv, RefreshTypeOK
  <2> QED
    BY <2>1 DEF RefreshInv, RefreshTypeOK, ReaderRecords, PageOf
<1>2. /\ \A k \in Pages : /\ G(k) \in Nat
                          /\ G(k) + refresh[k].run + refresh[k].uncount + refresh[k].unmark
                               = IF k \in revalidating THEN 1 ELSE 0
      /\ revalActive = C + B /\ C \in Nat /\ B \in Nat /\ R \in 0..C /\ U \in 0..B
      /\ R + U <= MaxRefreshes /\ MaxRefreshes \in Nat /\ revalActive \in Nat
  <2>1. Running \in SUBSET Busy
    BY <1>1 DEF Running, Busy
  <2>2. U <= B
    BY <2>1, RefreshFinite, FS_Subset
  <2> QED
    BY <2>2, RefreshFinite, GuardCounts, PageRefreshAssumption
    DEF RefreshInv, RefreshesBelowCap, PageRefreshAssumption
<1> DEFINE Moves(x) == /\ x \in ReaderRecords /\ reader' = [reader EXCEPT ![r] = x]
                       /\ x.page = K \/ (reader[r].pc \notin Guarded /\ x.pc \notin Guarded)
<1>3. ASSUME NEW x, Moves(x)
      PROVE  /\ reader' \in [Readers -> ReaderRecords]
             /\ \A k \in Pages : G(k)' = G(k) + One(k = K /\ x.pc \in Guarded)
                                             - One(k = K /\ reader[r].pc \in Guarded)
             /\ C' = C + One(x.pc \in {"recheck", "uncount"}) - One(reader[r].pc \in {"recheck", "uncount"})
             /\ R' = R + One(x.pc = "recheck") - One(reader[r].pc = "recheck")
             /\ reader[r].pc \in Guarded => G(K) >= 1
  BY <1>3, ReaderMoves DEF RefreshInv
<1>4. ASSUME refresh' = refresh
      PROVE  U' = U /\ B' = B
  BY <1>4 DEF Running, Busy
<1>5. ASSUME /\ \A k \in Pages : G(k)' + refresh'[k].run + refresh'[k].uncount + refresh'[k].unmark
                               = IF k \in revalidating' THEN 1 ELSE 0,
             revalActive' = C' + B', R' + U' <= MaxRefreshes, R' \in Nat, U' \in Nat,
             page' \in [Pages -> {"none", "fresh", "stale"}], revalidating' \subseteq Pages,
             reader' \in [Readers -> ReaderRecords],
             refresh' \in [Pages -> [run : Nat, uncount : Nat, unmark : Nat]]
      PROVE  RefreshInv'
  <2>1. GuardHeldByOne'
    BY <1>2, <1>5, GuardCounts
  <2> QED
    BY <1>5, <2>1, RefreshTypeFollows DEF RefreshInv, RefreshesBelowCap
<1> HIDE DEF G, C, R, U, B, Moves
<1>6. CASE Mark(r)
  <2> DEFINE x == [reader[r] EXCEPT !.pc = IF K \in revalidating THEN "rest" ELSE "count"]
  <2>1. /\ Moves(x) /\ x.pc = (IF K \in revalidating THEN "rest" ELSE "count")
        /\ reader[r].pc = "mark" /\ refresh' = refresh
    BY <1>1, <1>6 DEF Mark, ReaderTo, ReaderRecords, Moves, PageOf
  <2> HIDE DEF x
  <2>2. /\ \A k \in Pages : G(k)' = G(k) + One(k = K /\ x.pc = "count")
        /\ C' = C /\ R' = R /\ U' = U /\ B' = B /\ reader' \in [Readers -> ReaderRecords]
    BY <1>2, <1>3, <1>4, <2>1 DEF Guarded, One
  <2>3. \A k \in Pages : G(k)' + refresh'[k].run + refresh'[k].uncount + refresh'[k].unmark
                               = IF k \in revalidating' THEN 1 ELSE 0
    BY <1>1, <1>2, <1>6, <2>1, <2>2 DEF Mark, One
  <2> QED
    BY <1>1, <1>2, <1>5, <1>6, <2>1, <2>2, <2>3 DEF Mark
<1>7. CASE CountRefresh(r)
  <2> DEFINE x == [reader[r] EXCEPT !.pc = IF revalActive + 1 > MaxRefreshes THEN "uncount" ELSE "recheck"]
  <2>1. /\ Moves(x) /\ x.pc = (IF revalActive + 1 > MaxRefreshes THEN "uncount" ELSE "recheck")
        /\ reader[r].pc = "count" /\ refresh' = refresh
    BY <1>1, <1>7 DEF CountRefresh, ReaderTo, ReaderRecords, Moves, PageOf
  <2> HIDE DEF x
  <2>2. /\ \A k \in Pages : G(k)' = G(k)
        /\ C' = C + 1 /\ R' = R + One(x.pc = "recheck") /\ U' = U /\ B' = B
        /\ reader' \in [Readers -> ReaderRecords]
    BY <1>2, <1>3, <1>4, <2>1 DEF Guarded, One
  <2>3. R' + U' <= MaxRefreshes /\ R' \in Nat /\ U' \in Nat
    BY <1>2, <2>1, <2>2 DEF One
  <2> QED
    BY <1>1, <1>2, <1>5, <1>7, <2>1, <2>2, <2>3 DEF CountRefresh
<1>8. CASE Recheck(r) /\ page[K] # "stale"
  <2> DEFINE x == [reader[r] EXCEPT !.pc = "uncount"]
  <2>1. Moves(x) /\ x.pc = "uncount" /\ reader[r].pc = "recheck" /\ refresh' = refresh
    BY <1>1, <1>8 DEF Recheck, ReaderTo, ReaderRecords, Moves, PageOf
  <2> HIDE DEF x
  <2>2. /\ \A k \in Pages : G(k)' = G(k)
        /\ C' = C /\ R' = R - 1 /\ U' = U /\ B' = B /\ reader' \in [Readers -> ReaderRecords]
    BY <1>2, <1>3, <1>4, <2>1 DEF Guarded, One
  <2>3. R >= 1
    BY <2>1, RefreshFinite, FS_EmptySet DEF Rechecking, R
  <2> QED
    BY <1>1, <1>2, <1>5, <1>8, <2>1, <2>2, <2>3 DEF Recheck
<1>9. CASE Recheck(r) /\ page[K] = "stale"
  <2> DEFINE x == [reader[r] EXCEPT !.pc = "rest"]
             y == [refresh[K] EXCEPT !.run = @ + 1]
  <2>1. Moves(x) /\ x.pc = "rest" /\ reader[r].pc = "recheck"
    BY <1>1, <1>9 DEF Recheck, ReaderTo, ReaderRecords, Moves, PageOf
  <2>2. /\ y \in [run : Nat, uncount : Nat, unmark : Nat] /\ refresh' = [refresh EXCEPT ![K] = y]
        /\ y.run = refresh[K].run + 1 /\ y.uncount = refresh[K].uncount /\ y.unmark = refresh[K].unmark
    BY <1>1, <1>9 DEF Recheck
  <2> HIDE DEF x, y
  <2>3. /\ \A k \in Pages : G(k)' = G(k) - One(k = K) /\ (k = K => G(k) >= 1)
        /\ C' = C - 1 /\ R' = R - 1 /\ reader' \in [Readers -> ReaderRecords]
    BY <1>2, <1>3, <2>1 DEF Guarded, One
  <2>4. refresh[K].run = 0 /\ refresh[K].uncount = 0 /\ refresh[K].unmark = 0 /\ K \in revalidating
    <3>1. /\ G(K) \in Nat /\ G(K) >= 1
          /\ G(K) + refresh[K].run + refresh[K].uncount + refresh[K].unmark
               = IF K \in revalidating THEN 1 ELSE 0
      BY <1>1, <1>2, <2>3
    <3>2. refresh[K].run \in Nat /\ refresh[K].uncount \in Nat /\ refresh[K].unmark \in Nat
      BY <1>1
    <3> QED
      BY <3>1, <3>2
  <2>5. /\ refresh'[K] = y /\ \A j \in Pages : j # K => refresh'[j] = refresh[j]
        /\ U' = U + 1 /\ B' = B + 1
    <3>1. y \in [run : Int, uncount : Int, unmark : Int] /\ RefreshTypeOK
      BY <2>2 DEF RefreshInv
    <3>2. /\ refresh'[K] = y /\ \A j \in Pages : j # K => refresh'[j] = refresh[j]
          /\ U' = U + One(y.run > 0) - One(refresh[K].run > 0)
          /\ B' = B + One(y.run + y.uncount > 0) - One(refresh[K].run + refresh[K].uncount > 0)
      BY <1>1, <2>2, <3>1, RefreshMoves DEF U, B
    <3> QED
      BY <1>2, <2>2, <2>4, <3>2 DEF One
  <2>6. refresh' \in [Pages -> [run : Nat, uncount : Nat, unmark : Nat]]
    BY <1>1, <2>2
  <2>7. R >= 1
    BY <2>1, RefreshFinite, FS_EmptySet DEF Rechecking, R
  <2>8. \A k \in Pages : G(k)' + refresh'[k].run + refresh'[k].uncount + refresh'[k].unmark
                               = IF k \in revalidating' THEN 1 ELSE 0
    BY <1>1, <1>2, <1>9, <2>2, <2>3, <2>4, <2>5 DEF Recheck, One
  <2> QED
    BY <1>1, <1>2, <1>5, <1>9, <2>3, <2>5, <2>6, <2>7, <2>8 DEF Recheck
<1>10. CASE Uncount(r)
  <2> DEFINE x == [reader[r] EXCEPT !.pc = "unmark"]
  <2>1. Moves(x) /\ x.pc = "unmark" /\ reader[r].pc = "uncount" /\ refresh' = refresh
    BY <1>1, <1>10 DEF Uncount, ReaderTo, ReaderRecords, Moves, PageOf
  <2> HIDE DEF x
  <2>2. /\ \A k \in Pages : G(k)' = G(k)
        /\ C' = C - 1 /\ R' = R /\ U' = U /\ B' = B /\ reader' \in [Readers -> ReaderRecords]
    BY <1>2, <1>3, <1>4, <2>1 DEF Guarded, One
  <2> QED
    BY <1>1, <1>2, <1>5, <1>10, <2>1, <2>2 DEF Uncount
<1>11. CASE Unmark(r)
  <2> DEFINE x == [reader[r] EXCEPT !.pc = "rest"]
  <2>1. Moves(x) /\ x.pc = "rest" /\ reader[r].pc = "unmark" /\ refresh' = refresh
    BY <1>1, <1>11 DEF Unmark, ReaderTo, ReaderRecords, Moves, PageOf
  <2> HIDE DEF x
  <2>2. /\ \A k \in Pages : G(k)' = G(k) - One(k = K) /\ (k = K => G(k) >= 1)
        /\ C' = C /\ R' = R /\ U' = U /\ B' = B /\ reader' \in [Readers -> ReaderRecords]
    BY <1>2, <1>3, <1>4, <2>1 DEF Guarded, One
  <2>3. \A k \in Pages : G(k)' + refresh'[k].run + refresh'[k].uncount + refresh'[k].unmark
                               = IF k \in revalidating' THEN 1 ELSE 0
    BY <1>1, <1>2, <1>11, <2>1, <2>2 DEF Unmark, One
  <2> QED
    BY <1>1, <1>2, <1>5, <1>11, <2>1, <2>2, <2>3 DEF Unmark
<1>12. ASSUME NEW k \in Pages, ReadPage(r, k) PROVE RefreshInv'
  <2> DEFINE x == [pc |-> CASE page[k] = "fresh" -> "rest" [] page[k] = "stale" -> "mark"
                            [] OTHER -> "fetch", page |-> k]
  <2>1. Moves(x) /\ x.pc \in {"rest", "mark", "fetch"} /\ reader[r].pc = "rest" /\ refresh' = refresh
    BY <1>1, <1>12 DEF ReadPage, ReaderRecords, Moves, Guarded
  <2> HIDE DEF x
  <2>2. /\ \A j \in Pages : G(j)' = G(j)
        /\ C' = C /\ R' = R /\ U' = U /\ B' = B /\ reader' \in [Readers -> ReaderRecords]
    BY <1>2, <1>3, <1>4, <2>1 DEF Guarded, One
  <2> QED
    BY <1>1, <1>2, <1>5, <1>12, <2>1, <2>2 DEF ReadPage
<1>13. ASSUME NEW c \in BOOLEAN, FetchPage(r, c) PROVE RefreshInv'
  <2> DEFINE x == [reader[r] EXCEPT !.pc = "rest"]
  <2>1. /\ Moves(x) /\ x.pc = "rest" /\ reader[r].pc = "fetch" /\ refresh' = refresh
    BY <1>1, <1>13 DEF FetchPage, ReaderTo, ReaderRecords, Moves, PageOf
  <2> HIDE DEF x
  <2>2. /\ \A j \in Pages : G(j)' = G(j)
        /\ C' = C /\ R' = R /\ U' = U /\ B' = B /\ reader' \in [Readers -> ReaderRecords]
    BY <1>2, <1>3, <1>4, <2>1 DEF Guarded, One
  <2>3. page' \in [Pages -> {"none", "fresh", "stale"}]
    BY <1>1, <1>13 DEF FetchPage
  <2> QED
    BY <1>1, <1>2, <1>5, <1>13, <2>1, <2>2, <2>3 DEF FetchPage
<1> QED
  BY <1>6, <1>7, <1>8, <1>9, <1>10, <1>11, <1>12, <1>13 DEF Recheck

\* A step of a goroutine or of time keeps the invariant.
LEMMA GoroutineStepInv ==
  ASSUME RefreshInv, NEW k \in Pages,
         \/ RefreshUncounts(k) \/ RefreshUnmarks(k)
         \/ \E o \in {"fresh", "none", "left"} : RefreshEnds(k, o)
         \/ \E to \in {"stale", "none"} : PageAges(k, to)
  PROVE  RefreshInv'
<1> DEFINE G(j) == Cardinality(PastGuard(j))
           C == Cardinality(Counted)
           R == Cardinality(Rechecking)
           U == Cardinality(Running)
           B == Cardinality(Busy)
           f == refresh[k]
           Fields == [run : Nat, uncount : Nat, unmark : Nat]
           One3(j) == refresh[j].run + refresh[j].uncount + refresh[j].unmark
<1>1. /\ reader \in [Readers -> ReaderRecords] /\ revalidating \subseteq Pages
      /\ page \in [Pages -> {"none", "fresh", "stale"}]
      /\ refresh \in [Pages -> Fields] /\ f \in Fields
      /\ f.run \in Nat /\ f.uncount \in Nat /\ f.unmark \in Nat
  <2>1. \A j \in Pages : refresh[j] \in Fields
    BY DEF RefreshInv, RefreshTypeOK
  <2> QED
    BY <2>1 DEF RefreshInv, RefreshTypeOK, ReaderRecords
<1>2. /\ \A j \in Pages : /\ G(j) \in Nat
                          /\ G(j) + One3(j) = IF j \in revalidating THEN 1 ELSE 0
      /\ revalActive = C + B /\ C \in Nat /\ B \in Nat /\ R \in Nat /\ U \in Nat
      /\ R + U <= MaxRefreshes /\ MaxRefreshes \in Nat
  BY <1>1, RefreshFinite, GuardCounts, PageRefreshAssumption
  DEF RefreshInv, RefreshesBelowCap, PageRefreshAssumption
<1>3. reader' = reader
  BY DEF RefreshUncounts, RefreshUnmarks, RefreshEnds, PageAges
<1>4. C' = C /\ R' = R /\ \A j \in Pages : G(j)' = G(j)
  BY <1>3 DEF Counted, Rechecking, PastGuard, PageOf
<1>5. ASSUME \A j \in Pages : G(j) + One3(j)' = IF j \in revalidating' THEN 1 ELSE 0,
             revalActive' = C + B', U' \in Nat, U' <= U, revalidating' \subseteq Pages,
             page' \in [Pages -> {"none", "fresh", "stale"}], refresh' \in [Pages -> Fields]
      PROVE  RefreshInv'
  <2>1. R' + U' <= MaxRefreshes /\ U' <= MaxRefreshes
    BY <1>2, <1>4, <1>5
  <2>2. \A j \in Pages : refresh'[j].run \in Nat /\ refresh'[j].uncount \in Nat /\ refresh'[j].unmark \in Nat
    BY <1>5
  <2>3. \A j \in Pages : Cardinality(PastGuard(j)') + refresh'[j].run + refresh'[j].uncount + refresh'[j].unmark
                            = IF j \in revalidating' THEN 1 ELSE 0
    BY <1>2, <1>4, <1>5, <2>2
  <2>4. GuardHeldByOne'
    BY <1>4, <1>5, <2>1, <2>3, GuardCounts
  <2> QED
    BY <1>1, <1>3, <1>5, <2>1, <2>4, RefreshTypeFollows DEF RefreshInv, RefreshesBelowCap
<1>6. ASSUME NEW y \in Fields, refresh' = [refresh EXCEPT ![k] = y]
      PROVE  /\ refresh' \in [Pages -> Fields] /\ refresh'[k] = y
             /\ \A j \in Pages : j # k => refresh'[j] = refresh[j]
             /\ U' = U + One(y.run > 0) - One(f.run > 0)
             /\ B' = B + One(y.run + y.uncount > 0) - One(f.run + f.uncount > 0)
  <2>1. y \in [run : Int, uncount : Int, unmark : Int] /\ RefreshTypeOK
    BY <1>6 DEF RefreshInv
  <2> QED
    BY <1>1, <1>6, <2>1, RefreshMoves
<1>7. (f.run > 0 \/ f.uncount > 0 \/ f.unmark > 0) =>
        /\ k \in revalidating /\ G(k) = 0 /\ f.run + f.uncount + f.unmark = 1
  <2>1. G(k) \in Nat /\ G(k) + (f.run + f.uncount + f.unmark) = IF k \in revalidating THEN 1 ELSE 0
    BY <1>2
  <2> QED
    BY <1>1, <2>1
<1> HIDE DEF G, C, R, U, B, f, One3, Fields
<1>8. CASE RefreshUncounts(k)
  <2> DEFINE y == [run |-> f.run, uncount |-> f.uncount - 1, unmark |-> f.unmark + 1]
  <2>1. f.uncount > 0 /\ refresh' = [refresh EXCEPT ![k] = y]
    BY <1>1, <1>8 DEF RefreshUncounts, Handover, f, Fields
  <2>2. y \in Fields /\ y.run = f.run /\ y.uncount = f.uncount - 1 /\ y.unmark = f.unmark + 1
    BY <1>1, <2>1 DEF Fields
  <2> HIDE DEF y
  <2>3. f.run = 0 /\ f.uncount = 1 /\ f.unmark = 0
    BY <1>1, <1>7, <2>1
  <2>4. /\ refresh' \in [Pages -> Fields] /\ refresh'[k] = y /\ U' = U /\ B' = B - 1
        /\ \A j \in Pages : j # k => refresh'[j] = refresh[j]
    <3>1. /\ refresh' \in [Pages -> Fields] /\ refresh'[k] = y
          /\ \A j \in Pages : j # k => refresh'[j] = refresh[j]
          /\ U' = U + One(y.run > 0) - One(f.run > 0)
          /\ B' = B + One(y.run + y.uncount > 0) - One(f.run + f.uncount > 0)
      BY <1>6, <2>1, <2>2
    <3> QED
      BY <1>2, <2>2, <2>3, <3>1 DEF One
  <2>5. \A j \in Pages : One3(j)' = One3(j)
    BY <2>2, <2>3, <2>4 DEF One3, f
  <2> QED
    BY <1>1, <1>2, <1>5, <1>8, <2>4, <2>5 DEF RefreshUncounts
<1>9. CASE RefreshUnmarks(k)
  <2> DEFINE y == [run |-> f.run, uncount |-> f.uncount, unmark |-> f.unmark - 1]
  <2>1. f.unmark > 0 /\ refresh' = [refresh EXCEPT ![k] = y]
    <3>1. [refresh[k] EXCEPT !.unmark = @ - 1] = y
      BY <1>1 DEF f, Fields
    <3> QED
      BY <1>9, <3>1 DEF RefreshUnmarks, f
  <2>2. y \in Fields /\ y.run = f.run /\ y.uncount = f.uncount /\ y.unmark = f.unmark - 1
    BY <1>1, <2>1 DEF Fields
  <2> HIDE DEF y
  <2>3. f.run = 0 /\ f.uncount = 0 /\ f.unmark = 1
    BY <1>1, <1>7, <2>1
  <2>4. /\ refresh' \in [Pages -> Fields] /\ refresh'[k] = y /\ U' = U /\ B' = B
        /\ \A j \in Pages : j # k => refresh'[j] = refresh[j]
    <3>1. /\ refresh' \in [Pages -> Fields] /\ refresh'[k] = y
          /\ \A j \in Pages : j # k => refresh'[j] = refresh[j]
          /\ U' = U + One(y.run > 0) - One(f.run > 0)
          /\ B' = B + One(y.run + y.uncount > 0) - One(f.run + f.uncount > 0)
      BY <1>6, <2>1, <2>2
    <3> QED
      BY <1>2, <2>2, <2>3, <3>1 DEF One
  <2>5. One3(k)' = 0 /\ G(k) = 0 /\ \A j \in Pages : j # k => One3(j)' = One3(j)
    BY <1>7, <2>1, <2>2, <2>3, <2>4 DEF One3
  <2>6. \A j \in Pages : G(j) + One3(j)' = IF j \in revalidating' THEN 1 ELSE 0
    BY <1>2, <1>9, <2>5 DEF RefreshUnmarks
  <2> QED
    BY <1>1, <1>2, <1>5, <1>9, <2>4, <2>6 DEF RefreshUnmarks
<1>10. ASSUME NEW o \in {"fresh", "none", "left"}, RefreshEnds(k, o) PROVE RefreshInv'
  <2> DEFINE y == [run |-> f.run - 1, uncount |-> f.uncount + 1, unmark |-> f.unmark]
  <2>1. f.run > 0 /\ refresh' = [refresh EXCEPT ![k] = y]
    BY <1>1, <1>10 DEF RefreshEnds, Handover, f, Fields
  <2>2. y \in Fields /\ y.run = f.run - 1 /\ y.uncount = f.uncount + 1 /\ y.unmark = f.unmark
    BY <1>1, <2>1 DEF Fields
  <2> HIDE DEF y
  <2>3. f.run = 1 /\ f.uncount = 0 /\ f.unmark = 0
    BY <1>1, <1>7, <2>1
  <2>4. /\ refresh' \in [Pages -> Fields] /\ refresh'[k] = y /\ U' = U - 1 /\ B' = B
        /\ \A j \in Pages : j # k => refresh'[j] = refresh[j]
    <3>1. /\ refresh' \in [Pages -> Fields] /\ refresh'[k] = y
          /\ \A j \in Pages : j # k => refresh'[j] = refresh[j]
          /\ U' = U + One(y.run > 0) - One(f.run > 0)
          /\ B' = B + One(y.run + y.uncount > 0) - One(f.run + f.uncount > 0)
      BY <1>6, <2>1, <2>2
    <3> QED
      BY <1>2, <2>2, <2>3, <3>1 DEF One
  <2>5. U >= 1
    <3>1. k \in Running
      BY <2>1 DEF Running, f
    <3> QED
      BY <1>2, <3>1, RefreshFinite, FS_EmptySet DEF U
  <2>6. \A j \in Pages : One3(j)' = One3(j)
    BY <2>2, <2>3, <2>4 DEF One3, f
  <2>7. page' \in [Pages -> {"none", "fresh", "stale"}]
    BY <1>1, <1>10 DEF RefreshEnds
  <2> QED
    BY <1>1, <1>2, <1>5, <1>10, <2>4, <2>5, <2>6, <2>7 DEF RefreshEnds
<1>11. ASSUME NEW to \in {"stale", "none"}, PageAges(k, to) PROVE RefreshInv'
  <2>1. U' = U /\ B' = B /\ \A j \in Pages : One3(j)' = One3(j)
    BY <1>11 DEF PageAges, Running, Busy, U, B, One3
  <2>2. page' \in [Pages -> {"none", "fresh", "stale"}]
    BY <1>1, <1>11 DEF PageAges
  <2> QED
    BY <1>1, <1>2, <1>5, <1>11, <2>1, <2>2 DEF PageAges
<1> QED
  BY <1>8, <1>9, <1>10, <1>11

\* Nothing is guarded or counted at the start.
LEMMA RefreshInitInv == RefreshInit => RefreshInv
<1> SUFFICES ASSUME RefreshInit PROVE RefreshInv
  OBVIOUS
<1>1. /\ \A k \in Pages : PastGuard(k) = {}
      /\ Counted = {} /\ Rechecking = {} /\ Running = {} /\ Busy = {}
  BY DEF RefreshInit, PastGuard, Counted, Rechecking, Running, Busy, Guarded
<1>2. Cardinality({}) = 0 /\ MaxRefreshes \in Nat
  BY FS_EmptySet, PageRefreshAssumption DEF PageRefreshAssumption
<1>3. GuardHeldByOne /\ RefreshesBelowCap
  <2>1. \A k \in Pages : /\ Cardinality(PastGuard(k)) = 0 /\ k \notin revalidating
                         /\ refresh[k].run = 0 /\ refresh[k].uncount = 0 /\ refresh[k].unmark = 0
    BY <1>1, <1>2 DEF RefreshInit
  <2>2. \A k \in Pages : Cardinality(PastGuard(k)) + refresh[k].run + refresh[k].uncount + refresh[k].unmark
                            = IF k \in revalidating THEN 1 ELSE 0
    BY <2>1
  <2> QED
    BY <1>1, <1>2, <2>2, GuardCounts DEF RefreshInit, RefreshesBelowCap
<1>4. RefreshTypeOK
  <2>1. Cardinality(Readers) \in Nat /\ Cardinality(Pages) \in Nat
    BY FS_CardinalityType, PageRefreshAssumption DEF PageRefreshAssumption
  <2> QED
    BY <2>1 DEF RefreshInit, RefreshTypeOK
<1> QED
  BY <1>3, <1>4 DEF RefreshInv

\* The invariant of the page refreshes holds throughout.
THEOREM RefreshInvariant == RefreshSpec => []RefreshInv
<1>1. RefreshInv /\ [RefreshNext]_refreshVars => RefreshInv'
  <2> SUFFICES ASSUME RefreshInv, [RefreshNext]_refreshVars PROVE RefreshInv'
    OBVIOUS
  <2>1. CASE UNCHANGED refreshVars
    BY <2>1 DEF refreshVars, RefreshInv, RefreshTypeOK, GuardHeldByOne, Holders, RefreshesBelowCap,
                Rechecking, Running, PageOf
  <2> QED
    BY <2>1, ReaderStepInv, GoroutineStepInv DEF RefreshNext
<1> QED
  BY <1>1, RefreshInitInv, PTL DEF RefreshSpec

\* The guard of a page is held by exactly one request or goroutine while it is
\* set, revalActive counts its holders, and the cap on refreshes is kept.
THEOREM GuardExact == RefreshSpec => []GuardHeldByOne
  BY RefreshInvariant, PTL DEF RefreshInv
=============================================================================
