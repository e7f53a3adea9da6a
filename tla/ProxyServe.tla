----------------------------- MODULE ProxyServe -----------------------------
(***************************************************************************)
(* handler/proxy: the request path of a proxied domain.  Serve tries one   *)
(* backend after another, the WebSocket path tunnels to one, and the       *)
(* canary router sends a share of the requests to its own pool.  Requests  *)
(* run concurrently; the health checker (ProxyPools) changes `healthy'     *)
(* under them.                                                             *)
(***************************************************************************)
EXTENDS Naturals, FiniteSets

CONSTANTS Requests,
          Primary, Canary,  \* backends of the two pools
          MaxRetries        \* domain.Proxy.MaxRetries (2 when unset)

ASSUME ProxyServeAssumption ==
    /\ Primary \cap Canary = {} /\ Primary # {} /\ MaxRetries \in Nat
    /\ IsFiniteSet(Requests) /\ IsFiniteSet(Primary) /\ IsFiniteSet(Canary)
    /\ "none" \notin Primary \cup Canary

VARIABLES healthy,   \* backends in StateHealthy
          conns,     \* ActiveConns
          req,       \* the request being served in each slot
          reached    \* history: backends that may have acted on the request

serveVars == <<healthy, conns, req, reached>>

Backends  == Primary \cup Canary
NoBackend == "none"

\* replay: an idempotent method or an idempotency key.  stream: a body of
\* unknown or large size, passed on while it is read.  once: neither.
Kinds == {"once", "replay", "stream", "ws"}

NewReq   == [pc |-> "new"]
DoneReq  == [pc |-> "done"]
Serving  == [pc : {"select", "dial", "sent", "body", "tunnel"}, kind : Kinds,
             pool : SUBSET Backends, tried : SUBSET Backends, at : Backends \cup {NoBackend}]

ServeInit ==
    /\ healthy = Backends
    /\ conns = [b \in Backends |-> 0]
    /\ req = [r \in Requests |-> NewReq]
    /\ reached = [r \in Requests |-> {}]

-----------------------------------------------------------------------------
(* Helpers *)

\* The pool a request is served from: an empty canary falls back to the primary.
PoolFor(canary) == IF canary /\ healthy \cap Canary # {} THEN healthy \cap Canary
                   ELSE healthy \cap Primary

\* Every attempt needs an untried backend; a streamed body cannot be sent twice.
RetriesFor(k, pool) ==
    IF k \in {"stream", "ws"} THEN 0
    ELSE IF MaxRetries > Cardinality(pool) - 1 THEN Cardinality(pool) - 1
    ELSE MaxRetries

Opened(b) == conns' = [conns EXCEPT ![b] = @ + 1]
Closed(b) == conns' = [conns EXCEPT ![b] = @ - 1]

\* The response is written; the history of an answered request is dropped.
Answer(r) ==
    /\ req' = [req EXCEPT ![r] = DoneReq]
    /\ reached' = [reached EXCEPT ![r] = {}]
Retry(r) ==
    /\ req' = [req EXCEPT ![r].pc = "select", ![r].at = NoBackend]
    /\ UNCHANGED reached
RetriesLeft(r) == Cardinality(req[r].tried) <= RetriesFor(req[r].kind, req[r].pool)

\* Mutant: any connection error is retried.
CanReplayAlways(r) == TRUE

\* canReplayRequest, for an error after the connection was made
CanReplay(r) == req[r].kind = "replay"

-----------------------------------------------------------------------------
(* Actions *)

Arrive(r, k, canary) ==
    /\ req[r] = NewReq
    /\ IF PoolFor(canary) = {}
       THEN Answer(r)                                       \* 502, no healthy upstreams
       ELSE /\ req' = [req EXCEPT ![r] = [pc |-> "select", kind |-> k, pool |-> PoolFor(canary),
                                         tried |-> {}, at |-> NoBackend]]
            /\ UNCHANGED reached
    /\ UNCHANGED <<healthy, conns>>

\* The balancer picks at first: between them the algorithms may pick any.  A
\* retry takes an untried backend of the pool as it was on arrival.
PickBackend(r, b) ==
    /\ req[r].pc = "select"
    /\ b \in req[r].pool \ req[r].tried
    /\ req' = [req EXCEPT ![r].pc = "dial", ![r].at = b, ![r].tried = @ \cup {b}]
    /\ Opened(b)
    /\ UNCHANGED <<healthy, reached>>

\* The safety check refuses the upstream (403), or the request cannot be built.
Refuse(r) ==
    /\ req[r].pc = "dial"
    /\ Closed(req[r].at) /\ Answer(r)
    /\ UNCHANGED healthy

\* RoundTrip fails before a connection is made: the request never left.
DialFails(r) ==
    /\ req[r].pc = "dial" /\ req[r].kind # "ws"
    /\ Closed(req[r].at)
    /\ IF RetriesLeft(r) THEN Retry(r) ELSE Answer(r)
    /\ UNCHANGED healthy

\* The backend has the request, or a part of it.
RequestSent(r) ==
    /\ req[r].pc = "dial"
    /\ req' = [req EXCEPT ![r].pc = IF req[r].kind = "ws" THEN "tunnel" ELSE "sent"]
    /\ reached' = [reached EXCEPT ![r] = @ \cup {req[r].at}]
    /\ UNCHANGED <<healthy, conns>>

\* Mutant: the decrement is left to the end of the loop.
RoundTripFailsHeld(r) ==
    /\ req[r].pc = "sent"
    /\ IF RetriesLeft(r) /\ CanReplay(r) THEN Retry(r) /\ UNCHANGED conns
       ELSE Answer(r) /\ Closed(req[r].at)
    /\ UNCHANGED healthy

\* A connection error after that: retried only when the request may be replayed.
RoundTripFails(r) ==
    /\ req[r].pc = "sent"
    /\ Closed(req[r].at)
    /\ IF RetriesLeft(r) /\ CanReplay(r) THEN Retry(r) ELSE Answer(r)
    /\ UNCHANGED healthy

\* A timeout (504), a client that left, or an error not worth a retry (502).
GiveUp(r) ==
    /\ req[r].pc \in {"dial", "sent"} /\ req[r].kind # "ws"
    /\ Closed(req[r].at) /\ Answer(r)
    /\ UNCHANGED healthy

\* Headers are passed on; from here nothing is retried.
ResponseHeaders(r) ==
    /\ req[r].pc = "sent"
    /\ req' = [req EXCEPT ![r].pc = "body"]
    /\ UNCHANGED <<healthy, conns, reached>>

\* The body ends, is cut off, or the tunnel closes; a tunnel whose dial or
\* upgrade fails ends the same way (the deferred decrement).
Finish(r) ==
    /\ req[r].pc \in {"body", "tunnel"} \/ (req[r].pc = "dial" /\ req[r].kind = "ws")
    /\ Closed(req[r].at) /\ Answer(r)
    /\ UNCHANGED healthy

\* The health checker marks a backend of the primary pool.
HealthChange(b) ==
    /\ b \in Primary
    /\ healthy' = IF b \in healthy THEN healthy \ {b} ELSE healthy \cup {b}
    /\ UNCHANGED <<conns, req, reached>>

ServeStep(r) ==
    \/ \E b \in Backends : PickBackend(r, b)
    \/ Refuse(r) \/ DialFails(r) \/ RequestSent(r) \/ RoundTripFails(r)
    \/ GiveUp(r) \/ ResponseHeaders(r) \/ Finish(r)

ServeNext ==
    \/ \E r \in Requests : \/ \E k \in Kinds, canary \in BOOLEAN : Arrive(r, k, canary)
                           \/ ServeStep(r)
    \/ \E b \in Primary : HealthChange(b)

ServeSpec == ServeInit /\ [][ServeNext]_serveVars

-----------------------------------------------------------------------------
(* Properties *)

ServeTypeOK ==
    /\ healthy \subseteq Backends
    /\ conns \in [Backends -> Nat]
    /\ req \in [Requests -> {NewReq, DoneReq} \cup Serving]
    /\ reached \in [Requests -> SUBSET Backends]

\* A request that is neither idempotent nor keyed reaches at most one backend,
\* whatever fails and however the pool changes meanwhile, and a streamed body
\* is never sent a second time (canReplayRequest, handler.go:544; maxRetries = 0,
\* handler.go:223).
SentAtMostOnce ==
    \A r \in Requests :
        req[r] \in Serving =>
            /\ Cardinality(reached[r]) > 1 => req[r].kind = "replay"
            /\ req[r].kind = "stream" => Cardinality(req[r].tried) <= 1

\* ActiveConns of a backend is the number of requests and tunnels it carries,
\* on every path through the retries: least_conn would starve a backend for
\* ever over one missed decrement (handler.go:264-508).
ConnsMatchLoad ==
    \A b \in Backends :
        conns[b] = Cardinality({r \in Requests : req[r] \in Serving /\ req[r].at = b})
=============================================================================
