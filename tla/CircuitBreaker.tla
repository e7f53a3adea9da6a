--------------------------- MODULE CircuitBreaker ---------------------------
(***************************************************************************)
(* The per-domain circuit breaker of internal/handler/proxy/circuit.go, as *)
(* handleProxy (internal/server/server_dispatch.go) drives it: Allow, then *)
(* exactly one of RecordSuccess, RecordFailure and Abandon.                *)
(*                                                                         *)
(* The breaker takes no lock: its four fields are separate atomics.  Every *)
(* action below is therefore ONE atomic operation of the Go code (a Load,  *)
(* Store, Add or CompareAndSwap), and pc[r] is the place request r has     *)
(* reached.  time.Since(lastFailure) >= timeout is the Boolean cooled: the *)
(* stamp of a failure clears it, the passing of time (Tick) sets it.       *)
(***************************************************************************)
EXTENDS Naturals

CONSTANTS
  Requests,   \* the goroutines that serve requests of one domain
  Threshold   \* cb.threshold, as NewCircuitBreaker leaves it

ASSUME ThresholdAssumption == Threshold \in Nat \ {0}

VARIABLES
  state,      \* cb.state
  failures,   \* cb.failures
  probeSlot,  \* cb.probeSlot: 1 = the half-open probe is claimed
  cooled,     \* time.Since(cb.lastFailure) >= cb.timeout
  pc,         \* the next atomic operation of each request
  overlapped  \* history: some breaker call ran while another was half done

vars == <<state, failures, probeSlot, cooled, pc, overlapped>>

\* The labels between two atomic operations of one breaker call.
MidCall == {"allowSince", "allowCas", "allowZero", "allowReload", "allowProbe",
            "succClose", "succZero", "succSlot", "succReset",
            "failStamp", "failLoad", "failCount", "failOpen", "failSlot",
            "abandonSlot"}

Labels == {"idle", "running"} \cup MidCall

TypeOK ==
  /\ state \in {"Closed", "Open", "HalfOpen"}
  /\ failures \in Nat
  /\ probeSlot \in {0, 1}
  /\ cooled \in BOOLEAN
  /\ pc \in [Requests -> Labels]
  /\ overlapped \in BOOLEAN

\* NewCircuitBreaker: zero values; lastFailure = 0 is long ago.
Init ==
  /\ state = "Closed"
  /\ failures = 0
  /\ probeSlot = 0
  /\ cooled = TRUE
  /\ pc = [r \in Requests |-> "idle"]
  /\ overlapped = FALSE

\* Request r executes the operation at label from and continues at label to.
Step(r, from, to) ==
  /\ pc[r] = from
  /\ pc' = [pc EXCEPT ![r] = to]
  /\ overlapped' = (overlapped \/ \E q \in Requests \ {r} : pc[q] \in MidCall)

-----------------------------------------------------------------------------
(* Allow: a request enters handleProxy; one the breaker refuses gets a 503  *)
(* and is idle again, one it admits is running.                             *)

AllowLoad(r) ==
  /\ Step(r, "idle", CASE state = "Closed"   -> "running"
                       [] state = "Open"     -> "allowSince"
                       [] state = "HalfOpen" -> "allowProbe")
  /\ UNCHANGED <<state, failures, probeSlot, cooled>>

AllowSince(r) ==
  /\ Step(r, "allowSince", IF cooled THEN "allowCas" ELSE "idle")
  /\ UNCHANGED <<state, failures, probeSlot, cooled>>

AllowCas(r) ==
  /\ \/ state = "Open" /\ state' = "HalfOpen" /\ Step(r, "allowCas", "allowZero")
     \/ state # "Open" /\ state' = state /\ Step(r, "allowCas", "allowReload")
  /\ UNCHANGED <<failures, probeSlot, cooled>>

AllowZero(r) ==
  /\ Step(r, "allowZero", "allowProbe")
  /\ failures' = 0
  /\ UNCHANGED <<state, probeSlot, cooled>>

AllowReload(r) ==
  /\ Step(r, "allowReload", IF state = "HalfOpen" THEN "allowProbe" ELSE "idle")
  /\ UNCHANGED <<state, failures, probeSlot, cooled>>

\* Mutant: the claim counts callers instead of swapping 0 for 1.
AllowProbeAdd(r) ==
  /\ Step(r, "allowProbe", IF probeSlot = 0 THEN "running" ELSE "idle")
  /\ probeSlot' = probeSlot + 1
  /\ UNCHANGED <<state, failures, cooled>>

\* probeSlot.CompareAndSwap(0, 1), in Allow and in allowHalfOpenProbe alike.
AllowProbe(r) ==
  /\ Step(r, "allowProbe", IF probeSlot = 0 THEN "running" ELSE "idle")
  /\ probeSlot' = 1
  /\ UNCHANGED <<state, failures, cooled>>

-----------------------------------------------------------------------------
(* RecordSuccess: the response was below 500.                               *)

SuccLoad(r) ==
  /\ Step(r, "running", IF state = "HalfOpen" THEN "succClose" ELSE "succReset")
  /\ UNCHANGED <<state, failures, probeSlot, cooled>>

SuccClose(r) ==
  /\ Step(r, "succClose", "succZero")
  /\ state' = "Closed"
  /\ UNCHANGED <<failures, probeSlot, cooled>>

SuccZero(r) ==
  /\ Step(r, "succZero", "succSlot")
  /\ failures' = 0
  /\ UNCHANGED <<state, probeSlot, cooled>>

SuccSlot(r) ==
  /\ Step(r, "succSlot", "idle")
  /\ probeSlot' = 0
  /\ UNCHANGED <<state, failures, cooled>>

SuccReset(r) ==
  /\ Step(r, "succReset", "idle")
  /\ failures' = 0
  /\ UNCHANGED <<state, probeSlot, cooled>>

-----------------------------------------------------------------------------
(* RecordFailure: the response was 500 or above.                            *)

FailAdd(r) ==
  /\ Step(r, "running", "failStamp")
  /\ failures' = failures + 1
  /\ UNCHANGED <<state, probeSlot, cooled>>

FailStamp(r) ==
  /\ Step(r, "failStamp", "failLoad")
  /\ cooled' = FALSE
  /\ UNCHANGED <<state, failures, probeSlot>>

\* Mutant: a failed probe is judged by the threshold like any other failure.
FailLoadThresholdOnly(r) ==
  /\ Step(r, "failLoad", "failCount")
  /\ UNCHANGED <<state, failures, probeSlot, cooled>>

FailLoad(r) ==
  /\ Step(r, "failLoad", IF state = "HalfOpen" THEN "failOpen" ELSE "failCount")
  /\ UNCHANGED <<state, failures, probeSlot, cooled>>

\* Mutant: an off-by-one in the comparison with the threshold.
FailCountStrict(r) ==
  /\ Step(r, "failCount", IF failures > Threshold THEN "failOpen" ELSE "idle")
  /\ UNCHANGED <<state, failures, probeSlot, cooled>>

FailCount(r) ==
  /\ Step(r, "failCount", IF failures >= Threshold THEN "failOpen" ELSE "idle")
  /\ UNCHANGED <<state, failures, probeSlot, cooled>>

FailOpen(r) ==
  /\ Step(r, "failOpen", "failSlot")
  /\ state' = "Open"
  /\ UNCHANGED <<failures, probeSlot, cooled>>

FailSlot(r) ==
  /\ Step(r, "failSlot", "idle")
  /\ probeSlot' = 0
  /\ UNCHANGED <<state, failures, cooled>>

-----------------------------------------------------------------------------
(* Abandon: handleProxy's deferred call, when no outcome was recorded.      *)

\* Mutant: a request that leaves without an outcome keeps the slot.
AbandonKeepsSlot(r) ==
  /\ Step(r, "running", "idle")
  /\ UNCHANGED <<state, failures, probeSlot, cooled>>

AbandonLoad(r) ==
  /\ Step(r, "running", IF state = "HalfOpen" THEN "abandonSlot" ELSE "idle")
  /\ UNCHANGED <<state, failures, probeSlot, cooled>>

AbandonSlot(r) ==
  /\ Step(r, "abandonSlot", "idle")
  /\ probeSlot' = 0
  /\ UNCHANGED <<state, failures, cooled>>

\* The timeout elapses since the last stamped failure.
Tick ==
  /\ ~cooled
  /\ cooled' = TRUE
  /\ UNCHANGED <<state, failures, probeSlot, pc, overlapped>>

-----------------------------------------------------------------------------
Arrive(r) == AllowLoad(r)

\* What an admitted or half-entered request does next, to the end of its call.
Proceed(r) ==
  \/ AllowSince(r) \/ AllowCas(r) \/ AllowZero(r) \/ AllowReload(r) \/ AllowProbe(r)
  \/ SuccLoad(r) \/ SuccClose(r) \/ SuccZero(r) \/ SuccSlot(r) \/ SuccReset(r)
  \/ FailAdd(r) \/ FailStamp(r) \/ FailLoad(r) \/ FailCount(r) \/ FailOpen(r) \/ FailSlot(r)
  \/ AbandonLoad(r) \/ AbandonSlot(r)

Next == Tick \/ \E r \in Requests : Arrive(r) \/ Proceed(r)

\* Goroutines run, requests end (the proxy has timeouts) and time passes; no
\* request need ever arrive.
Fairness == WF_vars(Tick) /\ \A r \in Requests : WF_vars(Proceed(r))

Spec == Init /\ [][Next]_vars /\ Fairness

-----------------------------------------------------------------------------
(* Properties *)

\* The labels at which a request still owes the closed breaker a trip or a reset.
Owing == {"failStamp", "failLoad", "failCount", "failOpen", "succZero"}

\* A closed breaker never sits on Threshold failures: however the calls
\* interleave, some request is still on its way to open the breaker or to zero
\* the counter (RecordFailure's Add, Load, Load, Store against RecordSuccess's
\* Load, Store, Store and Allow's CAS).
NoMissedTrip ==
  state = "Closed" /\ failures >= Threshold => \E r \in Requests : pc[r] \in Owing

Quiescent == \A r \in Requests : pc[r] = "idle"

\* The wedge RecordFailure's and Abandon's comments describe: half-open, the
\* probe slot claimed, and nobody left to give it back.
Wedged == Quiescent /\ state = "HalfOpen" /\ probeSlot = 1

\* "Left claimed, the slot made every later Allow() lose its CAS and the domain
\* answered 503 forever": with no request in flight the slot is not left claimed.
NeverWedged == ~Wedged

\* The same, of every history in which no breaker call ran inside another.
NotWedgedWithoutOverlap == ~overlapped => ~Wedged

\* Allow would admit a request that arrives now.
WouldAdmit ==
  \/ state = "Closed"
  \/ state = "Open" /\ cooled
  \/ state = "HalfOpen" /\ probeSlot = 0

\* The domain does not answer 503 forever: while breaker calls do not overlap,
\* the breaker is again and again in a state that admits a request.
RecoversWithoutOverlap == []<>(overlapped \/ WouldAdmit)
=============================================================================
