----------------------------- MODULE ProxyPools -----------------------------
(***************************************************************************)
(* The upstream pool of one proxy domain and its health checker, over the  *)
(* rebuilds that every reload and every domain change make                 *)
(* (rebuildProxyPools), which no lock serialises.  Pool n is the n-th      *)
(* built, and checker n the one started on it.                             *)
(*                                                                         *)
(* failures and successes only meet >= threshold and >= rise, so they      *)
(* saturate there.  Nothing in the server drains a backend, so the state   *)
(* StateDraining is left out.                                              *)
(***************************************************************************)
EXTENDS Naturals, FiniteSets

CONSTANTS
  Backends,    \* upstream URLs of the domain
  Rebuilders,  \* goroutines that may be in rebuildProxyPools
  Threshold,   \* consecutive failures before unhealthy
  Rise,        \* consecutive successes before healthy
  MaxPools,    \* bound: pools built
  MaxFlips     \* bound: changes of a backend between up and down

ASSUME PoolsAssumption ==
  /\ Threshold \in Nat \ {0} /\ Rise \in Nat \ {0}
  /\ MaxPools \in Nat \ {0} /\ MaxFlips \in Nat

Pools == 1..MaxPools

VARIABLES
  built,      \* pools built so far
  livePool,   \* s.proxyPools and s.proxyHealthChks: the pool requests use
  state,      \* Backend.State, by pool and backend
  failures,   \* hc.failures, saturating
  successes,  \* hc.successes, saturating
  stopped,    \* checkers whose generation Stop has moved on
  loop,       \* the checker's goroutine
  probing,    \* by pool, the backends with a probe in flight
  rebuild,    \* where each rebuilder is, the pool it built and the one it retires
  up,         \* external: the backends that answer
  flips       \* counts against MaxFlips

checks == <<failures, successes, probing>>
poolsVars == <<built, livePool, state, checks, stopped, loop, rebuild, up, flips>>

NoRebuild == [at |-> "idle", from |-> 0, mine |-> 0]

PoolsTypeOK ==
  /\ built \in Pools /\ livePool \in 1..built
  /\ state \in [Pools -> [Backends -> {"healthy", "unhealthy"}]]
  /\ failures \in [Pools -> [Backends -> 0..Threshold]]
  /\ successes \in [Pools -> [Backends -> 0..Rise]]
  /\ \A n \in Pools, b \in Backends : failures[n][b] = 0 \/ successes[n][b] = 0
  /\ stopped \subseteq 1..built
  /\ loop \in [Pools -> {"none", "run", "exited"}]
  /\ probing \in [Pools -> SUBSET Backends]
  /\ rebuild \in [Rebuilders -> [at : {"idle", "carry", "swap", "stop"},
                                 from : 0..built, mine : 0..built]]
  /\ up \subseteq Backends /\ flips \in 0..MaxFlips

Zero == [b \in Backends |-> 0]

PoolsInit ==
  /\ built = 1 /\ livePool = 1
  /\ state = [n \in Pools |-> [b \in Backends |-> "healthy"]]
  /\ failures = [n \in Pools |-> Zero] /\ successes = [n \in Pools |-> Zero]
  /\ stopped = {} /\ loop = [n \in Pools |-> IF n = 1 THEN "run" ELSE "none"]
  /\ probing = [n \in Pools |-> {}]
  /\ rebuild = [r \in Rebuilders |-> NoRebuild]
  /\ up \in SUBSET Backends /\ flips = 0

-----------------------------------------------------------------------------
(* The health checker *)

\* A tick: checkAllGeneration probes every backend; the next round waits for
\* this one.  A stopped goroutine may find a tick and Done ready together and
\* take the tick.
CheckAll(n) ==
  /\ loop[n] = "run" /\ probing[n] = {}
  /\ probing' = [probing EXCEPT ![n] = Backends]
  /\ UNCHANGED <<built, livePool, state, failures, successes, stopped, loop, rebuild, up, flips>>

RecordSuccess(n, b) ==
  LET count == IF successes[n][b] < Rise THEN successes[n][b] + 1 ELSE Rise
  IN  /\ failures' = [failures EXCEPT ![n][b] = 0]
      /\ successes' = [successes EXCEPT ![n][b] = count]
      /\ state' = [state EXCEPT ![n][b] = IF count >= Rise THEN "healthy" ELSE @]

RecordFailure(n, b) ==
  LET count == IF failures[n][b] < Threshold THEN failures[n][b] + 1 ELSE Threshold
  IN  /\ successes' = [successes EXCEPT ![n][b] = 0]
      /\ failures' = [failures EXCEPT ![n][b] = count]
      /\ state' = [state EXCEPT ![n][b] = IF count >= Threshold THEN "unhealthy" ELSE @]

\* checkOneGeneration returns: the result of a stopped checker is dropped.
CheckOne(n, b) ==
  /\ b \in probing[n]
  /\ probing' = [probing EXCEPT ![n] = @ \ {b}]
  /\ \/ n \in stopped /\ UNCHANGED <<state, failures, successes>>
     \/ n \notin stopped /\ b \in up /\ RecordSuccess(n, b)
     \/ n \notin stopped /\ b \notin up /\ RecordFailure(n, b)
  /\ UNCHANGED <<built, livePool, stopped, loop, rebuild, up, flips>>

\* The goroutine sees Done, between two rounds.
ExitLoop(n) ==
  /\ loop[n] = "run" /\ probing[n] = {} /\ n \in stopped
  /\ loop' = [loop EXCEPT ![n] = "exited"]
  /\ UNCHANGED <<built, livePool, state, checks, stopped, rebuild, up, flips>>

-----------------------------------------------------------------------------
(* rebuildProxyPools *)

\* Reads the maps it is going to replace.
ReadOld(r) ==
  /\ rebuild[r].at = "idle"
  /\ rebuild' = [rebuild EXCEPT ![r] = [at |-> "carry", from |-> livePool, mine |-> 0]]
  /\ UNCHANGED <<built, livePool, state, checks, stopped, loop, up, flips>>

\* NewUpstreamPool, carryBackendState, and Start of a new checker.
BuildPool(r) ==
  LET n == built + 1
  IN  /\ rebuild[r].at = "carry" /\ n \in Pools
      /\ built' = n
      /\ state' = [state EXCEPT ![n] = state[rebuild[r].from]]
      /\ loop' = [loop EXCEPT ![n] = "run"]
      /\ rebuild' = [rebuild EXCEPT ![r].at = "swap", ![r].mine = n]
      /\ UNCHANGED <<livePool, checks, stopped, up, flips>>

\* Mutant: the checker to stop is the one read before the pool was built.
SwapStopsOld(r) ==
  /\ rebuild[r].at = "swap"
  /\ livePool' = rebuild[r].mine
  /\ rebuild' = [rebuild EXCEPT ![r].at = "stop"]
  /\ UNCHANGED <<built, state, checks, stopped, loop, up, flips>>

\* Mutant: the checker to stop is read after the swap.
SwapStopsNew(r) ==
  /\ rebuild[r].at = "swap"
  /\ livePool' = rebuild[r].mine
  /\ rebuild' = [rebuild EXCEPT ![r].at = "stop", ![r].from = rebuild[r].mine]
  /\ UNCHANGED <<built, state, checks, stopped, loop, up, flips>>

\* Under routeMu: remembers the checkers it replaces, to stop them later.
Swap(r) ==
  /\ rebuild[r].at = "swap"
  /\ livePool' = rebuild[r].mine
  /\ rebuild' = [rebuild EXCEPT ![r].at = "stop", ![r].from = livePool]
  /\ UNCHANGED <<built, state, checks, stopped, loop, up, flips>>

\* Stop: moves the generation on and forgets the counts.
StopOld(r) ==
  LET n == rebuild[r].from
  IN  /\ rebuild[r].at = "stop"
      /\ stopped' = stopped \cup {n}
      /\ failures' = [failures EXCEPT ![n] = Zero]
      /\ successes' = [successes EXCEPT ![n] = Zero]
      /\ rebuild' = [rebuild EXCEPT ![r] = NoRebuild]
      /\ UNCHANGED <<built, livePool, state, probing, loop, up, flips>>

-----------------------------------------------------------------------------
\* External: a backend goes down or comes back.
Flip(b) ==
  /\ flips < MaxFlips /\ flips' = flips + 1
  /\ up' = IF b \in up THEN up \ {b} ELSE up \cup {b}
  /\ UNCHANGED <<built, livePool, state, checks, stopped, loop, rebuild>>

RebuildStep(r) == BuildPool(r) \/ Swap(r) \/ StopOld(r)

PoolsNext ==
  \/ \E n \in Pools : CheckAll(n) \/ ExitLoop(n) \/ \E b \in Backends : CheckOne(n, b)
  \/ \E r \in Rebuilders : (built < MaxPools /\ ReadOld(r)) \/ RebuildStep(r)
  \/ \E b \in Backends : Flip(b)

\* Tickers tick, probes end (their client has a timeout), rebuilds go on.
PoolsFairness ==
  /\ \A n \in Pools : WF_poolsVars(CheckAll(n)) /\ \A b \in Backends : WF_poolsVars(CheckOne(n, b))
  /\ \A r \in Rebuilders : WF_poolsVars(RebuildStep(r))

PoolsSpec == PoolsInit /\ [][PoolsNext]_poolsVars /\ PoolsFairness

-----------------------------------------------------------------------------
(* Properties *)

\* "so we don't leak goroutines (and don't race two concurrent rebuilds)": when
\* no rebuild is under way, the checker of the live pool is the only one that
\* has not been stopped, whichever order the rebuilds swapped in; and "Stop
\* invalidates in-flight probes": one that was in flight when its checker was
\* stopped leaves no count behind, however late it ends.
OnlyLiveChecked ==
  /\ (\A r \in Rebuilders : rebuild[r].at \notin {"swap", "stop"}) => 1..built \ stopped = {livePool}
  /\ \A n \in stopped : failures[n] = Zero /\ successes[n] = Zero

\* A backend that stays down ends up excluded from the live pool, and one that
\* stays up ends up in it, through every rebuild.
VerdictsConverge ==
  \A b \in Backends :
    /\ <>[](b \notin up) => <>[](state[livePool][b] = "unhealthy")
    /\ <>[](b \in up) => <>[](state[livePool][b] = "healthy")
=============================================================================
