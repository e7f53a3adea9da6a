--------------------------- MODULE LocationLimits ---------------------------
(***************************************************************************)
(* The per-location rate limit of handleRequest: one counter per domain,   *)
(* location and client in s.locationLimiters, and the janitor that evicts  *)
(* idle ones.  The module follows one key of the map.  A request looks the *)
(* counter up and locks it in two steps; the janitor examines a counter    *)
(* under its lock and deletes the key after it let go of it.               *)
(***************************************************************************)
EXTENDS Naturals, FiniteSets

CONSTANTS Hits,         \* concurrent requests of the client
          HitLimit,     \* locations[].rate_limit.requests
          MaxCounters   \* bound: counters created

ASSUME LocationLimitsAssumption == HitLimit \in Nat \ {0} /\ MaxCounters \in Nat

VARIABLES key,       \* counter s.locationLimiters has for the key, 0 when absent
          counters,  \* counters created
          counter,   \* counter -> [n, age]
          hit,       \* request -> [pc, on]
          janitor,   \* the counter it found idle and is about to delete, or 0
          touched,   \* history: a request took that counter, then or since
          raced      \* history: counters deleted although touched

limitVars == <<key, counters, counter, hit, janitor, touched, raced>>

Counters == 1..MaxCounters

\* live: its window is running.  over: the window ended.  idle: nobody used
\* it for idleTTL either.  The code's third threshold, ten windows, restarts
\* the count just as the end of the window does.
Ages == {"live", "over", "idle"}

LimitInit ==
    /\ key = 0 /\ counters = 0
    /\ counter = [c \in Counters |-> [n |-> 0, age |-> "over"]]
    /\ hit = [h \in Hits |-> [pc |-> "rest", on |-> 0]]
    /\ janitor = 0 /\ touched = FALSE
    /\ raced = {}

-----------------------------------------------------------------------------
(* A request *)

\* Load, or LoadOrStore with a new counter
FindCounter(h) ==
    /\ hit[h].pc = "rest"
    /\ IF key # 0 THEN UNCHANGED <<key, counters>>
       ELSE counters < MaxCounters /\ counters' = counters + 1 /\ key' = counters + 1
    /\ hit' = [hit EXCEPT ![h] = [pc |-> "count", on |-> key']]
    /\ touched' = (touched \/ janitor # 0)
    /\ UNCHANGED <<counter, janitor, raced>>

\* Under entry.mu: a window that ended starts over with this request.  The
\* request over the limit is counted too, and answered 429.
CountHit(h) ==
    LET c == hit[h].on
        n == (IF counter[c].age = "live" THEN counter[c].n ELSE 0) + 1
    IN /\ hit[h].pc = "count"
       /\ counter' = [counter EXCEPT ![c] = [n |-> IF n > HitLimit THEN HitLimit + 1 ELSE n,
                                             age |-> "live"]]
       /\ hit' = [hit EXCEPT ![h] = [pc |-> "rest", on |-> 0]]
       /\ UNCHANGED <<key, counters, janitor, touched, raced>>

CounterAges(c, age) ==
    /\ <<counter[c].age, age>> \in {<<"live", "over">>, <<"over", "idle">>}
    /\ c <= counters
    /\ counter' = [counter EXCEPT ![c].age = age]
    /\ UNCHANGED <<key, counters, hit, janitor, touched, raced>>

-----------------------------------------------------------------------------
(* sweepLocationLimiters *)

\* Mutant: a counter goes once nobody used it for a while, its window over or not.
SweepChecksUse ==
    /\ janitor = 0 /\ key # 0
    /\ counter[key].n > 0
    /\ janitor' = key
    /\ touched' = \E h \in Hits : hit[h].on = key
    /\ UNCHANGED <<key, counters, counter, hit, raced>>

SweepChecks ==
    /\ janitor = 0 /\ key # 0
    /\ counter[key].age = "idle"
    /\ janitor' = key
    /\ touched' = \E h \in Hits : hit[h].on = key
    /\ UNCHANGED <<key, counters, counter, hit, raced>>

\* Delete(key): only the janitor deletes, so it is still the same counter.
SweepDeletes ==
    /\ janitor # 0
    /\ key' = 0
    /\ raced' = IF touched THEN raced \cup {janitor} ELSE raced
    /\ janitor' = 0 /\ touched' = FALSE
    /\ UNCHANGED <<counters, counter, hit>>

-----------------------------------------------------------------------------
LimitNext ==
    \/ \E h \in Hits : FindCounter(h) \/ CountHit(h)
    \/ \E c \in Counters, age \in Ages : CounterAges(c, age)
    \/ SweepChecks \/ SweepDeletes

LimitSpec == LimitInit /\ [][LimitNext]_limitVars

-----------------------------------------------------------------------------
(* Properties *)

LimitTypeOK ==
    /\ key \in 0..counters /\ counters \in 0..MaxCounters
    /\ counter \in [Counters -> [n : 0..(HitLimit + 1), age : Ages]]
    /\ hit \in [Hits -> [pc : {"rest", "count"}, on : 0..counters]]
    /\ janitor \in {0, key} /\ touched \in BOOLEAN /\ raced \in SUBSET Counters

\* A client has one running count per location: a counter that runs is the
\* one the map has, so the janitor never hands out a fresh quota in the
\* middle of a window.  The exception is a counter that a request took, or
\* brought back to life, between the janitor's look at it and its delete.
OneRunningCount ==
    \A c \in Counters : (counter[c].age = "live" /\ c \notin raced) => c = key
=============================================================================
