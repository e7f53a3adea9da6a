---------------------------- MODULE UptimeMonitor ----------------------------
(***************************************************************************)
(* internal/monitor: sweeps probe the configured domains, several at once, *)
(* while reloads add and remove domains under them.  A domain removed and  *)
(* added again is another domain of the same name: `life' tells them       *)
(* apart.  The uptime percentages and the kept checks are left out.        *)
(***************************************************************************)
EXTENDS Naturals, FiniteSets

CONSTANTS Sites,            \* host names
          CheckConcurrency, \* checkConcurrency
          FailThreshold,    \* failThreshold
          MaxUpdates        \* bound: UpdateDomains calls

ASSUME UptimeMonitorAssumption ==
    CheckConcurrency \in Nat \ {0} /\ FailThreshold \in Nat \ {0} /\ MaxUpdates \in Nat

VARIABLES monitored,  \* m.hosts
          gen,        \* m.gen
          hostGen,    \* m.hostGeneration, 0 when absent
          life,       \* history: how often each host was added
          results,    \* host -> [status, fails, lives]; status "none": no result
          sweep,      \* snapshot of the sweep under way: [todo, gen]
          probe       \* host -> [pc, gen, life]: the probe in flight, its snapshot

uptimeVars == <<monitored, gen, hostGen, life, results, sweep, probe>>

NoResult == [status |-> "none", fails |-> 0, lives |-> {}]
NoProbe  == [pc |-> "none", gen |-> 0, life |-> 0]
Probing  == {h \in Sites : probe[h].pc # "none"}

UptimeInit ==
    /\ monitored \in SUBSET Sites
    /\ gen = 0 /\ hostGen = [h \in Sites |-> 0]
    /\ life = [h \in Sites |-> 0]
    /\ results = [h \in Sites |-> NoResult]
    /\ sweep = [todo |-> {}, gen |-> 0]
    /\ probe = [h \in Sites |-> NoProbe]

-----------------------------------------------------------------------------
\* UpdateDomains, under domainsMu and resultsMu
UpdateMonitored(new) ==
    /\ gen < MaxUpdates
    /\ gen' = gen + 1
    /\ hostGen' = [h \in Sites |-> IF h \notin new THEN 0
                                 ELSE IF h \notin monitored THEN gen + 1 ELSE hostGen[h]]
    /\ life' = [h \in Sites |-> IF h \in new \ monitored THEN life[h] + 1 ELSE life[h]]
    /\ monitored' = new
    /\ results' = [h \in Sites |-> IF h \in new THEN results[h] ELSE NoResult]
    /\ UNCHANGED <<sweep, probe>>

\* Start runs a sweep at once and then on every tick; a sweep waits for all
\* of its probes, so two never overlap.  Each remembers its domains and the
\* generation they are of.
StartSweep ==
    /\ sweep.todo = {} /\ Probing = {}
    /\ sweep' = [todo |-> monitored, gen |-> gen]
    /\ UNCHANGED <<monitored, gen, hostGen, life, results, probe>>

\* The generation is the snapshot's; the domain that answers is the one of
\* that name when the probe is sent.
StartProbe(h) ==
    /\ h \in sweep.todo
    /\ Cardinality(Probing) < CheckConcurrency
    /\ probe' = [probe EXCEPT ![h] = [pc |-> "asked", gen |-> sweep.gen, life |-> life[h]]]
    /\ sweep' = [sweep EXCEPT !.todo = @ \ {h}]
    /\ UNCHANGED <<monitored, gen, hostGen, life, results>>

\* Shutdown, or an address that is never probed
SkipProbe(h) ==
    /\ h \in sweep.todo
    /\ sweep' = [sweep EXCEPT !.todo = @ \ {h}]
    /\ UNCHANGED <<monitored, gen, hostGen, life, results, probe>>

\* Mutant: a probe that comes back is stored when its host is configured.
OutdatedIfGone(h) == h \notin monitored

\* A check whose host was removed, or added again, since the sweep began
Outdated(h) ==
    /\ gen # probe[h].gen
    /\ h \notin monitored \/ hostGen[h] > probe[h].gen

\* A bad check has to repeat before it changes the status, unless it is the first.
NewStatus(r, answer) ==
    IF answer = "up" \/ r.fails + 1 >= FailThreshold \/ r.status = "none" THEN answer ELSE r.status
NewFails(r, answer) ==
    IF answer = "up" THEN 0
    ELSE IF r.fails + 1 > FailThreshold THEN FailThreshold ELSE r.fails + 1

EndProbe(h, answer) ==
    /\ probe[h].pc = "asked"
    /\ IF Outdated(h) THEN UNCHANGED results
       ELSE results' = [results EXCEPT ![h] = [status |-> NewStatus(@, answer),
                                               fails  |-> NewFails(@, answer),
                                               lives  |-> @.lives \cup {probe[h].life}]]
    /\ probe' = [probe EXCEPT ![h] = NoProbe]
    /\ UNCHANGED <<monitored, gen, hostGen, life, sweep>>

-----------------------------------------------------------------------------
UptimeNext ==
    \/ \E new \in SUBSET Sites : UpdateMonitored(new)
    \/ StartSweep
    \/ \E h \in Sites :
          \/ StartProbe(h) \/ SkipProbe(h)
          \/ \E answer \in {"up", "degraded", "down"} : EndProbe(h, answer)

UptimeSpec == UptimeInit /\ [][UptimeNext]_uptimeVars

-----------------------------------------------------------------------------
(* Properties *)

UptimeTypeOK ==
    /\ monitored \in SUBSET Sites /\ gen \in 0..MaxUpdates
    /\ hostGen \in [Sites -> 0..MaxUpdates] /\ life \in [Sites -> 0..MaxUpdates]
    /\ results \in [Sites -> [status : {"none", "up", "degraded", "down"}, fails : 0..FailThreshold,
                              lives : SUBSET (0..MaxUpdates)]]
    /\ sweep \in [todo : SUBSET Sites, gen : 0..MaxUpdates]
    /\ probe \in [Sites -> [pc : {"none", "asked"}, gen : 0..MaxUpdates, life : 0..MaxUpdates]]

\* What is reported of a host comes from checks of the domain configured
\* under that name now: a probe still in flight when its domain is removed
\* does not bring the result back, nor pass it to a domain added later under
\* the same name, and a host no longer configured has no result.
ResultsOfThisDomain ==
    \A h \in Sites :
        /\ results[h].lives \subseteq {life[h]}
        /\ h \notin monitored => results[h] = NoResult
=============================================================================
