-------------------------- MODULE OperationsProofs --------------------------
(* Theorems about the uptime monitor, the firewall and the backups.          *)
EXTENDS UptimeMonitor, Firewall, Backups, FiniteSetTheorems, SequenceTheorems,
        WellFoundedInduction, TLAPS

\* A set of natural numbers has a least element.
LEMMA LeastExists ==
  ASSUME NEW S \in SUBSET Nat, S # {}
  PROVE  \E i \in S : \A j \in S : i <= j
<1> DEFINE R == OpToRel(<, Nat)
<1>1. \A x, y \in Nat : <<x, y>> \in R <=> x < y
  BY DEF OpToRel
<1>2. IsWellFoundedOn(R, Nat)
  BY NatLessThanWellFounded
<1> HIDE DEF R
<1>3. PICK i \in S : \A j \in S : ~(<<j, i>> \in R)
  BY <1>2, WFMin
<1>4. \A j \in S : ~(j < i)
  BY <1>1, <1>3
<1> QED
  BY <1>4

-----------------------------------------------------------------------------
(* UptimeMonitor *)

Statuses      == {"none", "up", "degraded", "down"}
ResultRecords == [status : Statuses, fails : 0..FailThreshold, lives : SUBSET (0..MaxUpdates)]
ProbeRecords  == [pc : {"none", "asked"}, gen : 0..MaxUpdates, life : 0..MaxUpdates]

\* Generations never run ahead of m.gen, nor are hosts added more often.
GenerationsSoFar ==
  /\ sweep.gen <= gen
  /\ \A h \in Sites : hostGen[h] <= gen /\ life[h] <= gen /\ probe[h].gen <= gen

\* A sweep of the current generation has configured hosts only.
SweepIsConfigured == sweep.gen = gen => sweep.todo \subseteq monitored

\* A probe that checkDomain would store is of the domain configured now.
StoredProbeIsCurrent ==
  \A h \in Sites :
    (probe[h].pc = "asked" /\ ~Outdated(h)) => h \in monitored /\ probe[h].life = life[h]

\* The inductive invariant of the monitor.
UptimeInv ==
  UptimeTypeOK /\ ResultsOfThisDomain /\ GenerationsSoFar /\ SweepIsConfigured /\ StoredProbeIsCurrent

\* The types, in the form the steps use.
LEMMA UptimeTypes ==
  /\ UptimeTypeOK <=>
       /\ monitored \in SUBSET Sites /\ gen \in 0..MaxUpdates
       /\ hostGen \in [Sites -> 0..MaxUpdates] /\ life \in [Sites -> 0..MaxUpdates]
       /\ results \in [Sites -> ResultRecords]
       /\ sweep \in [todo : SUBSET Sites, gen : 0..MaxUpdates] /\ probe \in [Sites -> ProbeRecords]
  /\ UptimeTypeOK' <=>
       /\ monitored' \in SUBSET Sites /\ gen' \in 0..MaxUpdates
       /\ hostGen' \in [Sites -> 0..MaxUpdates] /\ life' \in [Sites -> 0..MaxUpdates]
       /\ results' \in [Sites -> ResultRecords]
       /\ sweep' \in [todo : SUBSET Sites, gen : 0..MaxUpdates] /\ probe' \in [Sites -> ProbeRecords]
  BY DEF UptimeTypeOK, Statuses, ResultRecords, ProbeRecords

\* What the assumption says of the bounds.
LEMMA UptimeBounds == MaxUpdates \in Nat /\ FailThreshold \in Nat
  BY UptimeMonitorAssumption DEF UptimeMonitorAssumption

\* The records that stand for "nothing" are well typed.
LEMMA NothingTyped == NoResult \in ResultRecords /\ NoProbe \in ProbeRecords
<1>1. 0 \in 0..MaxUpdates /\ 0 \in 0..FailThreshold
  BY UptimeBounds
<1> QED
  BY <1>1 DEF NoResult, NoProbe, ResultRecords, ProbeRecords, Statuses

\* A reload keeps the invariant.
LEMMA UpdateMonitoredInv ==
  ASSUME UptimeInv, NEW new \in SUBSET Sites, UpdateMonitored(new)
  PROVE  UptimeInv'
<1>1. /\ monitored \in SUBSET Sites /\ gen \in 0..MaxUpdates
      /\ hostGen \in [Sites -> 0..MaxUpdates] /\ life \in [Sites -> 0..MaxUpdates]
      /\ results \in [Sites -> ResultRecords]
      /\ sweep \in [todo : SUBSET Sites, gen : 0..MaxUpdates] /\ probe \in [Sites -> ProbeRecords]
      /\ GenerationsSoFar /\ StoredProbeIsCurrent /\ ResultsOfThisDomain
  BY UptimeTypes DEF UptimeInv
<1>2. /\ gen < MaxUpdates /\ gen' = gen + 1 /\ monitored' = new
      /\ UNCHANGED <<sweep, probe>>
      /\ hostGen' = [h \in Sites |-> IF h \notin new THEN 0
                                     ELSE IF h \notin monitored THEN gen + 1 ELSE hostGen[h]]
      /\ life' = [h \in Sites |-> IF h \in new \ monitored THEN life[h] + 1 ELSE life[h]]
      /\ results' = [h \in Sites |-> IF h \in new THEN results[h] ELSE NoResult]
  BY DEF UpdateMonitored
<1>3. gen' \in 0..MaxUpdates
  BY <1>1, <1>2, UptimeBounds
<1>4. /\ hostGen' \in [Sites -> 0..MaxUpdates] /\ life' \in [Sites -> 0..MaxUpdates]
      /\ \A h \in Sites : hostGen'[h] <= gen' /\ life'[h] <= gen'
  BY <1>1, <1>2, UptimeBounds DEF GenerationsSoFar
<1>5. results' \in [Sites -> ResultRecords]
  BY <1>1, <1>2, NothingTyped
<1>6. UptimeTypeOK'
  BY <1>1, <1>2, <1>3, <1>4, <1>5, UptimeTypes
<1>7. GenerationsSoFar'
  BY <1>1, <1>2, <1>4, UptimeBounds DEF GenerationsSoFar, ProbeRecords
<1>8. SweepIsConfigured'
  BY <1>1, <1>2, UptimeBounds DEF SweepIsConfigured, GenerationsSoFar
<1>9. StoredProbeIsCurrent'
  <2> SUFFICES ASSUME NEW h \in Sites, probe[h].pc = "asked", ~Outdated(h)'
               PROVE  h \in new /\ probe[h].life = life'[h]
    BY <1>2 DEF StoredProbeIsCurrent
  <2>1. probe[h].gen \in Nat /\ probe[h].gen <= gen /\ gen \in Nat
    BY <1>1, UptimeBounds DEF GenerationsSoFar, ProbeRecords
  <2>2. gen' # probe[h].gen
    BY <1>2, <2>1
  <2>3. h \in new /\ ~(hostGen'[h] > probe[h].gen)
    BY <1>2, <2>2 DEF Outdated
  <2>4. h \in monitored
    BY <1>2, <2>1, <2>3
  <2>5. hostGen'[h] = hostGen[h] /\ life'[h] = life[h]
    BY <1>2, <2>3, <2>4
  <2>6. ~Outdated(h)
    BY <2>3, <2>4, <2>5 DEF Outdated
  <2> QED
    BY <1>1, <2>3, <2>5, <2>6 DEF StoredProbeIsCurrent
<1>10. ResultsOfThisDomain'
  <2> SUFFICES ASSUME NEW h \in Sites
               PROVE  results'[h].lives \subseteq {life'[h]} /\ (h \notin new => results'[h] = NoResult)
    BY <1>2 DEF ResultsOfThisDomain
  <2>1. CASE h \in new /\ h \in monitored
    BY <1>1, <1>2, <2>1 DEF ResultsOfThisDomain
  <2>2. CASE h \notin new \/ h \notin monitored
    BY <1>1, <1>2, <2>2 DEF ResultsOfThisDomain, NoResult
  <2> QED
    BY <2>1, <2>2
<1> QED
  BY <1>6, <1>7, <1>8, <1>9, <1>10 DEF UptimeInv

\* A probe that comes back keeps the invariant.
LEMMA EndProbeInv ==
  ASSUME UptimeInv, NEW h \in Sites, NEW answer \in {"up", "degraded", "down"}, EndProbe(h, answer)
  PROVE  UptimeInv'
<1>1. /\ monitored \in SUBSET Sites /\ gen \in 0..MaxUpdates
      /\ hostGen \in [Sites -> 0..MaxUpdates] /\ life \in [Sites -> 0..MaxUpdates]
      /\ results \in [Sites -> ResultRecords]
      /\ sweep \in [todo : SUBSET Sites, gen : 0..MaxUpdates] /\ probe \in [Sites -> ProbeRecords]
      /\ GenerationsSoFar /\ StoredProbeIsCurrent /\ ResultsOfThisDomain /\ SweepIsConfigured
  BY UptimeTypes DEF UptimeInv
<1>2. /\ probe[h].pc = "asked" /\ probe' = [probe EXCEPT ![h] = NoProbe]
      /\ UNCHANGED <<monitored, gen, hostGen, life, sweep>>
  BY DEF EndProbe
<1> DEFINE r == results[h]
           new == [status |-> NewStatus(r, answer), fails |-> NewFails(r, answer),
                   lives |-> r.lives \cup {probe[h].life}]
<1>3. (Outdated(h) /\ results' = results)
      \/ (~Outdated(h) /\ results' = [results EXCEPT ![h] = new])
  BY DEF EndProbe
<1>4. new \in ResultRecords /\ new.lives = r.lives \cup {probe[h].life}
  <2>1. r \in ResultRecords /\ probe[h].life \in 0..MaxUpdates
    BY <1>1 DEF ProbeRecords
  <2>2. NewStatus(r, answer) \in Statuses
    BY <2>1 DEF NewStatus, ResultRecords, Statuses
  <2>3. NewFails(r, answer) \in 0..FailThreshold
    BY <2>1, UptimeBounds DEF NewFails, ResultRecords
  <2>4. r.lives \cup {probe[h].life} \in SUBSET (0..MaxUpdates)
    BY <2>1 DEF ResultRecords
  <2> QED
    BY <2>2, <2>3, <2>4 DEF ResultRecords
<1> HIDE DEF new
<1>5. probe' \in [Sites -> ProbeRecords] /\ probe'[h] = NoProbe
      /\ \A g \in Sites : g # h => probe'[g] = probe[g]
  BY <1>1, <1>2, NothingTyped
<1>6. UptimeTypeOK'
  BY <1>1, <1>2, <1>3, <1>4, <1>5, UptimeTypes
<1>7. GenerationsSoFar'
  BY <1>1, <1>2, <1>5, UptimeBounds DEF GenerationsSoFar, NoProbe
<1>8. SweepIsConfigured'
  BY <1>1, <1>2 DEF SweepIsConfigured
<1>9. StoredProbeIsCurrent'
  BY <1>1, <1>2, <1>5 DEF StoredProbeIsCurrent, Outdated, NoProbe
<1>10. ResultsOfThisDomain'
  BY <1>1, <1>2, <1>3, <1>4 DEF ResultsOfThisDomain, StoredProbeIsCurrent
<1> QED
  BY <1>6, <1>7, <1>8, <1>9, <1>10 DEF UptimeInv

\* A step of the monitor keeps the invariant.
LEMMA UptimeStepInv ==
  ASSUME UptimeInv, [UptimeNext]_uptimeVars
  PROVE  UptimeInv'
<1>1. /\ monitored \in SUBSET Sites /\ gen \in 0..MaxUpdates
      /\ hostGen \in [Sites -> 0..MaxUpdates] /\ life \in [Sites -> 0..MaxUpdates]
      /\ results \in [Sites -> ResultRecords]
      /\ sweep \in [todo : SUBSET Sites, gen : 0..MaxUpdates] /\ probe \in [Sites -> ProbeRecords]
      /\ GenerationsSoFar /\ StoredProbeIsCurrent /\ ResultsOfThisDomain /\ SweepIsConfigured
  BY UptimeTypes DEF UptimeInv
<1>2. CASE UNCHANGED uptimeVars
  BY <1>2 DEF uptimeVars, UptimeInv, UptimeTypeOK, ResultsOfThisDomain, GenerationsSoFar,
     SweepIsConfigured, StoredProbeIsCurrent, Outdated
<1>3. CASE StartSweep
  <2>1. /\ sweep' = [todo |-> monitored, gen |-> gen]
        /\ UNCHANGED <<monitored, gen, hostGen, life, results, probe>>
    BY <1>3 DEF StartSweep
  <2>2. UptimeTypeOK'
    BY <1>1, <2>1, UptimeTypes
  <2> QED
    BY <1>1, <2>1, <2>2, UptimeBounds DEF UptimeInv, ResultsOfThisDomain, GenerationsSoFar,
       SweepIsConfigured, StoredProbeIsCurrent, Outdated
<1>4. ASSUME NEW h \in Sites, SkipProbe(h) PROVE UptimeInv'
  <2>1. /\ sweep' = [sweep EXCEPT !.todo = @ \ {h}]
        /\ UNCHANGED <<monitored, gen, hostGen, life, results, probe>>
    BY <1>4 DEF SkipProbe
  <2>2. UptimeTypeOK'
    BY <1>1, <2>1, UptimeTypes
  <2> QED
    BY <1>1, <2>1, <2>2 DEF UptimeInv, ResultsOfThisDomain, GenerationsSoFar,
       SweepIsConfigured, StoredProbeIsCurrent, Outdated
<1>5. ASSUME NEW h \in Sites, StartProbe(h) PROVE UptimeInv'
  <2> DEFINE new == [pc |-> "asked", gen |-> sweep.gen, life |-> life[h]]
  <2>1. /\ h \in sweep.todo /\ sweep' = [sweep EXCEPT !.todo = @ \ {h}]
        /\ probe' = [probe EXCEPT ![h] = new]
        /\ UNCHANGED <<monitored, gen, hostGen, life, results>>
    BY <1>5 DEF StartProbe
  <2>2. new \in ProbeRecords /\ new.gen = sweep.gen /\ new.life = life[h]
    BY <1>1 DEF ProbeRecords
  <2> HIDE DEF new
  <2>3. probe' \in [Sites -> ProbeRecords] /\ probe'[h] = new
        /\ \A g \in Sites : g # h => probe'[g] = probe[g]
    BY <1>1, <2>1, <2>2
  <2>4. UptimeTypeOK'
    BY <1>1, <2>1, <2>3, UptimeTypes
  <2>5. GenerationsSoFar' /\ SweepIsConfigured' /\ ResultsOfThisDomain'
    BY <1>1, <2>1, <2>2, <2>3 DEF GenerationsSoFar, SweepIsConfigured, ResultsOfThisDomain
  <2>6. StoredProbeIsCurrent'
    <3> SUFFICES ASSUME NEW g \in Sites, probe'[g].pc = "asked", ~Outdated(g)'
                 PROVE  g \in monitored /\ probe'[g].life = life[g]
      BY <2>1 DEF StoredProbeIsCurrent
    <3>1. CASE g # h
      BY <1>1, <2>1, <2>3, <3>1 DEF StoredProbeIsCurrent, Outdated
    <3>2. CASE g = h
      BY <1>1, <2>1, <2>2, <2>3, <3>2 DEF SweepIsConfigured, Outdated
    <3> QED
      BY <3>1, <3>2
  <2> QED
    BY <2>4, <2>5, <2>6 DEF UptimeInv
<1> QED
  BY <1>2, <1>3, <1>4, <1>5, UpdateMonitoredInv, EndProbeInv DEF UptimeNext

\* The monitor starts with nothing known.
LEMMA UptimeInitInv == UptimeInit => UptimeInv
<1> SUFFICES ASSUME UptimeInit PROVE UptimeInv
  OBVIOUS
<1>1. /\ monitored \in SUBSET Sites /\ gen = 0 /\ hostGen = [h \in Sites |-> 0]
      /\ life = [h \in Sites |-> 0] /\ results = [h \in Sites |-> NoResult]
      /\ sweep = [todo |-> {}, gen |-> 0] /\ probe = [h \in Sites |-> NoProbe]
  BY DEF UptimeInit
<1>2. 0 \in 0..MaxUpdates
  BY UptimeBounds
<1>3. UptimeTypeOK
  BY <1>1, <1>2, NothingTyped, UptimeTypes
<1> QED
  BY <1>1, <1>3 DEF UptimeInv, ResultsOfThisDomain, GenerationsSoFar, SweepIsConfigured,
     StoredProbeIsCurrent, NoResult, NoProbe

\* The invariant of the monitor holds throughout.
THEOREM UptimeInvariant == UptimeSpec => []UptimeInv
<1>1. UptimeInv /\ [UptimeNext]_uptimeVars => UptimeInv'
  BY UptimeStepInv
<1> QED
  BY <1>1, UptimeInitInv, PTL DEF UptimeSpec

\* What is reported of a host was measured on the domain configured now.
THEOREM ResultsCurrent == UptimeSpec => []ResultsOfThisDomain
  BY UptimeInvariant, PTL DEF UptimeInv

-----------------------------------------------------------------------------
(* Firewall *)

MoveRecords == [at : {"delete", "insert"}, row : Nat \ {0}, up : BOOLEAN,
                rule : FwRules, neighbor : FwRules]

\* A move under way remembers a rule and where it stood.
MoverTyped == mover = Resting \/ mover \in MoveRecords

\* A timer is left for the enable under way.
TimerLeft == enabler.at # "idle" => timers < MaxEnables

\* An enable that may yet be confirmed, or was, has ufw on and no "ufw disable"
\* on its way, and a confirmed one has no timer.
EnabledStaysOn ==
  /\ (rbTimer # 0 \/ confirmed) /\ ~overrun => ufwActive /\ disabling = {}
  /\ confirmed => rbTimer = 0

\* The inductive invariant of the firewall.
FirewallInv == FirewallTypeOK /\ MoverTyped /\ TimerLeft /\ EnabledStaysOn

\* What the assumption says of the bounds.
LEMMA FirewallBounds == MaxRules \in Nat /\ MaxEnables \in Nat /\ Protected \subseteq Ports
  BY FirewallAssumption DEF FirewallAssumption

\* The rules the model makes.
LEMMA RulesTyped ==
  /\ \A p \in Ports : Allow(p) \in FwRules /\ Deny(p) \in FwRules
  /\ DefaultDeny \in FwRules /\ DenySource \in FwRules
  BY DEF FwRules

\* The least of some rows is one of them.
LEMMA LeastRow ==
  ASSUME NEW n \in Nat, NEW S \in SUBSET (1..n), S # {}
  PROVE  Least(S) \in S
<1>1. S \in SUBSET Nat
  OBVIOUS
<1>2. \E i \in S : \A j \in S : i <= j
  BY <1>1, LeastExists
<1> QED
  BY <1>2 DEF Least

\* Deleting a row leaves a list of rules.
LEMMA RemoveTyped ==
  ASSUME NEW s \in Seq(FwRules), NEW n \in 1..Len(s)
  PROVE  RemoveAt(s, n) \in Seq(FwRules)
<1>1. Len(s) \in Nat /\ \A i \in 1..Len(s) : s[i] \in FwRules
  OBVIOUS
<1>2. SubSeq(s, 1, n - 1) \in Seq(FwRules)
  BY <1>1, SubSeqProperties
<1>3. SubSeq(s, n + 1, Len(s)) \in Seq(FwRules)
  BY <1>1, SubSeqProperties
<1> QED
  BY <1>2, <1>3, ConcatProperties DEF RemoveAt

\* Inserting a row leaves a list of rules.
LEMMA InsertTyped ==
  ASSUME ufwRules \in Seq(FwRules), NEW n \in 0..Len(ufwRules), NEW r \in FwRules
  PROVE  Inserted(n, r) \in Seq(FwRules)
<1>1. Len(ufwRules) \in Nat /\ \A i \in 1..Len(ufwRules) : ufwRules[i] \in FwRules
  OBVIOUS
<1>2. CASE Has(r)
  BY <1>2 DEF Inserted
<1>3. CASE ~Has(r) /\ n = 0
  BY <1>3, AppendProperties DEF Inserted
<1>4. CASE ~Has(r) /\ n # 0
  <2>1. SubSeq(ufwRules, 1, n - 1) \in Seq(FwRules)
    BY <1>1, SubSeqProperties
  <2>2. SubSeq(ufwRules, n, Len(ufwRules)) \in Seq(FwRules)
    BY <1>1, <1>4, SubSeqProperties
  <2>3. <<r>> \in Seq(FwRules)
    OBVIOUS
  <2>4. SubSeq(ufwRules, 1, n - 1) \o <<r>> \in Seq(FwRules)
    BY <2>1, <2>3, ConcatProperties
  <2>5. InsertAt(ufwRules, n, r) \in Seq(FwRules)
    BY <2>2, <2>4, ConcatProperties DEF InsertAt
  <2> QED
    BY <1>4, <2>5 DEF Inserted
<1> QED
  BY <1>2, <1>3, <1>4

\* addPortRule leaves a list of rules.
LEMMA WithAllowTyped ==
  ASSUME ufwRules \in Seq(FwRules), NEW p \in Ports
  PROVE  WithAllow(p) \in Seq(FwRules)
<1> DEFINE PortDeny(r) == r.act = "deny" /\ r.port # "any"
           Blanket(r)  == r = DefaultDeny
<1>1. Len(ufwRules) \in Nat
  OBVIOUS
<1>2. Rows(PortDeny) \in SUBSET (1..Len(ufwRules)) /\ Rows(Blanket) \in SUBSET (1..Len(ufwRules))
  BY DEF Rows
<1>3. AllowRow = IF ~ufwActive THEN 0
                 ELSE IF Rows(PortDeny) # {} THEN Least(Rows(PortDeny))
                 ELSE IF Rows(Blanket) # {} THEN Least(Rows(Blanket)) ELSE 0
  BY DEF AllowRow
<1> HIDE DEF PortDeny, Blanket
<1>4. /\ Rows(PortDeny) # {} => Least(Rows(PortDeny)) \in 1..Len(ufwRules)
      /\ Rows(Blanket) # {} => Least(Rows(Blanket)) \in 1..Len(ufwRules)
  BY <1>1, <1>2, LeastRow
<1>5. AllowRow \in 0..Len(ufwRules)
  BY <1>1, <1>3, <1>4
<1> QED
  BY <1>5, InsertTyped, RulesTyped DEF WithAllow

\* A step that edits rules or the configuration only.
LEMMA RulesOnly ==
  ASSUME FirewallInv, ufwRules' \in Seq(FwRules), listening' \subseteq Ports, ufwActive' = ufwActive,
         UNCHANGED timerVars, mover' = Resting \/ mover' \in MoveRecords,
         enabler'.at \in {"idle", "allow", "enable", "schedule"},
         enabler'.at # "idle" => timers < MaxEnables
  PROVE  FirewallInv'
<1>1. mover'.at \in {"idle", "delete", "insert"}
  BY DEF Resting, MoveRecords
<1>2. FirewallTypeOK'
  BY <1>1 DEF FirewallInv, FirewallTypeOK, timerVars
<1> QED
  BY <1>2 DEF FirewallInv, MoverTyped, TimerLeft, EnabledStaysOn, timerVars

\* The same, when neither the move nor the enable under way takes a step.
LEMMA ListOnly ==
  ASSUME FirewallInv, ufwRules' \in Seq(FwRules), listening' \subseteq Ports,
         UNCHANGED <<ufwActive, enabler, mover, timerVars>>
  PROVE  FirewallInv'
<1>1. (mover' = Resting \/ mover' \in MoveRecords)
      /\ enabler'.at \in {"idle", "allow", "enable", "schedule"}
      /\ (enabler'.at # "idle" => timers < MaxEnables)
  BY DEF FirewallInv, MoverTyped, TimerLeft, FirewallTypeOK
<1>2. ufwActive' = ufwActive /\ UNCHANGED timerVars
  OBVIOUS
<1> QED
  BY <1>1, <1>2, RulesOnly

\* The second half of a move keeps the invariant.
LEMMA MoveInsertsInv ==
  ASSUME FirewallInv, MoveInserts
  PROVE  FirewallInv'
<1> DEFINE IsNeighbor(r) == r = mover.neighbor
           beside == IF Rows(IsNeighbor) = {} \/ ~ufwActive THEN 0
                     ELSE Least(Rows(IsNeighbor)) + IF mover.up THEN 0 ELSE 1
           back   == IF mover.row <= Len(ufwRules) /\ ufwActive THEN mover.row ELSE 0
           placed == IF beside \in 1 .. Len(ufwRules) THEN Inserted(beside, mover.rule)
                     ELSE Inserted(back, mover.rule)
<1>1. /\ mover.at = "insert" /\ mover' = Resting /\ UNCHANGED <<ufwActive, listening, enabler, timerVars>>
      /\ ufwRules' = IF DefaultDeny \in ToSet(placed) THEN placed ELSE Append(placed, DefaultDeny)
  BY DEF MoveInserts
<1>2. mover \in MoveRecords /\ ufwRules \in Seq(FwRules) /\ Len(ufwRules) \in Nat
  BY <1>1 DEF FirewallInv, MoverTyped, FirewallTypeOK, Resting
<1>3. mover.rule \in FwRules /\ mover.row \in Nat \ {0}
  BY <1>2 DEF MoveRecords
<1>4. back \in 0..Len(ufwRules)
  BY <1>2, <1>3
<1> HIDE DEF beside, back
<1>5. beside \in 1..Len(ufwRules) => beside \in 0..Len(ufwRules)
  BY <1>2
<1>6. placed \in Seq(FwRules)
  BY <1>2, <1>3, <1>4, <1>5, InsertTyped
<1> HIDE DEF placed
<1>7. ufwRules' \in Seq(FwRules)
  BY <1>1, <1>6, AppendProperties, RulesTyped
<1>8. /\ enabler'.at \in {"idle", "allow", "enable", "schedule"}
      /\ enabler'.at # "idle" => timers < MaxEnables
      /\ listening' \subseteq Ports /\ UNCHANGED timerVars /\ ufwActive' = ufwActive
  BY <1>1 DEF FirewallInv, TimerLeft, FirewallTypeOK
<1> QED
  BY <1>1, <1>7, <1>8, RulesOnly

\* An edit of the rule list, or of the ports it is made for, keeps the invariant.
LEMMA RuleStepInv ==
  ASSUME FirewallInv,
         \/ \E p \in Ports : AllowPort(p) \/ DenyPort(p)
         \/ \E n \in 1..Len(ufwRules) : DeleteRow(n) \/ \E to \in 1..Len(ufwRules) : MoveReads(n, to)
         \/ BlockSource \/ UnblockSource \/ MoveDeletes \/ MoveInserts
         \/ \E s \in {Protected, Ports} : SetListen(s)
  PROVE  FirewallInv'
<1>1. /\ ufwRules \in Seq(FwRules) /\ Len(ufwRules) \in Nat /\ listening \subseteq Ports
      /\ ufwActive \in BOOLEAN /\ (mover = Resting \/ mover \in MoveRecords)
      /\ enabler.at \in {"idle", "allow", "enable", "schedule"}
      /\ (enabler.at # "idle" => timers < MaxEnables)
  BY DEF FirewallInv, FirewallTypeOK, MoverTyped, TimerLeft
<1>2. ASSUME NEW p \in Ports, AllowPort(p) PROVE FirewallInv'
  <2>1. ufwRules' \in Seq(FwRules)
    BY <1>1, <1>2, WithAllowTyped DEF AllowPort
  <2>2. listening' \subseteq Ports /\ UNCHANGED <<ufwActive, enabler, mover, timerVars>>
    BY <1>1, <1>2 DEF AllowPort
  <2> QED
    BY <2>1, <2>2, ListOnly
<1>3. ASSUME NEW p \in Ports, DenyPort(p) PROVE FirewallInv'
  <2>1. 0 \in 0..Len(ufwRules) /\ Deny(p) \in FwRules
    BY <1>1, RulesTyped
  <2>2. Inserted(0, Deny(p)) \in Seq(FwRules)
    BY <1>1, <2>1, InsertTyped
  <2>3. ufwRules' \in Seq(FwRules)
    BY <1>3, <2>2 DEF DenyPort
  <2>4. listening' \subseteq Ports /\ UNCHANGED <<ufwActive, enabler, mover, timerVars>>
    BY <1>1, <1>3 DEF DenyPort
  <2> QED
    BY <2>3, <2>4, ListOnly
<1>4. ASSUME NEW n \in 1..Len(ufwRules), DeleteRow(n) PROVE FirewallInv'
  <2>1. ufwRules' \in Seq(FwRules)
    BY <1>1, <1>4, RemoveTyped DEF DeleteRow
  <2>2. listening' \subseteq Ports /\ UNCHANGED <<ufwActive, enabler, mover, timerVars>>
    BY <1>1, <1>4 DEF DeleteRow
  <2> QED
    BY <2>1, <2>2, ListOnly
<1>5. ASSUME NEW n \in 1..Len(ufwRules), NEW to \in 1..Len(ufwRules), MoveReads(n, to) PROVE FirewallInv'
  <2>1. /\ mover' = [at |-> "delete", row |-> n, up |-> to < n,
                     rule |-> ufwRules[n], neighbor |-> ufwRules[to]]
        /\ UNCHANGED <<ufwRules, ufwActive, listening, enabler, timerVars>>
    BY <1>5 DEF MoveReads
  <2>2. n \in Nat \ {0} /\ ufwRules[n] \in FwRules /\ ufwRules[to] \in FwRules
    BY <1>1
  <2>3. (to < n) \in BOOLEAN
    OBVIOUS
  <2>4. mover' \in MoveRecords
    BY <2>1, <2>2, <2>3 DEF MoveRecords
  <2> QED
    BY <1>1, <2>1, <2>4, RulesOnly
<1>6. CASE BlockSource
  <2>1. 1 \in 0..Len(ufwRules)
    BY <1>1, <1>6 DEF BlockSource
  <2>2. Inserted(1, DenySource) \in Seq(FwRules)
    BY <1>1, <2>1, InsertTyped, RulesTyped
  <2>3. ufwRules' \in Seq(FwRules)
    BY <1>6, <2>2 DEF BlockSource
  <2>4. listening' \subseteq Ports /\ UNCHANGED <<ufwActive, enabler, mover, timerVars>>
    BY <1>1, <1>6 DEF BlockSource
  <2> QED
    BY <2>3, <2>4, ListOnly
<1>7. CASE UnblockSource
  <2> DEFINE IsSource(r) == r = DenySource
  <2>1. /\ Rows(IsSource) \in SUBSET (1..Len(ufwRules)) /\ Rows(IsSource) # {}
        /\ ufwRules' = RemoveAt(ufwRules, Least(Rows(IsSource)))
    BY <1>1, <1>7 DEF UnblockSource, Rows, Has, ToSet
  <2> HIDE DEF IsSource
  <2>2. Least(Rows(IsSource)) \in 1..Len(ufwRules)
    BY <1>1, <2>1, LeastRow
  <2>3. ufwRules' \in Seq(FwRules)
    BY <1>1, <2>1, <2>2, RemoveTyped
  <2>4. listening' \subseteq Ports /\ UNCHANGED <<ufwActive, enabler, mover, timerVars>>
    BY <1>1, <1>7 DEF UnblockSource
  <2> QED
    BY <2>3, <2>4, ListOnly
<1>8. CASE MoveDeletes
  <2>1. mover \in MoveRecords /\ mover.row \in Nat \ {0}
    BY <1>1, <1>8 DEF MoveDeletes, Resting, MoveRecords
  <2>2. UNCHANGED <<ufwActive, listening, enabler, timerVars>>
    BY <1>8 DEF MoveDeletes
  <2>3. CASE mover.row <= Len(ufwRules) /\ ufwRules' = RemoveAt(ufwRules, mover.row)
             /\ mover' = [mover EXCEPT !.at = "insert"]
    <3>1. mover.row \in 1..Len(ufwRules) /\ mover' \in MoveRecords
      BY <1>1, <2>1, <2>3 DEF MoveRecords
    <3>2. ufwRules' \in Seq(FwRules)
      BY <1>1, <2>3, <3>1, RemoveTyped
    <3> QED
      BY <1>1, <2>2, <3>1, <3>2, RulesOnly
  <2>4. CASE mover' = Resting /\ UNCHANGED ufwRules
    BY <1>1, <2>2, <2>4, RulesOnly
  <2> QED
    BY <1>8, <2>3, <2>4 DEF MoveDeletes
<1>9. ASSUME NEW s \in {Protected, Ports}, SetListen(s) PROVE FirewallInv'
  <2>1. listening' \subseteq Ports /\ UNCHANGED <<ufwRules, ufwActive, enabler, mover, timerVars>>
    BY <1>9, FirewallBounds DEF SetListen
  <2> QED
    BY <1>1, <2>1, ListOnly
<1> QED
  BY <1>2, <1>3, <1>4, <1>5, <1>6, <1>7, <1>8, <1>9, MoveInsertsInv

\* A step of an enable, a timer or an operator keeps the invariant.
LEMMA EnableStepInv ==
  ASSUME FirewallInv,
         \/ \E p \in Ports : EnableAllows(p)
         \/ StartEnable \/ EnableDenies \/ EnableUfw \/ ScheduleRollback
         \/ TimerFires \/ ConfirmEnable \/ Disable
         \/ \E t \in 1 .. MaxEnables : Callback(t)
         \/ \E t \in 0 .. MaxEnables : RunDisable(t)
  PROVE  FirewallInv'
<1>1. /\ ufwRules \in Seq(FwRules) /\ Len(ufwRules) \in Nat /\ listening \subseteq Ports
      /\ ufwActive \in BOOLEAN /\ (mover = Resting \/ mover \in MoveRecords)
      /\ mover.at \in {"idle", "delete", "insert"}
      /\ enabler.at \in {"idle", "allow", "enable", "schedule"}
      /\ (enabler.at # "idle" => timers < MaxEnables)
      /\ timers \in 0 .. MaxEnables /\ rbTimer \in 0 .. timers
      /\ fired \subseteq 1 .. timers /\ disabling \subseteq 0 .. timers
      /\ confirmed \in BOOLEAN /\ overrun \in BOOLEAN /\ EnabledStaysOn
  BY DEF FirewallInv, FirewallTypeOK, MoverTyped, TimerLeft
<1>2. ASSUME NEW p \in Ports, EnableAllows(p) PROVE FirewallInv'
  <2>1. ufwRules' \in Seq(FwRules)
    BY <1>1, <1>2, WithAllowTyped DEF EnableAllows
  <2>2. /\ enabler'.at = enabler.at \/ enabler'.at = "allow"
        /\ UNCHANGED <<ufwActive, listening, mover, timerVars>> /\ enabler.at = "allow"
    BY <1>2 DEF EnableAllows
  <2> QED
    BY <1>1, <2>1, <2>2, RulesOnly
<1>3. CASE StartEnable
  <2>1. /\ enabler'.at = "allow" /\ timers < MaxEnables
        /\ UNCHANGED <<ufwRules, ufwActive, listening, mover, timerVars>>
    BY <1>3 DEF StartEnable
  <2> QED
    BY <1>1, <2>1, RulesOnly
<1>4. CASE EnableDenies
  <2>1. 0 \in 0..Len(ufwRules)
    BY <1>1
  <2>2. Inserted(0, DefaultDeny) \in Seq(FwRules)
    BY <1>1, <2>1, InsertTyped, RulesTyped
  <2>3. /\ enabler'.at = "enable" /\ enabler.at = "allow" /\ ufwRules' \in Seq(FwRules)
        /\ UNCHANGED <<ufwActive, listening, mover, timerVars>>
    BY <1>4, <2>2 DEF EnableDenies
  <2> QED
    BY <1>1, <2>3, RulesOnly
<1>5. CASE EnableUfw
  <2>1. /\ enabler'.at \in {"schedule", "idle"} /\ enabler.at = "enable"
        /\ UNCHANGED <<ufwRules, listening, mover, timerVars>>
    BY <1>5 DEF EnableUfw, Resting
  <2>2. ufwActive' = TRUE \/ ufwActive' = ufwActive
    BY <1>5 DEF EnableUfw
  <2>3. ufwActive' \in BOOLEAN /\ (ufwActive => ufwActive')
    BY <1>1, <2>2
  <2>4. FirewallTypeOK'
    BY <1>1, <2>1, <2>3 DEF FirewallTypeOK, timerVars
  <2> QED
    BY <1>1, <2>1, <2>3, <2>4 DEF FirewallInv, MoverTyped, TimerLeft, EnabledStaysOn, timerVars
<1>6. CASE ScheduleRollback
  <2>1. /\ enabler.at = "schedule" /\ enabler'.at = "idle"
        /\ timers' = timers + 1 /\ rbTimer' = timers + 1 /\ confirmed' = FALSE
        /\ UNCHANGED <<ufwRules, ufwActive, listening, mover, fired, disabling>>
    BY <1>6 DEF ScheduleRollback, Resting
  <2>2. overrun' = (~ufwActive \/ disabling # {})
    BY <1>6 DEF ScheduleRollback
  <2>3. overrun' \in BOOLEAN /\ (~overrun' => ufwActive /\ disabling = {})
    BY <2>2
  <2>4. timers' \in 0..MaxEnables /\ rbTimer' \in 0..timers' /\ rbTimer' # 0
        /\ fired' \subseteq 1..timers' /\ disabling' \subseteq 0..timers'
    BY <1>1, <2>1, FirewallBounds
  <2>5. FirewallTypeOK'
    BY <1>1, <2>1, <2>3, <2>4 DEF FirewallTypeOK
  <2>6. EnabledStaysOn'
    BY <2>1, <2>3 DEF EnabledStaysOn
  <2> QED
    BY <1>1, <2>1, <2>5, <2>6 DEF FirewallInv, MoverTyped, TimerLeft
<1>7. CASE TimerFires
  <2>1. /\ fired' = fired \cup {rbTimer} /\ rbTimer # 0
        /\ UNCHANGED <<ufwRules, ufwActive, listening, enabler, mover, rbTimer, timers,
                       disabling, confirmed, overrun>>
    BY <1>7 DEF TimerFires
  <2>2. fired' \subseteq 1..timers
    BY <1>1, <2>1, FirewallBounds
  <2>3. FirewallTypeOK'
    BY <1>1, <2>1, <2>2 DEF FirewallTypeOK
  <2> QED
    BY <1>1, <2>1, <2>3 DEF FirewallInv, MoverTyped, TimerLeft, EnabledStaysOn
<1>8. CASE ConfirmEnable
  <2>1. /\ rbTimer # 0 /\ rbTimer' = 0 /\ confirmed' = TRUE
        /\ UNCHANGED <<ufwRules, ufwActive, listening, enabler, mover, timers, fired, disabling, overrun>>
    BY <1>8 DEF ConfirmEnable
  <2>2. rbTimer' \in 0..timers
    BY <1>1, <2>1, FirewallBounds
  <2>3. FirewallTypeOK'
    BY <1>1, <2>1, <2>2 DEF FirewallTypeOK
  <2> QED
    BY <1>1, <2>1, <2>3 DEF FirewallInv, MoverTyped, TimerLeft, EnabledStaysOn
<1>9. CASE Disable
  <2>1. /\ rbTimer' = 0 /\ confirmed' = FALSE /\ disabling' = disabling \cup {0}
        /\ UNCHANGED <<ufwRules, ufwActive, listening, enabler, mover, timers, fired, overrun>>
    BY <1>9 DEF Disable
  <2>2. rbTimer' \in 0..timers /\ disabling' \subseteq 0..timers
    BY <1>1, <2>1, FirewallBounds
  <2>3. FirewallTypeOK'
    BY <1>1, <2>1, <2>2 DEF FirewallTypeOK
  <2> QED
    BY <1>1, <2>1, <2>3 DEF FirewallInv, MoverTyped, TimerLeft, EnabledStaysOn
<1>10. ASSUME NEW t \in 1..MaxEnables, Callback(t) PROVE FirewallInv'
  <2>1. /\ t \in fired /\ fired' = fired \ {t}
        /\ UNCHANGED <<ufwRules, ufwActive, listening, enabler, mover, timers, confirmed, overrun>>
    BY <1>10 DEF Callback
  <2>2. CASE rbTimer = t
    <3>1. rbTimer' = 0 /\ disabling' = disabling \cup {t} /\ t # 0
      BY <1>10, <2>2, FirewallBounds DEF Callback
    <3>2. rbTimer' \in 0..timers /\ disabling' \subseteq 0..timers
      BY <1>1, <2>1, <3>1, FirewallBounds
    <3>3. FirewallTypeOK'
      BY <1>1, <2>1, <3>2 DEF FirewallTypeOK
    <3>4. ~confirmed
      BY <1>1, <2>2, <3>1 DEF EnabledStaysOn
    <3> QED
      BY <1>1, <2>1, <3>1, <3>3, <3>4 DEF FirewallInv, MoverTyped, TimerLeft, EnabledStaysOn
  <2>3. CASE rbTimer # t
    <3>1. UNCHANGED <<rbTimer, disabling>>
      BY <1>10, <2>3 DEF Callback
    <3>2. FirewallTypeOK'
      BY <1>1, <2>1, <3>1 DEF FirewallTypeOK
    <3> QED
      BY <1>1, <2>1, <3>1, <3>2 DEF FirewallInv, MoverTyped, TimerLeft, EnabledStaysOn
  <2> QED
    BY <2>2, <2>3
<1>11. ASSUME NEW t \in 0..MaxEnables, RunDisable(t) PROVE FirewallInv'
  <2>1. /\ t \in disabling /\ disabling' = disabling \ {t}
        /\ UNCHANGED <<ufwRules, listening, enabler, mover, rbTimer, timers, fired, confirmed, overrun>>
    BY <1>11 DEF RunDisable
  <2>2. ufwActive' \in BOOLEAN
    BY <1>1, <1>11 DEF RunDisable
  <2>3. FirewallTypeOK'
    BY <1>1, <2>1, <2>2 DEF FirewallTypeOK
  <2> QED
    BY <1>1, <2>1, <2>3 DEF FirewallInv, MoverTyped, TimerLeft, EnabledStaysOn
<1> QED
  BY <1>2, <1>3, <1>4, <1>5, <1>6, <1>7, <1>8, <1>9, <1>10, <1>11

\* A step of the firewall keeps the invariant.
LEMMA FirewallStepInv ==
  ASSUME FirewallInv, [FirewallNext]_firewallVars
  PROVE  FirewallInv'
<1>1. CASE UNCHANGED firewallVars
  BY <1>1 DEF firewallVars, FirewallInv, FirewallTypeOK, MoverTyped, TimerLeft, EnabledStaysOn
<1>2. CASE FirewallNext
  BY <1>2, RuleStepInv, EnableStepInv DEF FirewallNext
<1> QED
  BY <1>1, <1>2

\* The firewall starts off, with no rule.
LEMMA FirewallInitInv == FirewallInit => FirewallInv
<1> SUFFICES ASSUME FirewallInit PROVE FirewallInv
  OBVIOUS
<1>1. ufwRules \in Seq(FwRules) /\ listening \subseteq Ports
  BY FirewallBounds DEF FirewallInit
<1>2. timers \in 0..MaxEnables /\ rbTimer \in 0..timers
  BY FirewallBounds DEF FirewallInit
<1>3. FirewallTypeOK
  BY <1>1, <1>2 DEF FirewallInit, FirewallTypeOK, Resting
<1> QED
  BY <1>3 DEF FirewallInit, FirewallInv, MoverTyped, TimerLeft, EnabledStaysOn, Resting

\* The invariant of the firewall holds throughout.
THEOREM FirewallInvariant == FirewallSpec => []FirewallInv
<1>1. FirewallInv /\ [FirewallNext]_firewallVars => FirewallInv'
  BY FirewallStepInv
<1> QED
  BY <1>1, FirewallInitInv, PTL DEF FirewallSpec

\* A confirmed enable is not rolled back, and no Disable that began after its
\* timer was set turns it off unseen.
THEOREM ConfirmedEnableStays == FirewallSpec => []ConfirmedStaysOn
<1>1. FirewallInv => ConfirmedStaysOn
  BY DEF FirewallInv, EnabledStaysOn, ConfirmedStaysOn
<1> QED
  BY <1>1, FirewallInvariant, PTL

-----------------------------------------------------------------------------
(* Backups *)

JobRecords == {NoJob, [pc |-> "prune"]} \cup [pc : {"archive"}, full : BOOLEAN]
              \cup [pc : {"upload"}, full : BOOLEAN, complete : BOOLEAN]
              \cup [pc : {"delete"}, old : SUBSET Archive]

\* What retention left: the archives that are there, and those the operator
\* deleted.
Kept     == store \cup dropped
Newer(i) == {a \in Kept : a.full /\ a.id > i}

\* As many full backups as retention must keep are newer than i.
Spared(i) == Cardinality(Newer(i)) >= fewestKept

\* Only what may be deleted is gone.
GoneWasOld == \A a \in made \ Kept : a.full /\ Spared(a.id)

\* What a job is about to delete could be deleted at once.
ListsStaySafe ==
  \A j \in Jobs : job[j].pc = "delete" => \A a \in job[j].old : a.full /\ Spared(a.id)

\* The inductive invariant of the backups.
BackupInv ==
  /\ BackupTypeOK /\ IsFiniteSet(Kept) /\ job \in [Jobs -> JobRecords]
  /\ GoneWasOld /\ ListsStaySafe

\* What the assumption says of the bounds.
LEMMA BackupBounds == MaxKeep \in Nat /\ MaxKeep >= 1 /\ MaxArchives \in Nat
  BY BackupsAssumption DEF BackupsAssumption

\* The types, from what the steps show.
LEMMA BackupTypeFollows ==
  ASSUME store' \subseteq Archive, uploads' \in 0..MaxArchives, job' \in [Jobs -> JobRecords],
         keepCount' \in 1..MaxKeep, fewestKept' \in 1..MaxKeep,
         made' \subseteq Archive, dropped' \subseteq Archive
  PROVE  BackupTypeOK'
  BY DEF BackupTypeOK, JobRecords, NoJob

\* The full backups among finitely many are counted.
LEMMA NewerCounted ==
  ASSUME NEW i
  PROVE  /\ IsFiniteSet(Kept) => IsFiniteSet(Newer(i)) /\ Cardinality(Newer(i)) \in Nat
         /\ IsFiniteSet(Kept') => IsFiniteSet(Newer(i)') /\ Cardinality(Newer(i)') \in Nat
<1>1. Newer(i) \subseteq Kept /\ Newer(i)' \subseteq Kept'
  BY DEF Newer
<1> QED
  BY <1>1, FS_Subset, FS_CardinalityType

\* An id that is spared is spared still when newer full backups are added, or
\* when retention keeps fewer.
LEMMA SparedMonotonic ==
  ASSUME NEW i, IsFiniteSet(Kept), IsFiniteSet(Kept'), Newer(i) \subseteq Newer(i)',
         fewestKept \in Int, fewestKept' \in Int, fewestKept' <= fewestKept, Spared(i)
  PROVE  Spared(i)'
<1>1. IsFiniteSet(Newer(i)') /\ Cardinality(Newer(i)') \in Nat
  BY NewerCounted
<1>2. Cardinality(Newer(i)) \in Nat
  BY NewerCounted
<1>3. Cardinality(Newer(i)) <= Cardinality(Newer(i)')
  BY <1>1, FS_Subset
<1> QED
  BY <1>1, <1>2, <1>3 DEF Spared

\* A step in which retention deletes nothing.
LEMMA NothingDeleted ==
  ASSUME BackupInv, job' \in [Jobs -> JobRecords],
         \A k \in Jobs : job'[k].pc = "delete" =>
             \/ job'[k] = job[k]
             \/ \A a \in job'[k].old : a.full /\ Spared(a.id)',
         store' \subseteq Archive, dropped' \subseteq Archive, made' \subseteq Archive,
         Kept \subseteq Kept', IsFiniteSet(Kept'), made' \ Kept' \subseteq made \ Kept,
         uploads' \in 0..MaxArchives,
         keepCount' \in 1..MaxKeep, fewestKept' \in 1..MaxKeep, fewestKept' <= fewestKept
  PROVE  BackupInv'
<1>1. IsFiniteSet(Kept) /\ fewestKept \in Int /\ fewestKept' \in Int
  BY BackupBounds DEF BackupInv, BackupTypeOK
<1>2. BackupTypeOK'
  BY BackupTypeFollows
<1>3. \A i : Newer(i) \subseteq Newer(i)'
  BY DEF Newer
<1>4. \A i : Spared(i) => Spared(i)'
  BY <1>1, <1>3, SparedMonotonic
<1>5. GoneWasOld'
  BY <1>4 DEF BackupInv, GoneWasOld
<1>6. ListsStaySafe'
  <2> SUFFICES ASSUME NEW k \in Jobs, job'[k].pc = "delete", NEW a \in job'[k].old
               PROVE  a.full /\ Spared(a.id)'
    BY DEF ListsStaySafe
  <2>1. CASE job'[k] = job[k]
    BY <1>4, <2>1 DEF BackupInv, ListsStaySafe
  <2> QED
    BY <2>1
<1> QED
  BY <1>2, <1>5, <1>6 DEF BackupInv

\* A deletion from a list, however old, keeps the invariant: what the deleted
\* archive counted for is counted for by those newer than it.
LEMMA DeletionInv ==
  ASSUME BackupInv, NEW j \in Jobs, NEW a, job[j].pc = "delete", a \in job[j].old,
         job' = [job EXCEPT ![j] = [job[j] EXCEPT !.old = @ \ {a}]],
         store' = store \ {a}, UNCHANGED <<uploads, keepCount, fewestKept, made, dropped>>
  PROVE  BackupInv'
<1>1. /\ job \in [Jobs -> JobRecords] /\ IsFiniteSet(Kept) /\ store \subseteq Archive
      /\ fewestKept \in 1..MaxKeep /\ keepCount \in 1..MaxKeep /\ uploads \in 0..MaxArchives
      /\ made \subseteq Archive /\ dropped \subseteq Archive /\ fewestKept \in Int
  BY BackupBounds DEF BackupInv, BackupTypeOK
<1>2. job[j] \in [pc : {"delete"}, old : SUBSET Archive]
  BY <1>1 DEF JobRecords, NoJob
<1> DEFINE x == [job[j] EXCEPT !.old = @ \ {a}]
<1>3. x \in JobRecords /\ x.pc = "delete" /\ x.old = job[j].old \ {a} /\ job' = [job EXCEPT ![j] = x]
  BY <1>2 DEF JobRecords
<1> HIDE DEF x
<1>4. job' \in [Jobs -> JobRecords] /\ job'[j] = x /\ \A k \in Jobs : k # j => job'[k] = job[k]
  BY <1>1, <1>3
<1>5. /\ Kept \subseteq Kept' \cup {a} /\ Kept' \subseteq Kept /\ store' \subseteq Archive
      /\ Kept \subseteq Archive
  BY <1>1 DEF Kept
<1>6. IsFiniteSet(Kept')
  BY <1>1, <1>5, FS_Subset
<1>7. BackupTypeOK'
  BY <1>1, <1>4, <1>5, BackupTypeFollows
<1>8. a \in Archive /\ a.id \in Nat /\ a.full /\ Spared(a.id)
  BY <1>2, BackupBounds DEF Archive, BackupInv, ListsStaySafe
<1>9. \A i : IsFiniteSet(Newer(i)') /\ Cardinality(Newer(i)') \in Nat
  BY <1>6, NewerCounted
<1>10. ASSUME NEW i \in Nat, Spared(i) PROVE Spared(i)'
  <2>1. CASE i >= a.id
    <3>1. Newer(i) \subseteq Newer(i)'
      BY <1>5, <1>8, <2>1 DEF Newer
    <3> QED
      BY <1>1, <1>6, <1>10, <3>1, SparedMonotonic
  <2>2. CASE i < a.id
    <3>1. Newer(a.id) \subseteq Newer(i)'
      <4> SUFFICES ASSUME NEW b \in Newer(a.id) PROVE b \in Newer(i)'
        OBVIOUS
      <4>1. b \in Kept /\ b.full /\ b.id > a.id /\ b.id \in Nat
        BY <1>5, BackupBounds DEF Newer, Archive
      <4>2. b \in Kept' /\ b.id > i
        BY <1>5, <1>8, <2>2, <4>1
      <4> QED
        BY <4>1, <4>2 DEF Newer
    <3>2. Cardinality(Newer(a.id)) <= Cardinality(Newer(i)') /\ Cardinality(Newer(a.id)) \in Nat
      BY <1>1, <1>9, <3>1, NewerCounted, FS_Subset
    <3> QED
      BY <1>1, <1>8, <1>9, <3>2 DEF Spared
  <2> QED
    BY <1>8, <2>1, <2>2
<1>11. GoneWasOld'
  <2> SUFFICES ASSUME NEW b \in made, b \notin Kept' PROVE b.full /\ Spared(b.id)'
    BY DEF GoneWasOld
  <2>1. b \notin Kept \/ b = a
    BY <1>5
  <2>2. b.id \in Nat /\ b.full /\ Spared(b.id)
    BY <1>1, <1>8, <2>1, BackupBounds DEF Archive, BackupInv, GoneWasOld
  <2> QED
    BY <1>10, <2>2
<1>12. ListsStaySafe'
  <2> SUFFICES ASSUME NEW k \in Jobs, job'[k].pc = "delete", NEW b \in job'[k].old
               PROVE  b.full /\ Spared(b.id)'
    BY DEF ListsStaySafe
  <2>1. job[k].pc = "delete" /\ b \in job[k].old
    BY <1>3, <1>4
  <2>2. job[k] \in [pc : {"delete"}, old : SUBSET Archive]
    BY <1>1, <2>1 DEF JobRecords, NoJob
  <2>3. b.id \in Nat /\ b.full /\ Spared(b.id)
    BY <2>1, <2>2, BackupBounds DEF Archive, BackupInv, ListsStaySafe
  <2> QED
    BY <1>10, <2>3
<1> QED
  BY <1>4, <1>6, <1>7, <1>11, <1>12 DEF BackupInv

\* A step that moves one job and leaves the archives alone.
LEMMA JobMoves ==
  ASSUME BackupInv, NEW j \in Jobs, NEW x \in JobRecords, job' = [job EXCEPT ![j] = x],
         x.pc = "delete" => \A a \in x.old : a.full /\ Spared(a.id)',
         UNCHANGED <<store, uploads, keepCount, made, dropped>>,
         fewestKept' \in 1..MaxKeep, fewestKept' <= fewestKept
  PROVE  BackupInv'
<1>1. /\ job \in [Jobs -> JobRecords] /\ IsFiniteSet(Kept) /\ store \subseteq Archive
      /\ keepCount \in 1..MaxKeep /\ uploads \in 0..MaxArchives
      /\ made \subseteq Archive /\ dropped \subseteq Archive
  BY DEF BackupInv, BackupTypeOK
<1>2. /\ job' \in [Jobs -> JobRecords] /\ job'[j] = x
      /\ \A k \in Jobs : k # j => job'[k] = job[k]
  BY <1>1
<1>3. Kept' = Kept
  BY DEF Kept
<1> QED
  BY <1>1, <1>2, <1>3, NothingDeleted

\* A step of the backups keeps the invariant.
LEMMA BackupStepInv ==
  ASSUME BackupInv, [BackupNext]_backupVars
  PROVE  BackupInv'
<1>1. /\ job \in [Jobs -> JobRecords] /\ IsFiniteSet(Kept) /\ store \subseteq Archive
      /\ fewestKept \in 1..MaxKeep /\ keepCount \in 1..MaxKeep /\ uploads \in 0..MaxArchives
      /\ made \subseteq Archive /\ dropped \subseteq Archive
      /\ fewestKept \in Int /\ fewestKept <= fewestKept
  BY BackupBounds DEF BackupInv, BackupTypeOK
<1>2. CASE UNCHANGED backupVars
  BY <1>2 DEF backupVars, BackupInv, BackupTypeOK, ListsStaySafe, GoneWasOld, Spared, Newer, Kept
<1>3. ASSUME NEW n \in 1..MaxKeep, SetKeepCount(n) PROVE BackupInv'
  <2>1. keepCount' = n /\ UNCHANGED <<store, uploads, job, fewestKept, made, dropped>>
    BY <1>3 DEF SetKeepCount, historyVars
  <2>2. BackupTypeOK'
    BY <1>1, <2>1, BackupTypeFollows
  <2> QED
    BY <2>1, <2>2 DEF BackupInv, ListsStaySafe, GoneWasOld, Spared, Newer, Kept
<1>4. ASSUME NEW a \in store, DeleteBackup(a) PROVE BackupInv'
  <2>1. /\ store' = store \ {a} /\ dropped' = dropped \cup {a}
        /\ UNCHANGED <<uploads, job, keepCount, fewestKept, made>>
    BY <1>4 DEF DeleteBackup
  <2>2. Kept' = Kept /\ store' \subseteq Archive /\ dropped' \subseteq Archive
    BY <1>1, <2>1 DEF Kept
  <2> QED
    BY <1>1, <2>1, <2>2, NothingDeleted
<1>5. NoJob \in JobRecords /\ NoJob.pc # "delete"
  BY DEF NoJob, JobRecords
<1>6. ASSUME NEW j \in Jobs, NEW full \in BOOLEAN, StartBackup(j, full) PROVE BackupInv'
  <2> DEFINE x == [pc |-> "archive", full |-> full]
  <2>1. /\ x \in JobRecords /\ x.pc # "delete" /\ job' = [job EXCEPT ![j] = x]
        /\ UNCHANGED <<store, uploads, keepCount, fewestKept, made, dropped>>
    BY <1>6 DEF StartBackup, ToJob, JobRecords, historyVars
  <2> HIDE DEF x
  <2> QED
    BY <1>1, <2>1, JobMoves
<1>7. ASSUME NEW j \in Jobs, ArchiveEnds(j) PROVE BackupInv'
  <2>1. job[j].pc = "archive" /\ UNCHANGED <<store, uploads, keepCount, fewestKept, made, dropped>>
    BY <1>7 DEF ArchiveEnds, historyVars
  <2>2. job[j].full \in BOOLEAN
    BY <1>1, <2>1 DEF JobRecords, NoJob
  <2>3. CASE ToJob(j, NoJob)
    BY <1>1, <1>5, <2>1, <2>3, JobMoves DEF ToJob
  <2>4. ASSUME NEW complete \in {TRUE, ~job[j].full},
               ToJob(j, [pc |-> "upload", full |-> job[j].full, complete |-> complete])
        PROVE  BackupInv'
    <3> DEFINE x == [pc |-> "upload", full |-> job[j].full, complete |-> complete]
    <3>1. complete \in BOOLEAN
      BY <2>2
    <3>2. x \in JobRecords /\ x.pc # "delete" /\ job' = [job EXCEPT ![j] = x]
      BY <2>2, <2>4, <3>1 DEF ToJob, JobRecords
    <3> HIDE DEF x
    <3> QED
      BY <1>1, <2>1, <3>2, JobMoves
  <2> QED
    BY <1>7, <2>3, <2>4 DEF ArchiveEnds
<1>8. ASSUME NEW j \in Jobs, UploadEnds(j) PROVE BackupInv'
  <2>1. UNCHANGED <<keepCount, fewestKept, dropped>>
    BY <1>8 DEF UploadEnds
  <2>2. CASE ToJob(j, NoJob) /\ UNCHANGED <<store, uploads, made>>
    BY <1>1, <1>5, <2>1, <2>2, JobMoves DEF ToJob
  <2>3. ASSUME NEW a \in Archive, a.id = uploads + 1, uploads' = uploads + 1,
               store' = store \cup {a}, made' = made \cup {a},
               ToJob(j, IF a.full /\ a.complete THEN [pc |-> "prune"] ELSE NoJob)
        PROVE  BackupInv'
    <3> DEFINE x == IF a.full /\ a.complete THEN [pc |-> "prune"] ELSE NoJob
    <3>1. x \in JobRecords /\ x.pc # "delete" /\ job' = [job EXCEPT ![j] = x]
      BY <1>5, <2>3 DEF ToJob, JobRecords
    <3> HIDE DEF x
    <3>2. job' \in [Jobs -> JobRecords] /\ job'[j] = x /\ \A k \in Jobs : k # j => job'[k] = job[k]
      BY <1>1, <3>1
    <3>3. uploads' \in 0..MaxArchives
      BY <1>1, <2>3, BackupBounds DEF Archive
    <3>4. store' \subseteq Archive /\ made' \subseteq Archive /\ Kept' = Kept \cup {a}
      BY <1>1, <2>1, <2>3 DEF Kept
    <3>5. IsFiniteSet(Kept')
      BY <1>1, <3>4, FS_AddElement
    <3>6. made' \ Kept' \subseteq made \ Kept
      BY <2>3, <3>4
    <3> QED
      BY <1>1, <2>1, <3>1, <3>2, <3>3, <3>4, <3>5, <3>6, NothingDeleted
  <2> QED
    BY <1>8, <2>2, <2>3 DEF UploadEnds
<1>9. ASSUME NEW j \in Jobs, PruneLists(j) PROVE BackupInv'
  <2>1. UNCHANGED <<store, uploads, keepCount, made, dropped>>
    BY <1>9 DEF PruneLists
  <2>2. CASE ToJob(j, NoJob) /\ UNCHANGED fewestKept
    BY <1>1, <1>5, <2>1, <2>2, JobMoves DEF ToJob
  <2>3. CASE /\ ToJob(j, [pc |-> "delete", old |-> PastKeep(keepCount)])
             /\ fewestKept' = IF keepCount < fewestKept THEN keepCount ELSE fewestKept
    <3> DEFINE x == [pc |-> "delete", old |-> PastKeep(keepCount)]
    <3>1. PastKeep(keepCount) \subseteq Archive
      BY <1>1 DEF PastKeep
    <3>2. x \in JobRecords /\ x.old = PastKeep(keepCount) /\ job' = [job EXCEPT ![j] = x]
      BY <2>3, <3>1 DEF ToJob, JobRecords
    <3> HIDE DEF x
    <3>3. fewestKept' \in 1..MaxKeep /\ fewestKept' <= fewestKept /\ fewestKept' <= keepCount
          /\ fewestKept' \in Int /\ keepCount \in Int
      BY <1>1, <2>3, BackupBounds
    <3>4. ASSUME NEW a \in PastKeep(keepCount) PROVE a.full /\ Spared(a.id)'
      <4> DEFINE there == {b \in {c \in store : c.full} : b.id > a.id}
      <4>1. a.full /\ Cardinality(there) >= keepCount
        BY DEF PastKeep
      <4>2. there \subseteq Newer(a.id) /\ Newer(a.id)' = Newer(a.id)
        BY <2>1 DEF Newer, Kept
      <4>3. IsFiniteSet(Newer(a.id)) /\ Cardinality(Newer(a.id)) \in Nat
        BY <1>1, NewerCounted
      <4>4. IsFiniteSet(there) /\ Cardinality(there) <= Cardinality(Newer(a.id))
        BY <4>2, <4>3, FS_Subset
      <4>5. Cardinality(there) \in Nat
        BY <4>4, FS_CardinalityType
      <4> HIDE DEF there
      <4> QED
        BY <3>3, <4>1, <4>2, <4>3, <4>4, <4>5 DEF Spared
    <3> QED
      BY <1>1, <2>1, <3>2, <3>3, <3>4, JobMoves
  <2> QED
    BY <1>9, <2>2, <2>3 DEF PruneLists
<1>10. ASSUME NEW j \in Jobs, PruneDeletes(j) PROVE BackupInv'
  <2>1. job[j].pc = "delete" /\ UNCHANGED <<uploads, keepCount, fewestKept, made, dropped>>
    BY <1>10 DEF PruneDeletes, historyVars
  <2>2. CASE ToJob(j, NoJob) /\ UNCHANGED store
    BY <1>1, <1>5, <2>1, <2>2, JobMoves DEF ToJob
  <2>3. ASSUME NEW a \in job[j].old, ToJob(j, [job[j] EXCEPT !.old = @ \ {a}]), store' = store
        PROVE  BackupInv'
    <3> DEFINE x == [job[j] EXCEPT !.old = @ \ {a}]
    <3>1. job[j] \in [pc : {"delete"}, old : SUBSET Archive]
      BY <1>1, <2>1 DEF JobRecords, NoJob
    <3>2. x \in JobRecords /\ x.old = job[j].old \ {a} /\ job' = [job EXCEPT ![j] = x]
      BY <2>3, <3>1 DEF ToJob, JobRecords
    <3> HIDE DEF x
    <3>3. \A b \in x.old : b.full /\ Spared(b.id)
      BY <2>1, <3>2 DEF BackupInv, ListsStaySafe
    <3>4. \A b \in x.old : b.full /\ Spared(b.id)'
      BY <2>1, <2>3, <3>3 DEF Spared, Newer, Kept
    <3> QED
      BY <1>1, <2>1, <2>3, <3>2, <3>4, JobMoves
  <2>4. ASSUME NEW a \in job[j].old, ToJob(j, [job[j] EXCEPT !.old = @ \ {a}]), store' = store \ {a}
        PROVE  BackupInv'
    BY <2>1, <2>4, DeletionInv DEF ToJob
  <2> QED
    BY <1>10, <2>2, <2>3, <2>4 DEF PruneDeletes
<1> QED
  BY <1>2, <1>3, <1>4, <1>6, <1>7, <1>8, <1>9, <1>10 DEF BackupNext

\* Backups start with an empty store.
LEMMA BackupInitInv == BackupInit => BackupInv
<1> SUFFICES ASSUME BackupInit PROVE BackupInv
  OBVIOUS
<1>1. job \in [Jobs -> JobRecords] /\ \A j \in Jobs : job[j].pc = "idle"
  BY DEF BackupInit, NoJob, JobRecords
<1>2. store = {} /\ dropped = {} /\ made = {} /\ Kept = {}
  BY DEF BackupInit, Kept
<1>3. keepCount \in 1..MaxKeep /\ fewestKept \in 1..MaxKeep /\ uploads \in 0..MaxArchives
  BY BackupBounds DEF BackupInit
<1>4. BackupTypeOK
  BY <1>1, <1>2, <1>3 DEF BackupTypeOK
<1> QED
  BY <1>1, <1>2, <1>4, FS_EmptySet DEF BackupInv, ListsStaySafe, GoneWasOld

\* The invariant of the backups holds throughout.
THEOREM BackupInvariant == BackupSpec => []BackupInv
<1>1. BackupInv /\ [BackupNext]_backupVars => BackupInv'
  BY BackupStepInv
<1> QED
  BY <1>1, BackupInitInv, PTL DEF BackupSpec

\* What is gone and the operator did not delete is a full backup, never a
\* one-domain one, and not one of the newest retention must keep.
THEOREM NewestKept == BackupSpec => []NewestSurvive
<1>1. BackupInv => NewestSurvive
  BY DEF BackupInv, GoneWasOld, Spared, Newer, Kept, NewestSurvive
<1> QED
  BY <1>1, BackupInvariant, PTL
=============================================================================
