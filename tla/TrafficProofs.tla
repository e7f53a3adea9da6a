---------------------------- MODULE TrafficProofs ----------------------------
(* Theorems about the certificate table, the issuance of certificates, the   *)
(* location rate limits and the bandwidth quota, and the type correctness of *)
(* every component that a visitor's request meets.                           *)
EXTENDS MC_Serving, ConnectionProofs

-----------------------------------------------------------------------------
(* CertTable *)

\* A manual certificate in m.certs is the one m.manualCerts remembers: the
\* comparison by pointer in LoadManualCerts finds it.
ServedManualRemembered == served.src = "manual" => served = manual

\* The inductive invariant of the table.
TableInv == TableTypeOK /\ ServedManualRemembered /\ ManualCertFollowsConfig

\* A step of the table keeps the invariant.
LEMMA TableStepInv ==
  ASSUME TableInv, [TableNext]_tableVars
  PROVE  TableInv'
<1> USE CertTableAssumption DEF CertTableAssumption, TableInv, TableTypeOK, ServedManualRemembered,
        ManualCertFollowsConfig, Modes, Sources, Pointer, NoPointer, NextPointer
<1>1. CASE UNCHANGED tableVars
  BY <1>1 DEF tableVars
<1>2. CASE AcmeStores
  BY <1>2 DEF AcmeStores, NewPointer
<1>2a. CASE RegisterCert
  BY <1>2a DEF RegisterCert, NewPointer
<1>3. ASSUME NEW m \in Modes, Reconfigure(m) PROVE TableInv'
  BY <1>3 DEF Reconfigure
<1>4. CASE LoadManualCerts
  <2>1. CASE mode = "manual"
    <3>1. CASE UNCHANGED <<served, manual, loaded>>
      BY <1>4, <2>1, <3>1 DEF LoadManualCerts
    <3>2. CASE /\ loaded < MaxLoads /\ loaded' = loaded + 1
               /\ served' = [src |-> "manual", id |-> loaded + 1, staple |-> FALSE]
               /\ manual' = served'
      <4>1. served' \in Pointer /\ loaded' \in 0..MaxLoads
        BY <3>2
      <4> QED
        BY <1>4, <2>1, <3>2, <4>1 DEF LoadManualCerts
    <3> QED
      BY <1>4, <2>1, <3>1, <3>2 DEF LoadManualCerts, NewPointer
  <2>2. CASE mode = "auto"
    <3>1. UNCHANGED <<served, manual, loaded>>
      BY <1>4, <2>2 DEF LoadManualCerts
    <3> QED
      BY <1>4, <2>2, <3>1 DEF LoadManualCerts
  <2>3. CASE mode = "off"
    <3>1. /\ served' = (IF manual # NoPointer /\ served = manual THEN NoPointer ELSE served)
          /\ manual' = NoPointer /\ UNCHANGED <<loaded, mode, bare, refreshing, reloads>>
      BY <1>4, <2>3 DEF LoadManualCerts
    <3>2. served'.src # "manual" /\ served' \in Pointer /\ manual' \in Pointer
      BY <3>1
    <3>3. applying' \in BOOLEAN
      BY <1>4 DEF LoadManualCerts
    <3> QED
      BY <3>1, <3>2, <3>3
  <2> QED
    BY <2>1, <2>2, <2>3
<1>5. CASE RefreshStart
  BY <1>5 DEF RefreshStart
<1>6. CASE RefreshSwap
  <2> DEFINE fresh == [refreshing EXCEPT !.staple = TRUE]
  <2>1. fresh \in Pointer /\ fresh.src = refreshing.src
    OBVIOUS
  <2> HIDE DEF fresh
  <2>2. /\ \/ /\ served' = (IF served = refreshing THEN fresh ELSE served)
              /\ manual' = (IF served = refreshing /\ manual = refreshing THEN fresh ELSE manual)
           \/ UNCHANGED <<served, manual>>
        /\ refreshing' = NoPointer /\ UNCHANGED <<mode, bare, applying, loaded, reloads>>
    BY <1>6 DEF RefreshSwap, fresh
  <2> QED
    BY <2>1, <2>2
<1>7. CASE TableRestart
  <2>1. /\ served' \in Pointer /\ served'.src # "manual" /\ loaded' \in 0..MaxLoads
        /\ served'.src = "uploaded" => bare'
    <3>1. CASE /\ NewPointer
               /\ \E src \in {"acme", "uploaded"} :
                    /\ src = "uploaded" => bare'
                    /\ served' = [src |-> src, id |-> NextPointer, staple |-> FALSE]
      BY <3>1 DEF NewPointer
    <3>2. CASE served' = NoPointer /\ UNCHANGED loaded
      BY <3>2
    <3> QED
      BY <1>7, <3>1, <3>2 DEF TableRestart
  <2> QED
    BY <1>7, <2>1 DEF TableRestart
<1> QED
  BY <1>1, <1>2, <1>2a, <1>3, <1>4, <1>5, <1>6, <1>7 DEF TableNext

\* The invariant of the certificate table holds throughout.
THEOREM TableInvariant == TableSpec => []TableInv
<1>1. TableInit => TableInv
  <2> SUFFICES ASSUME TableInit PROVE TableInv
    OBVIOUS
  <2>1. bare \in BOOLEAN /\ applying \in BOOLEAN
    BY Zenon DEF TableInit
  <2>2. NoPointer \in Pointer /\ NoPointer.src = "none" /\ 0 \in 0..MaxLoads /\ 0 \in 0..MaxReloads
    BY CertTableAssumption DEF CertTableAssumption, Sources, Pointer, NoPointer
  <2> QED
    BY <2>1, <2>2 DEF TableInit, TableInv, TableTypeOK, ServedManualRemembered, ManualCertFollowsConfig
<1>2. TableInv /\ [TableNext]_tableVars => TableInv'
  BY TableStepInv
<1> QED
  BY <1>1, <1>2, PTL DEF TableSpec

\* No order of reloads, staple refreshes, ACME orders and restarts leaves the
\* operator's certificate served after the configuration dropped it, or picks an
\* uploaded pair up again while domains are configured.
THEOREM ManualCertRemoved == TableSpec => []ManualCertFollowsConfig
  BY TableInvariant, PTL DEF TableInv

-----------------------------------------------------------------------------
(* LocationLimits *)

\* A counter is marked as raced only after it left the map.
RacedLeftMap == key \notin raced /\ raced \subseteq 1..counters

\* A request on its way to a counter is on the one in the map, or on one that
\* was deleted under it.
HitsOnKey ==
  \A h \in Hits : IF hit[h].pc = "count" THEN hit[h].on # 0 /\ (hit[h].on = key \/ hit[h].on \in raced)
                  ELSE hit[h].on = 0

\* While nobody touched the counter the janitor found idle, it is idle, and
\* nobody is on the way to it.
JanitorSawIdle ==
  (janitor # 0 /\ ~touched) => counter[janitor].age = "idle" /\ \A h \in Hits : hit[h].on # janitor

\* The inductive invariant of the location limits.
LimitInv == LimitTypeOK /\ OneRunningCount /\ RacedLeftMap /\ HitsOnKey /\ JanitorSawIdle

\* A step of a request, of time or of the janitor keeps the invariant.
LEMMA LimitStepInv ==
  ASSUME LimitInv, [LimitNext]_limitVars
  PROVE  LimitInv'
<1>0. /\ MaxCounters \in Nat /\ HitLimit \in Nat /\ counters \in 0..MaxCounters /\ key \in 0..counters
      /\ counter \in [Counters -> [n : 0..(HitLimit + 1), age : Ages]]
      /\ hit \in [Hits -> [pc : {"rest", "count"}, on : 0..counters]]
      /\ janitor \in {0, key} /\ touched \in BOOLEAN /\ raced \subseteq 1..counters
      /\ key \notin raced /\ Counters = 1..MaxCounters
      /\ \A c \in Counters : (counter[c].age = "live" /\ c \notin raced) => c = key
      /\ \A h \in Hits : IF hit[h].pc = "count"
                         THEN hit[h].on # 0 /\ (hit[h].on = key \/ hit[h].on \in raced)
                         ELSE hit[h].on = 0
      /\ (janitor # 0 /\ ~touched) => counter[janitor].age = "idle" /\ \A h \in Hits : hit[h].on # janitor
  BY LocationLimitsAssumption DEF LocationLimitsAssumption, LimitInv, LimitTypeOK, OneRunningCount,
     RacedLeftMap, HitsOnKey, JanitorSawIdle, Counters
<1>1. CASE UNCHANGED limitVars
  BY <1>1 DEF limitVars, LimitInv, LimitTypeOK, OneRunningCount, RacedLeftMap, HitsOnKey, JanitorSawIdle
<1> USE DEF OneRunningCount, RacedLeftMap, HitsOnKey, JanitorSawIdle
<1>2. ASSUME NEW h \in Hits, FindCounter(h) PROVE LimitInv'
  <2>1. /\ hit' = [hit EXCEPT ![h] = [pc |-> "count", on |-> key']]
        /\ touched' = (touched \/ janitor # 0) /\ UNCHANGED <<counter, janitor, raced>>
        /\ IF key # 0 THEN UNCHANGED <<key, counters>>
           ELSE counters < MaxCounters /\ counters' = counters + 1 /\ key' = counters + 1
        /\ hit[h].pc = "rest"
    BY <1>2 DEF FindCounter
  <2>2. /\ counters' \in 0..MaxCounters /\ key' \in 1..counters' /\ counters <= counters'
        /\ key' \in Counters /\ (key # 0 => key' = key) /\ (key = 0 => key' > counters)
    BY <1>0, <2>1
  <2>3. \A g \in Hits : hit'[g] = IF g = h THEN [pc |-> "count", on |-> key'] ELSE hit[g]
    BY <1>0, <2>1
  <2>4. hit' \in [Hits -> [pc : {"rest", "count"}, on : 0..counters']]
    <3>1. \A g \in Hits : hit[g] \in [pc : {"rest", "count"}, on : 0..counters']
      BY <1>0, <2>2
    <3> QED
      BY <1>0, <2>1, <2>2, <3>1
  <2>5. LimitTypeOK'
    <3>1. touched' \in BOOLEAN
      BY <2>1
    <3>2. janitor' \in {0, key'} /\ raced' \in SUBSET Counters /\ key' \in 0..counters'
      BY <1>0, <2>1, <2>2
    <3> QED
      BY <1>0, <2>1, <2>2, <2>4, <3>1, <3>2 DEF LimitTypeOK
  <2>6. OneRunningCount' /\ RacedLeftMap'
    BY <1>0, <2>1, <2>2
  <2>7. HitsOnKey'
    BY <1>0, <2>1, <2>2, <2>3
  <2>8. JanitorSawIdle'
    <3>1. janitor' # 0 => touched'
      BY <2>1
    <3> QED
      BY <3>1
  <2> QED
    BY <2>5, <2>6, <2>7, <2>8 DEF LimitInv
<1>3. ASSUME NEW h \in Hits, CountHit(h) PROVE LimitInv'
  <2> DEFINE c == hit[h].on
             m == (IF counter[c].age = "live" THEN counter[c].n ELSE 0) + 1
             x == [n |-> IF m > HitLimit THEN HitLimit + 1 ELSE m, age |-> "live"]
  <2>1. /\ hit[h].pc = "count" /\ counter' = [counter EXCEPT ![c] = x]
        /\ hit' = [hit EXCEPT ![h] = [pc |-> "rest", on |-> 0]]
        /\ UNCHANGED <<key, counters, janitor, touched, raced>>
    BY <1>3 DEF CountHit
  <2>2. c \in Counters /\ (c = key \/ c \in raced)
    BY <1>0, <2>1
  <2>3. x \in [n : 0..(HitLimit + 1), age : Ages] /\ x.age = "live"
    <3>1. m \in 1..(HitLimit + 2)
      BY <1>0, <2>2
    <3> QED
      BY <1>0, <3>1 DEF Ages
  <2> HIDE DEF x
  <2>4. /\ counter' \in [Counters -> [n : 0..(HitLimit + 1), age : Ages]]
        /\ \A d \in Counters : counter'[d] = IF d = c THEN x ELSE counter[d]
        /\ hit' \in [Hits -> [pc : {"rest", "count"}, on : 0..counters]]
        /\ \A g \in Hits : hit'[g] = IF g = h THEN [pc |-> "rest", on |-> 0] ELSE hit[g]
    BY <1>0, <2>1, <2>2, <2>3
  <2>5. LimitTypeOK'
    BY <2>1, <2>4 DEF LimitInv, LimitTypeOK
  <2>6. OneRunningCount' /\ RacedLeftMap' /\ HitsOnKey'
    BY <1>0, <2>1, <2>2, <2>4
  <2>7. JanitorSawIdle'
    BY <1>0, <2>1, <2>2, <2>4
  <2> QED
    BY <2>5, <2>6, <2>7 DEF LimitInv
<1>4. ASSUME NEW c \in Counters, NEW age \in Ages, CounterAges(c, age) PROVE LimitInv'
  <2>1. /\ counter' \in [Counters -> [n : 0..(HitLimit + 1), age : Ages]]
        /\ \A d \in Counters : counter'[d].age = IF d = c THEN age ELSE counter[d].age
        /\ age \in {"over", "idle"} /\ counter[c].age # "idle"
        /\ UNCHANGED <<key, counters, hit, janitor, touched, raced>>
    BY <1>0, <1>4 DEF CounterAges
  <2>2. LimitTypeOK'
    BY <2>1 DEF LimitInv, LimitTypeOK
  <2>3. OneRunningCount' /\ RacedLeftMap' /\ HitsOnKey'
    BY <1>0, <2>1
  <2>4. JanitorSawIdle'
    <3>1. janitor # 0 => janitor \in Counters
      BY <1>0
    <3> QED
      BY <1>0, <2>1, <3>1
  <2> QED
    BY <2>2, <2>3, <2>4 DEF LimitInv
<1>5. CASE SweepChecks
  <2>1. /\ janitor = 0 /\ key # 0 /\ counter[key].age = "idle" /\ janitor' = key
        /\ touched' = (\E h \in Hits : hit[h].on = key)
        /\ UNCHANGED <<key, counters, counter, hit, raced>>
    BY <1>5 DEF SweepChecks
  <2>2. touched' \in BOOLEAN
    BY <2>1
  <2>3. LimitTypeOK'
    BY <2>1, <2>2 DEF LimitInv, LimitTypeOK
  <2> QED
    BY <1>0, <2>1, <2>3 DEF LimitInv
<1>6. CASE SweepDeletes
  <2>1. /\ janitor # 0 /\ janitor = key /\ key' = 0 /\ janitor' = 0 /\ touched' = FALSE
        /\ raced' = IF touched THEN raced \cup {key} ELSE raced
        /\ UNCHANGED <<counters, counter, hit>>
    BY <1>0, <1>6 DEF SweepDeletes
  <2>2. key \in 1..counters /\ raced' \subseteq 1..counters /\ raced' \in SUBSET Counters /\ 0 \notin raced'
    BY <1>0, <2>1
  <2>3. LimitTypeOK'
    <3>1. touched' \in BOOLEAN /\ janitor' \in {0, key'}
      BY <2>1
    <3>2. key' \in 0..counters'
      BY <1>0, <2>1
    <3> QED
      BY <1>0, <2>1, <2>2, <3>1, <3>2 DEF LimitTypeOK
  <2>4. OneRunningCount'
    <3> SUFFICES ASSUME NEW c \in Counters, counter[c].age = "live", c \notin raced' PROVE FALSE
      BY <2>1
    <3>1. c = key /\ ~touched
      BY <1>0, <2>1
    <3> QED
      BY <1>0, <2>1, <3>1
  <2>5. HitsOnKey'
    BY <1>0, <2>1
  <2> QED
    BY <2>1, <2>2, <2>3, <2>4, <2>5 DEF LimitInv
<1> QED
  BY <1>1, <1>2, <1>3, <1>4, <1>5, <1>6 DEF LimitNext

\* The invariant of the location limits holds throughout.
THEOREM LimitInvariant == LimitSpec => []LimitInv
<1>1. LimitInit => LimitInv
  <2> SUFFICES ASSUME LimitInit PROVE LimitInv
    OBVIOUS
  <2>1. LimitTypeOK
    <3>1. touched \in BOOLEAN /\ raced \in SUBSET Counters
      BY DEF LimitInit
    <3>2. \A c \in Counters : counter[c] \in [n : 0..(HitLimit + 1), age : Ages]
      BY LocationLimitsAssumption DEF LocationLimitsAssumption, LimitInit, Ages
    <3>3. key \in 0..counters /\ counters \in 0..MaxCounters /\ janitor \in {0, key}
      BY LocationLimitsAssumption DEF LocationLimitsAssumption, LimitInit
    <3>4. hit \in [Hits -> [pc : {"rest", "count"}, on : 0..counters]]
      BY <3>3 DEF LimitInit
    <3> QED
      BY <3>1, <3>2, <3>3, <3>4 DEF LimitInit, LimitTypeOK
  <2>2. OneRunningCount /\ RacedLeftMap /\ HitsOnKey /\ JanitorSawIdle
    BY DEF LimitInit, OneRunningCount, RacedLeftMap, HitsOnKey, JanitorSawIdle
  <2> QED
    BY <2>1, <2>2 DEF LimitInv
<1>2. LimitInv /\ [LimitNext]_limitVars => LimitInv'
  BY LimitStepInv
<1> QED
  BY <1>1, <1>2, PTL DEF LimitSpec

\* A client has one running count per location, whatever the janitor deletes
\* beside the requests, except for the counters taken up under its hands.
THEOREM QuotaNotHandedOutTwice == LimitSpec => []OneRunningCount
  BY LimitInvariant, PTL DEF LimitInv

-----------------------------------------------------------------------------
(* CertIssuance *)

\* A caller that got a group from the map has one that was created.
CallersHaveGroup == \A c \in Callers : caller[c].pc # "idle" => caller[c].group \in 1..groups

\* An order that is past the CA has its certificate.
FlightHasCert == \A g \in Groups : flight[g].pc \in SavePCs \cup {"stored"} => flight[g].id # 0

\* Outside the frail case one save runs at a time.
SavesAlone == ~frail => \A g, h \in Saving : g = h

\* What a save finds and has done at each of its steps: the pair is whole, or
\* the previous pair is, until both files are renamed.
SaveProgress(g) ==
  /\ flight[g].pc \in {"link", "linkKey", "link2", "linkCert"} => disk.cert = 0 \/ Intact
  /\ flight[g].pc = "linkKey" => disk.key # 0
  /\ flight[g].pc \in {"link2", "linkCert"} => disk.key # 0 /\ disk.prevKey = disk.key
  /\ flight[g].pc = "linkCert" => disk.cert # 0
  /\ flight[g].pc = "key"   => \/ disk.cert = 0
                               \/ Intact /\ disk.prevKey = disk.key /\ disk.prevCert = disk.cert
  /\ flight[g].pc = "cert"  => /\ disk.key # 0 /\ disk.key = flight[g].id
                               /\ disk.cert = 0 \/ (disk.prevKey # 0 /\ disk.prevKey = disk.prevCert)
  /\ flight[g].pc \in {"unlink", "meta"} => Intact
SavesProgress == ~frail => \A g \in Groups : SaveProgress(g)

FlightsWellFormed == CertTypeOK /\ CallersHaveGroup /\ FlightHasCert
SavesSafe         == SavesAlone /\ SavesProgress /\ PairStaysLoadable

\* The inductive invariant of the issuance.
CertInv == FlightsWellFormed /\ SavesSafe

CallRecords   == [pc : {"idle", "got", "wait"}, group : 0 .. MaxGroups, force : BOOLEAN]
FlightRecords == [pc : {"none", "order", "stored"} \cup SavePCs, force : BOOLEAN, id : Certs]

\* A step that neither saves nor touches the pair on disk keeps saves safe.
LEMMA SaveUntouched ==
  ASSUME SavesSafe, frail' = frail,
         disk'.key = disk.key, disk'.cert = disk.cert,
         disk'.prevKey = disk.prevKey, disk'.prevCert = disk.prevCert,
         \A g \in Groups : flight'[g].pc \in SavePCs => flight'[g] = flight[g]
  PROVE  SavesSafe'
<1>1. Saving' \subseteq Saving /\ (Intact' <=> Intact) /\ Loaded' = Loaded
  BY DEF Saving, Intact, Loaded
<1>2. SavesAlone' /\ PairStaysLoadable'
  BY <1>1 DEF SavesSafe, SavesAlone, PairStaysLoadable
<1>3. SavesProgress'
  BY <1>1 DEF SavesSafe, SavesProgress, SaveProgress, SavePCs
<1> QED
  BY <1>2, <1>3 DEF SavesSafe

\* A step of the one save that runs keeps saves safe when it keeps its own
\* progress and a pair that loads.
LEMMA SaveMoves ==
  ASSUME SavesSafe, NEW g \in Saving, frail' = frail, Saving' \subseteq Saving,
         \A h \in Groups : h # g => flight'[h] = flight[h],
         ~frail => SaveProgress(g)' /\ (disk'.cert # 0 => Loaded' # 0)
  PROVE  SavesSafe'
<1>1. SavesAlone' /\ PairStaysLoadable'
  BY DEF SavesSafe, SavesAlone, PairStaysLoadable
<1>2. ASSUME ~frail, NEW h \in Groups PROVE SaveProgress(h)'
  <2>1. CASE h = g
    BY <1>2, <2>1
  <2>2. CASE h # g
    <3>1. flight'[h].pc \notin SavePCs
      BY <1>2, <2>2 DEF SavesSafe, SavesAlone, Saving
    <3> QED
      BY <3>1 DEF SaveProgress, SavePCs
  <2> QED
    BY <2>1, <2>2
<1> QED
  BY <1>1, <1>2 DEF SavesSafe, SavesProgress

\* The end of an order keeps callers and flights well formed.
LEMMA EndFlightKeeps ==
  ASSUME FlightsWellFormed, NEW g \in Groups, EndFlight(g), UNCHANGED groups
  PROVE  /\ caller' \in [Callers -> CallRecords] /\ group' \in 0..groups
         /\ flight' \in [Groups -> FlightRecords]
         /\ CallersHaveGroup' /\ FlightHasCert'
         /\ \A h \in Groups : flight'[h] = IF h = g THEN NoFlight ELSE flight[h]
<1> USE CertIssuanceAssumption DEF CertIssuanceAssumption
<1>1. NoFlight \in FlightRecords /\ NoFlight.pc = "none" /\ NoCall \in CallRecords /\ NoCall.pc = "idle"
  BY DEF NoFlight, FlightRecords, NoCall, CallRecords, Certs
<1>2. /\ caller \in [Callers -> CallRecords] /\ flight \in [Groups -> FlightRecords]
      /\ group \in 0..groups /\ groups \in Nat
  BY DEF FlightsWellFormed, CertTypeOK, CallRecords, FlightRecords
<1>3. /\ flight' = [flight EXCEPT ![g] = NoFlight] /\ group' \in {0, group}
      /\ \A c \in Callers : caller'[c] \in {NoCall, caller[c]}
      /\ caller' = [c \in Callers |-> caller'[c]]
  BY DEF EndFlight
<1>4. /\ \A h \in Groups : flight'[h] = IF h = g THEN NoFlight ELSE flight[h]
      /\ flight' \in [Groups -> FlightRecords]
  BY <1>1, <1>2, <1>3
<1>5. caller' \in [Callers -> CallRecords] /\ group' \in 0..groups
  <2>1. \A c \in Callers : caller'[c] \in CallRecords
    BY <1>1, <1>2, <1>3
  <2>2. group' \in 0..groups
    BY <1>2, <1>3
  <2> QED
    BY <1>3, <2>1, <2>2
<1>6. CallersHaveGroup'
  BY <1>1, <1>3 DEF FlightsWellFormed, CallersHaveGroup
<1>7. FlightHasCert'
  BY <1>1, <1>4 DEF FlightsWellFormed, FlightHasCert, SavePCs
<1> QED
  BY <1>4, <1>5, <1>6, <1>7

\* A step of an order that only moves on keeps callers and flights well formed.
LEMMA ToStepKeeps ==
  ASSUME FlightsWellFormed, NEW g \in Groups, NEW pc \in SavePCs, ToStep(g, pc),
         flight[g].pc \in SavePCs \cup {"stored"}, UNCHANGED groups
  PROVE  /\ flight' \in [Groups -> FlightRecords] /\ CallersHaveGroup' /\ FlightHasCert'
         /\ caller' = caller /\ group' = group
         /\ \A h \in Groups : h # g => flight'[h] = flight[h]
         /\ flight'[g].pc = pc /\ flight'[g].id = flight[g].id
<1>1. flight \in [Groups -> FlightRecords] /\ flight' = [flight EXCEPT ![g].pc = pc]
      /\ UNCHANGED <<group, caller>>
  BY DEF FlightsWellFormed, CertTypeOK, FlightRecords, ToStep
<1>2. /\ flight' \in [Groups -> FlightRecords]
      /\ \A h \in Groups : h # g => flight'[h] = flight[h]
      /\ flight'[g].pc = pc /\ flight'[g].id = flight[g].id
  BY <1>1 DEF FlightRecords
<1> QED
  BY <1>1, <1>2 DEF FlightsWellFormed, CallersHaveGroup, FlightHasCert

\* A step of the callers keeps the invariant.
LEMMA CallerStepInv ==
  ASSUME CertInv, NEW c \in Callers,
         (\E force \in BOOLEAN : AskCert(c, force)) \/ DoIssue(c) \/ CallerLeaves(c)
  PROVE  CertInv'
<1>1. /\ caller \in [Callers -> CallRecords] /\ flight \in [Groups -> FlightRecords]
      /\ group \in 0..groups /\ groups \in 0..MaxGroups /\ MaxGroups \in Nat /\ MaxCerts \in Nat
      /\ Groups = 1..MaxGroups
      /\ \A b \in Callers : caller[b].pc # "idle" => caller[b].group \in 1..groups
  BY CertIssuanceAssumption DEF CertIssuanceAssumption, CertInv, FlightsWellFormed, CertTypeOK,
     CallRecords, FlightRecords, Groups, CallersHaveGroup
<1>2. NoCall \in CallRecords /\ NoCall.pc = "idle"
  BY <1>1 DEF NoCall, CallRecords
<1>3. ASSUME NEW force \in BOOLEAN, AskCert(c, force) PROVE CertInv'
  <2>1. /\ groups' \in 0..MaxGroups /\ group' \in 1..groups' /\ groups <= groups'
        /\ caller' = [caller EXCEPT ![c] = [pc |-> "got", group |-> group', force |-> force]]
        /\ UNCHANGED <<mem, flight, disk, issued, faults, frail>>
    BY <1>1, <1>3 DEF AskCert
  <2>2. caller' \in [Callers -> CallRecords]
    BY <1>1, <2>1 DEF CallRecords
  <2>3. CallersHaveGroup'
    BY <1>1, <2>1 DEF CallersHaveGroup
  <2>4. FlightsWellFormed'
    BY <2>1, <2>2, <2>3 DEF CertInv, FlightsWellFormed, CertTypeOK, FlightHasCert, CallRecords
  <2>5. SavesSafe'
    BY <2>1, SaveUntouched DEF CertInv
  <2> QED
    BY <2>4, <2>5 DEF CertInv
<1>4. CASE DoIssue(c)
  <2> DEFINE g == caller[c].group
             x == [pc |-> "order", force |-> caller[c].force, id |-> 0]
  <2>1. /\ caller[c].pc = "got" /\ caller' = [caller EXCEPT ![c].pc = "wait"] /\ g \in Groups
        /\ UNCHANGED <<mem, group, groups, disk, issued, faults, frail>>
        /\ flight' = flight \/ flight' = [flight EXCEPT ![g] = x]
    BY <1>1, <1>4 DEF DoIssue
  <2>2. caller' \in [Callers -> CallRecords] /\ CallersHaveGroup'
    BY <1>1, <2>1 DEF CallRecords, CallersHaveGroup
  <2>3. x \in FlightRecords /\ x.pc = "order"
    BY <1>1 DEF FlightRecords, Certs, CallRecords
  <2> HIDE DEF x
  <2>4. /\ flight' \in [Groups -> FlightRecords]
        /\ \A h \in Groups : flight'[h] = flight[h] \/ flight'[h].pc = "order"
    BY <1>1, <2>1, <2>3
  <2>5. FlightHasCert' /\ \A h \in Groups : flight'[h].pc \in SavePCs => flight'[h] = flight[h]
    BY <2>4 DEF CertInv, FlightsWellFormed, FlightHasCert, SavePCs
  <2>6. FlightsWellFormed'
    BY <2>1, <2>2, <2>4, <2>5 DEF CertInv, FlightsWellFormed, CertTypeOK, CallRecords, FlightRecords
  <2>7. SavesSafe'
    BY <2>1, <2>5, SaveUntouched DEF CertInv
  <2> QED
    BY <2>6, <2>7 DEF CertInv
<1>5. CASE CallerLeaves(c)
  <2>1. /\ caller' = [caller EXCEPT ![c] = NoCall]
        /\ UNCHANGED <<mem, group, groups, flight, disk, issued, faults, frail>>
    BY <1>5 DEF CallerLeaves
  <2>2. caller' \in [Callers -> CallRecords] /\ CallersHaveGroup'
    BY <1>1, <1>2, <2>1 DEF CallersHaveGroup
  <2>3. FlightsWellFormed'
    BY <2>1, <2>2 DEF CertInv, FlightsWellFormed, CertTypeOK, FlightHasCert, CallRecords
  <2>4. SavesSafe'
    BY <2>1, SaveUntouched DEF CertInv
  <2> QED
    BY <2>3, <2>4 DEF CertInv
<1> QED
  BY <1>3, <1>4, <1>5

DiskRecords == [key : Certs, cert : Certs, prevKey : Certs, prevCert : Certs, meta : BOOLEAN]

\* A step of an order that ends it and leaves the pair on disk as it is; the one
\* save that runs may end the frailty with it.
LEMMA EndedInv ==
  ASSUME CertInv, NEW g \in Groups, EndFlight(g), UNCHANGED <<mem, groups, issued>>,
         frail' = frail \/ Steadied(g),
         faults' \in 0..MaxFaults, disk' \in DiskRecords,
         disk'.key = disk.key, disk'.cert = disk.cert,
         disk'.prevKey = disk.prevKey, disk'.prevCert = disk.prevCert
  PROVE  CertInv'
<1>1. /\ caller' \in [Callers -> CallRecords] /\ group' \in 0..groups
      /\ flight' \in [Groups -> FlightRecords] /\ CallersHaveGroup' /\ FlightHasCert'
      /\ \A h \in Groups : flight'[h] = IF h = g THEN NoFlight ELSE flight[h]
  BY EndFlightKeeps DEF CertInv
<1>2. frail' \in BOOLEAN
  BY DEF CertInv, FlightsWellFormed, CertTypeOK, Steadied
<1>3. FlightsWellFormed'
  BY <1>1, <1>2 DEF CertInv, FlightsWellFormed, CertTypeOK, CallRecords, FlightRecords, DiskRecords
<1>4. NoFlight.pc \notin SavePCs
  BY DEF NoFlight, SavePCs
<1>5. CASE frail' = frail
  <2>1. SavesSafe'
    BY <1>1, <1>4, <1>5, SaveUntouched DEF CertInv
  <2> QED
    BY <1>3, <2>1 DEF CertInv
<1>6. CASE frail' # frail
  <2>1. Saving = {g} /\ Intact
    BY <1>6, Zenon DEF Steadied, CertInv, FlightsWellFormed, CertTypeOK
  <2>2. \A h \in Groups : flight'[h].pc \notin SavePCs
    BY <1>1, <1>4, <2>1 DEF Saving
  <2>3. SavesAlone' /\ SavesProgress'
    BY <2>2 DEF SavesAlone, Saving, SavesProgress, SaveProgress, SavePCs
  <2>4. PairStaysLoadable'
    BY <2>1 DEF PairStaysLoadable, Loaded, Intact
  <2> QED
    BY <1>3, <2>3, <2>4 DEF CertInv, SavesSafe
<1> QED
  BY <1>5, <1>6

\* A step of a save that goes on.
LEMMA SavedInv ==
  ASSUME CertInv, NEW g \in Groups, NEW pc \in SavePCs, ToStep(g, pc), flight[g].pc \in SavePCs,
         UNCHANGED <<mem, groups, issued, faults, frail>>, disk' \in DiskRecords,
         ~frail => SaveProgress(g)' /\ (disk'.cert # 0 => Loaded' # 0)
  PROVE  CertInv'
<1>1. /\ flight' \in [Groups -> FlightRecords] /\ CallersHaveGroup' /\ FlightHasCert'
      /\ caller' = caller /\ group' = group
      /\ \A h \in Groups : h # g => flight'[h] = flight[h]
  BY ToStepKeeps DEF CertInv
<1>2. FlightsWellFormed'
  BY <1>1 DEF CertInv, FlightsWellFormed, CertTypeOK, FlightRecords, DiskRecords
<1>3. g \in Saving /\ Saving' \subseteq Saving
  BY <1>1 DEF Saving
<1>4. SavesSafe'
  BY <1>1, <1>3, SaveMoves DEF CertInv
<1> QED
  BY <1>2, <1>4 DEF CertInv

\* A step of an order or of its save keeps the invariant.
LEMMA OrderStepInv ==
  ASSUME CertInv, NEW g \in Groups,
         \/ OrderEndsEarly(g) \/ OrderIssues(g) \/ SaveStages(g)
         \/ NothingToKeep(g) \/ DropStale(g) \/ LinkPrev(g) \/ LinkFails(g)
         \/ RenameKey(g) \/ RenameCert(g) \/ RenameFails(g) \/ DropPrev(g) \/ WriteMeta(g)
  PROVE  CertInv'
<1>1. /\ flight \in [Groups -> FlightRecords] /\ MaxGroups \in Nat /\ MaxCerts \in Nat /\ MaxFaults \in Nat
      /\ Groups = 1..MaxGroups /\ Certs = 0..MaxCerts /\ disk \in DiskRecords /\ faults \in 0..MaxFaults
      /\ issued \in 0..MaxCerts /\ frail \in BOOLEAN
      /\ flight[g].id \in Certs /\ (flight[g].pc \in SavePCs \cup {"stored"} => flight[g].id # 0)
  BY CertIssuanceAssumption DEF CertIssuanceAssumption, CertInv, FlightsWellFormed, CertTypeOK,
     FlightRecords, DiskRecords, Groups, Certs, FlightHasCert
<1>2. ~frail => SaveProgress(g)
  BY DEF CertInv, SavesSafe, SavesProgress
<1>3. CASE OrderEndsEarly(g)
  BY <1>1, <1>3, EndedInv DEF OrderEndsEarly
<1>4. CASE OrderIssues(g)
  <2> DEFINE x == [flight[g] EXCEPT !.pc = "stored", !.id = NextCert]
  <2>1. /\ flight' = [flight EXCEPT ![g] = x] /\ issued < MaxCerts /\ issued' = NextCert /\ mem' = NextCert
        /\ UNCHANGED <<caller, group, groups, disk, faults, frail>>
    BY <1>1, <1>4 DEF OrderIssues, Issue
  <2>2. NextCert \in Certs /\ NextCert # 0
    BY <1>1, <2>1 DEF NextCert
  <2>3. x \in FlightRecords /\ x.pc = "stored" /\ x.id # 0
    BY <1>1, <2>2 DEF FlightRecords
  <2> HIDE DEF x
  <2>4. /\ flight' \in [Groups -> FlightRecords]
        /\ \A h \in Groups : flight'[h] = IF h = g THEN x ELSE flight[h]
    BY <1>1, <2>1, <2>3
  <2>5. FlightHasCert' /\ \A h \in Groups : flight'[h].pc \in SavePCs => flight'[h] = flight[h]
    BY <2>3, <2>4 DEF CertInv, FlightsWellFormed, FlightHasCert, SavePCs
  <2>6. FlightsWellFormed'
    BY <2>1, <2>2, <2>4, <2>5 DEF CertInv, FlightsWellFormed, CertTypeOK, CallersHaveGroup, FlightRecords
  <2>7. SavesSafe'
    BY <2>1, <2>5, SaveUntouched DEF CertInv
  <2> QED
    BY <2>6, <2>7 DEF CertInv
<1>5. CASE SaveStages(g)
  <2>1. CASE EndFlight(g) /\ UNCHANGED frail
    BY <1>1, <1>5, <2>1, EndedInv DEF SaveStages
  <2>2. CASE ToStep(g, "link") /\ frail' = (frail \/ Saving # {} \/ (disk.cert # 0 /\ ~Intact))
    <3>1. /\ flight' \in [Groups -> FlightRecords] /\ CallersHaveGroup' /\ FlightHasCert'
          /\ caller' = caller /\ group' = group /\ flight'[g].pc = "link"
          /\ \A h \in Groups : h # g => flight'[h] = flight[h]
      BY <1>5, <2>2, ToStepKeeps DEF CertInv, SaveStages, SavePCs
    <3>2. frail' \in BOOLEAN
      BY <2>2
    <3>3. FlightsWellFormed'
      BY <1>5, <3>1, <3>2 DEF CertInv, FlightsWellFormed, CertTypeOK, FlightRecords, SaveStages
    <3>4. ~frail' => ~frail /\ Saving = {} /\ (disk.cert = 0 \/ Intact)
      BY <2>2
    <3>5. UNCHANGED disk
      BY <1>5 DEF SaveStages
    <3>6. ~frail' => \A h \in Groups : h # g => flight'[h].pc \notin SavePCs
      BY <3>1, <3>4 DEF Saving
    <3>7. SavesAlone'
      BY <3>6 DEF SavesAlone, Saving
    <3>8. SavesProgress'
      BY <3>1, <3>4, <3>5, <3>6 DEF SavesProgress, SaveProgress, SavePCs, Intact
    <3>9. PairStaysLoadable'
      BY <3>4, <3>5 DEF CertInv, SavesSafe, PairStaysLoadable, Loaded, Intact
    <3> QED
      BY <3>3, <3>7, <3>8, <3>9 DEF CertInv, SavesSafe
  <2> QED
    BY <1>5, <2>1, <2>2 DEF SaveStages
<1>6. CASE NothingToKeep(g)
  <2>1. /\ ToStep(g, "key") /\ UNCHANGED <<mem, groups, disk, issued, faults, frail>>
        /\ \/ flight[g].pc = "link" /\ disk.key = 0
           \/ flight[g].pc = "link2" /\ disk.cert = 0
    BY <1>6 DEF NothingToKeep
  <2>2. flight'[g].pc = "key"
    BY <2>1, ToStepKeeps DEF CertInv, SavePCs
  <2>3. disk.cert # 0 /\ ~frail => Loaded # 0
    BY DEF CertInv, SavesSafe, PairStaysLoadable
  <2>4. ~frail => SaveProgress(g)' /\ (disk'.cert # 0 => Loaded' # 0)
    BY <1>1, <1>2, <2>1, <2>2, <2>3 DEF SaveProgress, Loaded, Intact
  <2> QED
    BY <1>1, <2>1, <2>4, SavedInv DEF SavePCs
<1>7a. CASE DropStale(g) /\ flight[g].pc = "link"
  <2>1. /\ ToStep(g, "linkKey") /\ UNCHANGED <<mem, groups, issued, faults, frail>>
        /\ disk.key # 0 /\ disk' \in {disk, [disk EXCEPT !.prevKey = 0]}
    BY <1>7a DEF DropStale
  <2>2. flight'[g].pc = "linkKey"
    BY <1>7a, <2>1, ToStepKeeps DEF CertInv, SavePCs
  <2>3. disk' \in DiskRecords
    BY <1>1, <2>1 DEF DiskRecords
  <2>4. ~frail => SaveProgress(g)' /\ (disk'.cert # 0 => Loaded' # 0)
    BY <1>1, <1>2, <1>7a, <2>1, <2>2 DEF SaveProgress, Loaded, Intact, DiskRecords
  <2> QED
    BY <1>7a, <2>1, <2>3, <2>4, SavedInv DEF SavePCs
<1>7b. CASE DropStale(g) /\ flight[g].pc = "link2"
  <2>1. /\ ToStep(g, "linkCert") /\ UNCHANGED <<mem, groups, issued, faults, frail>>
        /\ disk.cert # 0 /\ disk' \in {disk, [disk EXCEPT !.prevCert = 0]}
    BY <1>7b DEF DropStale
  <2>2. flight'[g].pc = "linkCert"
    BY <1>7b, <2>1, ToStepKeeps DEF CertInv, SavePCs
  <2>3. disk' \in DiskRecords
    BY <1>1, <2>1 DEF DiskRecords
  <2>4. ~frail => SaveProgress(g)' /\ (disk'.cert # 0 => Loaded' # 0)
    BY <1>1, <1>2, <1>7b, <2>1, <2>2 DEF SaveProgress, Loaded, Intact, DiskRecords
  <2> QED
    BY <1>7b, <2>1, <2>3, <2>4, SavedInv DEF SavePCs
<1>7c. CASE LinkPrev(g) /\ flight[g].pc = "linkKey"
  <2>1. /\ ToStep(g, "link2") /\ UNCHANGED <<mem, groups, issued, faults, frail>>
        /\ disk' = [disk EXCEPT !.prevKey = disk.key]
    BY <1>7c DEF LinkPrev
  <2>2. flight'[g].pc = "link2"
    BY <1>7c, <2>1, ToStepKeeps DEF CertInv, SavePCs
  <2>3. disk' \in DiskRecords
    BY <1>1, <2>1 DEF DiskRecords
  <2>4. ~frail => SaveProgress(g)' /\ (disk'.cert # 0 => Loaded' # 0)
    BY <1>1, <1>2, <1>7c, <2>1, <2>2 DEF SaveProgress, Loaded, Intact, DiskRecords
  <2> QED
    BY <1>7c, <2>1, <2>3, <2>4, SavedInv DEF SavePCs
<1>7d. CASE LinkPrev(g) /\ flight[g].pc = "linkCert"
  <2>1. /\ ToStep(g, "key") /\ UNCHANGED <<mem, groups, issued, faults, frail>>
        /\ disk' = [disk EXCEPT !.prevCert = disk.cert]
    BY <1>7d DEF LinkPrev
  <2>2. flight'[g].pc = "key"
    BY <1>7d, <2>1, ToStepKeeps DEF CertInv, SavePCs
  <2>3. disk' \in DiskRecords
    BY <1>1, <2>1 DEF DiskRecords
  <2>4. ~frail => SaveProgress(g)' /\ (disk'.cert # 0 => Loaded' # 0)
    BY <1>1, <1>2, <1>7d, <2>1, <2>2 DEF SaveProgress, Loaded, Intact, DiskRecords
  <2> QED
    BY <1>7d, <2>1, <2>3, <2>4, SavedInv DEF SavePCs
<1>7. CASE LinkFails(g)
  <2>1. /\ ToStep(g, "key") /\ flight[g].pc \in SavePCs /\ frail' = TRUE
        /\ UNCHANGED <<mem, groups, disk, issued, faults>>
    BY <1>7 DEF LinkFails, SavePCs
  <2>2. /\ flight' \in [Groups -> FlightRecords] /\ CallersHaveGroup' /\ FlightHasCert'
        /\ caller' = caller /\ group' = group
    BY <2>1, ToStepKeeps DEF CertInv, SavePCs
  <2>3. FlightsWellFormed'
    BY <2>1, <2>2 DEF CertInv, FlightsWellFormed, CertTypeOK, FlightRecords
  <2>4. SavesSafe'
    BY <2>1 DEF SavesSafe, SavesAlone, SavesProgress, PairStaysLoadable
  <2> QED
    BY <2>3, <2>4 DEF CertInv
<1>8. CASE RenameKey(g)
  <2>1. /\ ToStep(g, "cert") /\ UNCHANGED <<mem, groups, issued, faults, frail>>
        /\ disk' = [disk EXCEPT !.key = flight[g].id] /\ flight[g].pc = "key"
    BY <1>8 DEF RenameKey
  <2>2. flight'[g].pc = "cert" /\ flight'[g].id = flight[g].id /\ flight[g].id # 0
    BY <1>1, <2>1, ToStepKeeps DEF CertInv, SavePCs
  <2>3. disk' \in DiskRecords
    BY <1>1, <2>1 DEF DiskRecords
  <2>4. ~frail => SaveProgress(g)' /\ (disk'.cert # 0 => Loaded' # 0)
    BY <1>1, <1>2, <2>1, <2>2 DEF SaveProgress, Loaded, Intact, DiskRecords
  <2> QED
    BY <2>1, <2>3, <2>4, SavedInv DEF SavePCs
<1>9. CASE RenameCert(g)
  <2>1. /\ ToStep(g, "unlink") /\ UNCHANGED <<mem, groups, issued, faults, frail>>
        /\ disk' = [disk EXCEPT !.cert = flight[g].id] /\ flight[g].pc = "cert"
    BY <1>9 DEF RenameCert
  <2>2. flight'[g].pc = "unlink" /\ flight[g].id # 0
    BY <1>1, <2>1, ToStepKeeps DEF CertInv, SavePCs
  <2>3. disk' \in DiskRecords
    BY <1>1, <2>1 DEF DiskRecords
  <2>4. ~frail => SaveProgress(g)' /\ (disk'.cert # 0 => Loaded' # 0)
    BY <1>1, <1>2, <2>1, <2>2 DEF SaveProgress, Loaded, Intact, DiskRecords
  <2> QED
    BY <2>1, <2>3, <2>4, SavedInv DEF SavePCs
<1>10. CASE RenameFails(g)
  BY <1>1, <1>10, EndedInv DEF RenameFails
<1>11. CASE DropPrev(g)
  <2>1. PICK keptKey \in {0, disk.prevKey}, keptCert \in {0, disk.prevCert} :
          disk' = [disk EXCEPT !.prevKey = keptKey, !.prevCert = keptCert]
    BY <1>11 DEF DropPrev
  <2>2. ToStep(g, "meta") /\ UNCHANGED <<mem, groups, issued, faults, frail>> /\ flight[g].pc = "unlink"
    BY <1>11 DEF DropPrev
  <2>3. flight'[g].pc = "meta"
    BY <2>2, ToStepKeeps DEF CertInv, SavePCs
  <2>4. disk' \in DiskRecords
    <3>1. keptKey \in Certs /\ keptCert \in Certs
      BY <1>1 DEF DiskRecords
    <3> QED
      BY <1>1, <2>1, <3>1 DEF DiskRecords
  <2>5. disk'.key = disk.key /\ disk'.cert = disk.cert
    BY <1>1, <2>1 DEF DiskRecords
  <2>6. ~frail => SaveProgress(g)' /\ (disk'.cert # 0 => Loaded' # 0)
    BY <1>1, <1>2, <2>2, <2>3, <2>5 DEF SaveProgress, Loaded, Intact
  <2> QED
    BY <2>2, <2>4, <2>6, SavedInv DEF SavePCs
<1>12. CASE WriteMeta(g)
  <2>1. /\ disk' \in DiskRecords /\ disk'.key = disk.key /\ disk'.cert = disk.cert
        /\ disk'.prevKey = disk.prevKey /\ disk'.prevCert = disk.prevCert
    BY <1>1, <1>12 DEF WriteMeta, DiskRecords
  <2> QED
    BY <1>1, <1>12, <2>1, EndedInv DEF WriteMeta
<1> QED
  BY <1>3, <1>4, <1>5, <1>6, <1>7a, <1>7b, <1>7c, <1>7d, <1>7, <1>8, <1>9, <1>10, <1>11, <1>12
  DEF DropStale, LinkPrev

\* A step of the issuance keeps the invariant.
LEMMA CertStepInv ==
  ASSUME CertInv, [CertNext]_certVars
  PROVE  CertInv'
<1>1. CASE UNCHANGED certVars
  BY <1>1 DEF certVars, CertInv, FlightsWellFormed, CertTypeOK, CallersHaveGroup, FlightHasCert,
     SavesSafe, SavesAlone, SavesProgress, SaveProgress, PairStaysLoadable, Saving, Loaded, Intact
<1>2. CASE CertRestart
  <2>1. /\ caller' = [c \in Callers |-> NoCall] /\ group' = 0 /\ flight' = [g \in Groups |-> NoFlight]
        /\ UNCHANGED <<groups, disk, issued>> /\ faults' \in 0..MaxFaults /\ frail' = (frail /\ ~Intact)
        /\ mem' \in {Loaded, NoCert}
    BY <1>2, CertIssuanceAssumption DEF CertIssuanceAssumption, CertRestart, CertInv,
       FlightsWellFormed, CertTypeOK
  <2>2. /\ NoFlight \in FlightRecords /\ NoFlight.pc = "none" /\ NoCall \in CallRecords
        /\ NoCall.pc = "idle" /\ mem' \in Certs
    BY <2>1, CertIssuanceAssumption DEF CertIssuanceAssumption, NoFlight, FlightRecords, NoCall,
       CallRecords, Certs, Loaded, NoCert, CertInv, FlightsWellFormed, CertTypeOK
  <2>3. caller' \in [Callers -> CallRecords] /\ flight' \in [Groups -> FlightRecords]
        /\ CallersHaveGroup' /\ FlightHasCert'
    BY <2>1, <2>2 DEF CallersHaveGroup, FlightHasCert, SavePCs
  <2>4. FlightsWellFormed'
    BY <2>1, <2>2, <2>3 DEF CertInv, FlightsWellFormed, CertTypeOK, CallRecords, FlightRecords
  <2>5. SavesSafe'
    <3>1. \A g \in Groups : flight'[g].pc \notin SavePCs
      BY <2>1, <2>2 DEF SavePCs
    <3>2. SavesAlone' /\ SavesProgress'
      BY <3>1 DEF SavesAlone, Saving, SavesProgress, SaveProgress, SavePCs
    <3>3. (Intact => Loaded # 0) /\ Loaded' = Loaded /\ disk' = disk
      BY <2>1 DEF Loaded, Intact
    <3>4. PairStaysLoadable'
      BY <2>1, <3>3 DEF CertInv, SavesSafe, PairStaysLoadable
    <3> QED
      BY <3>2, <3>4 DEF SavesSafe
  <2> QED
    BY <2>4, <2>5 DEF CertInv
<1> QED
  BY <1>1, <1>2, CallerStepInv, OrderStepInv DEF CertNext

\* The host starts without a certificate.
LEMMA CertInitInv == CertInit => CertInv
<1> SUFFICES ASSUME CertInit PROVE CertInv
  OBVIOUS
<1> USE CertIssuanceAssumption DEF CertIssuanceAssumption, CertInit
<1>1. frail \in BOOLEAN
  OBVIOUS
<1>2. caller \in [Callers -> CallRecords] /\ flight \in [Groups -> FlightRecords]
  BY DEF NoCall, NoFlight, CallRecords, FlightRecords, Certs
<1>3. disk \in DiskRecords /\ disk.cert = 0
  BY DEF NoFiles, DiskRecords, Certs
<1>4. FlightsWellFormed
  BY <1>1, <1>2, <1>3 DEF FlightsWellFormed, CertTypeOK, CallersHaveGroup, FlightHasCert, NoCall,
     NoFlight, NoCert, Certs, SavePCs, CallRecords, FlightRecords, DiskRecords
<1>5. SavesSafe
  BY <1>3 DEF SavesSafe, SavesAlone, Saving, SavesProgress, SaveProgress, PairStaysLoadable,
     NoFlight, SavePCs
<1> QED
  BY <1>4, <1>5 DEF CertInv

\* The invariant of the issuance holds throughout.
THEOREM CertInvariant == CertSpec => []CertInv
<1>1. CertInv /\ [CertNext]_certVars => CertInv'
  BY CertStepInv
<1> QED
  BY <1>1, CertInitInv, PTL DEF CertSpec

\* A certificate that reached the disk loads at every instant of a save that
\* kept the pair it replaces, after a failed rename and after a crash anywhere.
THEOREM PairAlwaysLoads == CertSpec => []PairStaysLoadable
  BY CertInvariant, PTL DEF CertInv, SavesSafe

-----------------------------------------------------------------------------
(* Bandwidth *)

Present        == {v \in Visits : visit[v].pc # "away"}
LedgerRecords  == [used : [Windows -> 0..CountCap], over : SUBSET Windows,
                   blocked : BOOLEAN, id : 0..MaxChanges]
VisitRecords   == [pc : {"away", "lookup", "quota", "handle", "record", "bill", "leave"},
                   quota : Quotas, limit : Quotas, id : 0..MaxChanges]

\* The inductive invariant of the quota.
BandwidthInv == BandwidthTypeOK /\ BlockFollowsQuota

\* The types, in the form the steps use.
LEMMA BandwidthTypes ==
  /\ BandwidthTypeOK <=>
       /\ slots = Cardinality(Present) /\ slots <= MaxConnections /\ site \in Sites /\ limits \in Quotas
       /\ ledger \in LedgerRecords /\ visit \in [Visits -> VisitRecords]
       /\ changes \in 0..MaxChanges /\ outdated \in BOOLEAN
  /\ BandwidthTypeOK' <=>
       /\ slots' = Cardinality(Present') /\ slots' <= MaxConnections /\ site' \in Sites /\ limits' \in Quotas
       /\ ledger' \in LedgerRecords /\ visit' \in [Visits -> VisitRecords]
       /\ changes' \in 0..MaxChanges /\ outdated' \in BOOLEAN
  BY DEF BandwidthTypeOK, Present, LedgerRecords, VisitRecords

\* What the assumptions say of the limits.
LEMMA QuotaFacts ==
  /\ MaxConnections \in Nat /\ MaxChanges \in Nat /\ CountCap \in Nat /\ NoQuota \in Quotas
  /\ \A q \in Quotas, w \in Windows : q[w] \in Nat
  /\ IsFiniteSet(Visits)
  BY BandwidthAssumption DEF BandwidthAssumption

\* One visit moves on: the visits present change by that visit.
LEMMA VisitMoves ==
  ASSUME BandwidthTypeOK, NEW v \in Visits, NEW x \in VisitRecords, visit' = [visit EXCEPT ![v] = x]
  PROVE  /\ visit' \in [Visits -> VisitRecords]
         /\ Cardinality(Present) \in Nat /\ Cardinality(Present') \in Nat
         /\ Cardinality(Present') = Cardinality(Present)
              + (IF x.pc # "away" THEN 1 ELSE 0) - (IF visit[v].pc # "away" THEN 1 ELSE 0)
<1>1. /\ visit' \in [Visits -> VisitRecords] /\ visit'[v] = x
      /\ \A u \in Visits : u # v => visit'[u] = visit[u]
  BY BandwidthTypes
<1>2. Present \in SUBSET Visits /\ Present \ {v} = Present' \ {v}
  BY <1>1 DEF Present
<1>3. IsFiniteSet(Present)
  BY <1>2, QuotaFacts, FS_Subset
<1>4. (v \in Present <=> visit[v].pc # "away") /\ (v \in Present' <=> x.pc # "away")
  BY <1>1 DEF Present
<1> QED
  BY <1>1, <1>2, <1>3, <1>4, OneMoves

\* A fresh ledger is within every limit, and well typed.
LEMMA FreshLedger ==
  ASSUME NEW id \in 0..MaxChanges
  PROVE  /\ NewUsage(id) \in LedgerRecords /\ ~NewUsage(id).blocked
         /\ \A q \in Quotas : ~Exceeded(NewUsage(id).used, q)
<1>1. \A w \in Windows : 0 \in 0..CountCap
  BY QuotaFacts
<1>2. NewUsage(id) \in LedgerRecords
  BY <1>1 DEF NewUsage, Unused, LedgerRecords
<1>3. ~NewUsage(id).blocked /\ \A w \in Windows : NewUsage(id).used[w] = 0
  BY DEF NewUsage, Unused
<1> QED
  BY <1>2, <1>3, QuotaFacts DEF Exceeded

\* A step of a request that leaves the ledger alone.
LEMMA VisitOnly ==
  ASSUME BandwidthInv, NEW v \in Visits, NEW x \in VisitRecords, visit' = [visit EXCEPT ![v] = x],
         UNCHANGED <<site, limits, ledger, changes, outdated>>,
         slots' \in Int, slots' <= MaxConnections,
         slots' = slots + (IF x.pc # "away" THEN 1 ELSE 0) - (IF visit[v].pc # "away" THEN 1 ELSE 0)
  PROVE  BandwidthInv'
<1>1. BandwidthTypeOK'
  BY VisitMoves, BandwidthTypes DEF BandwidthInv
<1> QED
  BY <1>1 DEF BandwidthInv, BlockFollowsQuota

\* The same, for a request that keeps its slot.
LEMMA VisitStays ==
  ASSUME BandwidthInv, NEW v \in Visits, NEW x \in VisitRecords, visit' = [visit EXCEPT ![v] = x],
         UNCHANGED <<slots, site, limits, ledger, changes, outdated>>,
         x.pc # "away", visit[v].pc # "away"
  PROVE  BandwidthInv'
<1>1. slots' \in Int /\ slots' <= MaxConnections
  <2>1. BandwidthTypeOK /\ Cardinality(Present) \in Nat
    BY VisitMoves DEF BandwidthInv
  <2> QED
    BY <2>1, BandwidthTypes
<1>2. slots' = slots + (IF x.pc # "away" THEN 1 ELSE 0) - (IF visit[v].pc # "away" THEN 1 ELSE 0)
  BY <1>1
<1> QED
  BY <1>1, <1>2, VisitOnly

\* A step of a request keeps the invariant.
LEMMA VisitStepInv ==
  ASSUME BandwidthInv, NEW v \in Visits, VisitStep(v)
  PROVE  BandwidthInv'
<1> DEFINE p == visit[v]
<1>1. /\ p \in VisitRecords /\ visit \in [Visits -> VisitRecords] /\ slots <= MaxConnections
      /\ site \in Sites /\ site.quota \in Quotas /\ limits \in Quotas /\ ledger \in LedgerRecords
      /\ ledger.id \in 0..MaxChanges /\ ledger.over \subseteq Windows /\ changes \in 0..MaxChanges
      /\ \A w \in Windows : ledger.used[w] \in 0..CountCap
  BY BandwidthTypes DEF BandwidthInv, Sites, LedgerRecords
<1>2. slots \in Nat /\ MaxConnections \in Nat
  <2>1. Present \in SUBSET Visits
    BY DEF Present
  <2> QED
    BY <2>1, FS_Subset, FS_CardinalityType, QuotaFacts, BandwidthTypes DEF BandwidthInv
<1>3. CASE TakeSlot(v)
  <2> DEFINE x == [p EXCEPT !.pc = "lookup"]
  <2>1. x \in VisitRecords /\ x.pc = "lookup" /\ visit' = [visit EXCEPT ![v] = x]
    BY <1>1, <1>3 DEF TakeSlot, VisitTo, VisitRecords
  <2> HIDE DEF x
  <2>2. slots' = slots + 1 /\ slots < MaxConnections /\ p.pc = "away"
        /\ UNCHANGED <<site, limits, ledger, changes, outdated>>
    BY <1>3 DEF TakeSlot
  <2>3. slots' \in Int /\ slots' <= MaxConnections
        /\ slots' = slots + (IF x.pc # "away" THEN 1 ELSE 0) - (IF visit[v].pc # "away" THEN 1 ELSE 0)
    BY <1>2, <2>1, <2>2
  <2> QED
    BY <2>1, <2>2, <2>3, VisitOnly
<1>4. CASE CheckQuota(v)
  <2> DEFINE x == [p EXCEPT !.pc = IF p.quota # NoQuota /\ ledger.blocked THEN "record" ELSE "handle"]
  <2>1. x \in VisitRecords /\ x.pc # "away" /\ p.pc # "away" /\ visit' = [visit EXCEPT ![v] = x]
    BY <1>1, <1>4 DEF CheckQuota, VisitTo, VisitRecords
  <2> HIDE DEF x
  <2>2. UNCHANGED <<slots, site, limits, ledger, changes, outdated>>
    BY <1>4 DEF CheckQuota
  <2> QED
    BY <2>1, <2>2, VisitStays
<1>5. CASE HandleVisit(v)
  <2> DEFINE x == [p EXCEPT !.pc = "record"]
  <2>1. x \in VisitRecords /\ x.pc # "away" /\ p.pc # "away" /\ visit' = [visit EXCEPT ![v] = x]
    BY <1>1, <1>5 DEF HandleVisit, VisitTo, VisitRecords
  <2> HIDE DEF x
  <2>2. UNCHANGED <<slots, site, limits, ledger, changes, outdated>>
    BY <1>5 DEF HandleVisit
  <2> QED
    BY <2>1, <2>2, VisitStays
<1>6. CASE ReadLimit(v)
  <2> DEFINE x == [p EXCEPT !.pc = IF limits = NoQuota THEN "leave" ELSE "bill",
                            !.limit = limits, !.id = ledger.id]
  <2>1. x \in VisitRecords /\ x.pc # "away" /\ p.pc # "away" /\ visit' = [visit EXCEPT ![v] = x]
    BY <1>1, <1>6 DEF ReadLimit, VisitRecords
  <2> HIDE DEF x
  <2>2. UNCHANGED <<slots, site, limits, ledger, changes, outdated>>
    BY <1>6 DEF ReadLimit
  <2> QED
    BY <2>1, <2>2, VisitStays
<1>7. CASE LeaveSlot(v)
  <2>1. Away \in VisitRecords /\ Away.pc = "away" /\ p.pc # "away"
    BY <1>7, QuotaFacts DEF LeaveSlot, Away, VisitRecords
  <2>2. /\ slots' = slots - 1 /\ visit' = [visit EXCEPT ![v] = Away]
        /\ UNCHANGED <<site, limits, ledger, changes, outdated>>
    BY <1>7 DEF LeaveSlot
  <2>3. slots' \in Int /\ slots' <= MaxConnections
        /\ slots' = slots + (IF Away.pc # "away" THEN 1 ELSE 0) - (IF visit[v].pc # "away" THEN 1 ELSE 0)
    BY <1>1, <1>2, <2>1, <2>2
  <2> QED
    BY <2>1, <2>2, <2>3, VisitOnly
<1>8. ASSUME NEW answered \in BOOLEAN, LookupHost(v, answered) PROVE BandwidthInv'
  <2> DEFINE x == [p EXCEPT !.pc = IF answered \/ ~site.on THEN "record" ELSE "quota",
                            !.quota = site.quota]
  <2>1. x \in VisitRecords /\ x.pc # "away" /\ p.pc # "away" /\ visit' = [visit EXCEPT ![v] = x]
    BY <1>1, <1>8 DEF LookupHost, VisitRecords
  <2> HIDE DEF x
  <2>2. UNCHANGED <<slots, site, limits, ledger, changes, outdated>>
    BY <1>8 DEF LookupHost
  <2> QED
    BY <2>1, <2>2, VisitStays
<1>9. ASSUME NEW bytes \in 0..1, Bill(v, bytes) PROVE BandwidthInv'
  <2> DEFINE x == [p EXCEPT !.pc = "leave"]
  <2>1. x \in VisitRecords /\ x.pc # "away" /\ p.pc # "away" /\ visit' = [visit EXCEPT ![v] = x]
    BY <1>1, <1>9 DEF Bill, VisitTo, VisitRecords
  <2> HIDE DEF x
  <2>2. CASE p.id # ledger.id
    <3>1. UNCHANGED <<slots, site, limits, ledger, changes, outdated>>
      BY <1>9, <2>2 DEF Bill
    <3> QED
      BY <2>1, <3>1, VisitStays
  <2>3. CASE p.id = ledger.id
    <3> DEFINE added(w) == (IF w \in ledger.over THEN 0 ELSE ledger.used[w]) + bytes
               used     == [w \in Windows |-> IF added(w) > CountCap THEN CountCap ELSE added(w)]
               y        == [ledger EXCEPT !.used = used, !.over = {}, !.blocked = Exceeded(used, p.limit)]
    <3>1. ledger' = y /\ outdated' = (p.limit # limits) /\ UNCHANGED <<slots, site, limits, changes>>
      BY <1>9, <2>3 DEF Bill
    <3>2. \A w \in Windows : used[w] \in 0..CountCap
      BY <1>1, QuotaFacts
    <3>3. used \in [Windows -> 0..CountCap]
      BY <3>2
    <3> HIDE DEF used
    <3>4. Exceeded(used, p.limit) \in BOOLEAN
      BY DEF Exceeded
    <3>5. y \in LedgerRecords /\ y.used = used /\ (y.blocked <=> Exceeded(used, p.limit))
      BY <1>1, <3>3, <3>4 DEF LedgerRecords
    <3>6. BandwidthTypeOK'
      <4>1. outdated' \in BOOLEAN
        BY <3>1
      <4>2. BandwidthTypeOK
        BY DEF BandwidthInv
      <4>3. /\ visit' \in [Visits -> VisitRecords]
            /\ Cardinality(Present) \in Nat /\ Cardinality(Present') \in Nat
            /\ Cardinality(Present') = Cardinality(Present)
                 + (IF x.pc # "away" THEN 1 ELSE 0) - (IF visit[v].pc # "away" THEN 1 ELSE 0)
        BY <2>1, <4>2, VisitMoves
      <4>4. Cardinality(Present') = Cardinality(Present)
        BY <2>1, <4>3
      <4> QED
        BY <1>1, <3>1, <3>5, <4>1, <4>2, <4>3, <4>4, BandwidthTypes
    <3>7. ~outdated' => p.limit = limits
      BY <3>1
    <3>8. BlockFollowsQuota'
      BY <3>1, <3>5, <3>7 DEF BlockFollowsQuota
    <3> QED
      BY <3>6, <3>8 DEF BandwidthInv
  <2> QED
    BY <2>2, <2>3
<1> QED
  BY <1>3, <1>4, <1>5, <1>6, <1>7, <1>8, <1>9 DEF VisitStep

\* A step of the quota keeps the invariant.
LEMMA BandwidthStepInv ==
  ASSUME BandwidthInv, [BandwidthNext]_bandwidthVars
  PROVE  BandwidthInv'
<1>1. /\ site \in Sites /\ site.quota \in Quotas /\ limits \in Quotas /\ ledger \in LedgerRecords
      /\ ledger.id \in 0..MaxChanges /\ changes \in 0..MaxChanges /\ outdated \in BOOLEAN
  BY BandwidthTypes DEF BandwidthInv, Sites, LedgerRecords
<1>2. CASE UNCHANGED bandwidthVars
  BY <1>2 DEF bandwidthVars, BandwidthInv, BandwidthTypeOK, BlockFollowsQuota
<1>3. ASSUME UNCHANGED <<slots, visit>> PROVE Present' = Present
  BY <1>3 DEF Present
<1>4. ASSUME NEW w \in Windows, WindowEnds(w) PROVE BandwidthInv'
  <2>1. /\ ledger' \in LedgerRecords /\ ledger'.used = ledger.used /\ ledger'.blocked = ledger.blocked
        /\ UNCHANGED <<slots, site, limits, visit, changes, outdated>>
    BY <1>1, <1>4 DEF WindowEnds, LedgerRecords
  <2> QED
    BY <1>3, <2>1, BandwidthTypes DEF BandwidthInv, BlockFollowsQuota
<1>5. ASSUME NEW new \in Sites, RouteDomain(new) PROVE BandwidthInv'
  <2>1. changes' \in 0..MaxChanges /\ site' \in Sites /\ UNCHANGED <<slots, limits, ledger, visit, outdated>>
    BY <1>1, <1>5, QuotaFacts DEF RouteDomain
  <2> QED
    BY <1>3, <2>1, BandwidthTypes DEF BandwidthInv, BlockFollowsQuota
<1>6. CASE ResetUsage
  <2>1. ledger' = NewUsage(ledger.id) /\ UNCHANGED <<slots, site, limits, visit, changes>>
    BY <1>6 DEF ResetUsage
  <2>2. outdated' \in BOOLEAN
    BY <1>6 DEF ResetUsage
  <2> QED
    BY <1>1, <1>3, <2>1, <2>2, FreshLedger, BandwidthTypes DEF BandwidthInv, BlockFollowsQuota
<1>7. CASE UpdateLimits
  <2>1. limits' = site.quota /\ UNCHANGED <<slots, site, visit, changes>>
    BY <1>7 DEF UpdateLimits
  <2>2. outdated' \in BOOLEAN
    BY <1>7 DEF UpdateLimits
  <2>3. ledger' \in LedgerRecords
        /\ (limits' # NoQuota => (ledger'.blocked <=> Exceeded(ledger'.used, limits')))
    <3>1. CASE ~site.on
      <4>1. ledger' = NewUsage(changes)
        BY <1>7, <3>1 DEF UpdateLimits
      <4> QED
        BY <1>1, <2>1, <4>1, FreshLedger
    <3>2. CASE site.on /\ site.quota = NoQuota
      BY <1>1, <1>7, <2>1, <3>2 DEF UpdateLimits
    <3>3. CASE site.on /\ site.quota # NoQuota
      <4>1. ledger' = [ledger EXCEPT !.blocked = Exceeded(ledger.used, site.quota)]
        BY <1>7, <3>3 DEF UpdateLimits
      <4>2. Exceeded(ledger.used, site.quota) \in BOOLEAN
        BY DEF Exceeded
      <4> QED
        BY <1>1, <2>1, <4>1, <4>2 DEF LedgerRecords
    <3> QED
      BY <1>1, <3>1, <3>2, <3>3 DEF Sites
  <2> QED
    BY <1>1, <1>3, <2>1, <2>2, <2>3, BandwidthTypes DEF BandwidthInv, BlockFollowsQuota
<1>8. Gone \in Sites /\ \A q \in Quotas : [on |-> TRUE, quota |-> q] \in Sites
  BY QuotaFacts DEF Gone, Sites
<1> QED
  BY <1>2, <1>4, <1>5, <1>6, <1>7, <1>8, VisitStepInv DEF BandwidthNext

\* The domain starts with an empty ledger and nobody in it.
LEMMA BandwidthInitInv == BandwidthInit => BandwidthInv
<1> SUFFICES ASSUME BandwidthInit PROVE BandwidthInv
  OBVIOUS
<1>1. Present = {} /\ visit \in [Visits -> VisitRecords]
  BY QuotaFacts DEF BandwidthInit, Present, Away, VisitRecords
<1>2. site \in Sites /\ limits \in Quotas
  <2>1. PICK q \in Quotas : site = [on |-> TRUE, quota |-> q] /\ limits = site.quota
    BY DEF BandwidthInit
  <2> QED
    BY <2>1 DEF Sites
<1>3. /\ ledger \in LedgerRecords /\ ~ledger.blocked /\ ~Exceeded(ledger.used, limits)
      /\ changes \in 0..MaxChanges
  BY <1>2, FreshLedger, QuotaFacts DEF BandwidthInit
<1>4. outdated \in BOOLEAN
  BY DEF BandwidthInit
<1>5. slots = Cardinality(Present) /\ slots <= MaxConnections
  BY <1>1, FS_EmptySet, QuotaFacts DEF BandwidthInit
<1> QED
  BY <1>1, <1>2, <1>3, <1>4, <1>5, BandwidthTypes DEF BandwidthInv, BlockFollowsQuota

\* The invariant of the quota holds throughout.
THEOREM BandwidthInvariant == BandwidthSpec => []BandwidthInv
<1>1. BandwidthInv /\ [BandwidthNext]_bandwidthVars => BandwidthInv'
  BY BandwidthStepInv
<1> QED
  BY <1>1, BandwidthInitInv, PTL DEF BandwidthSpec

\* A domain is refused exactly while its counters reach a limit in force,
\* through reloads, resets, windows that end and late accounting.
THEOREM BlockExact == BandwidthSpec => []BlockFollowsQuota
  BY BandwidthInvariant, PTL DEF BandwidthInv

-----------------------------------------------------------------------------
(* The components together *)

\* Each component of MC_Serving behaves as its own specification says: a step
\* of the composition is a step of the component in focus and leaves the
\* others at rest.
THEOREM ServingComposes ==
  ServingSpec => /\ ServeSpec /\ CertSpec /\ TableSpec /\ PoolSpec
                 /\ BandwidthSpec /\ RefreshSpec /\ LimitSpec
<1>1. ServingInit => /\ ServeInit /\ CertInit /\ TableInit /\ PoolInit
                     /\ BandwidthInit /\ RefreshInit /\ LimitInit
  BY DEF ServingInit
<1>2. [ServingNext]_servingVars => [ServeNext]_serveVars
  BY DEF ServingNext, servingVars, serveVars
<1>3. [ServingNext]_servingVars => [CertNext]_certVars
  BY DEF ServingNext, servingVars, certVars
<1>4. [ServingNext]_servingVars => [TableNext]_tableVars
  BY DEF ServingNext, servingVars, tableVars
<1>5. [ServingNext]_servingVars => [PoolNext]_poolVars
  BY DEF ServingNext, servingVars, poolVars
<1>6. [ServingNext]_servingVars => [BandwidthNext]_bandwidthVars
  BY DEF ServingNext, servingVars, bandwidthVars
<1>7. [ServingNext]_servingVars => [RefreshNext]_refreshVars
  BY DEF ServingNext, servingVars, refreshVars
<1>8. [ServingNext]_servingVars => [LimitNext]_limitVars
  BY DEF ServingNext, servingVars, limitVars
<1> QED
  BY <1>1, <1>2, <1>3, <1>4, <1>5, <1>6, <1>7, <1>8, PTL DEF ServingSpec,
     ServeSpec, CertSpec, TableSpec, PoolSpec, BandwidthSpec, RefreshSpec, LimitSpec

\* The invariants of the components give the types and bounds of the whole.
THEOREM ServingTypes == ServingSpec => []ServingTypeOK
<1>1. /\ ServeInv /\ CertInv /\ TableInv /\ PoolInv /\ BandwidthInv /\ RefreshInv /\ LimitInv
      => ServingTypeOK
  BY DEF ServingTypeOK, ServeInv, CertInv, FlightsWellFormed, TableInv, PoolInv, BandwidthInv,
     RefreshInv, LimitInv
<1> QED
  BY <1>1, ServingComposes, ServeInvariant, CertInvariant, TableInvariant, PoolInvariant,
     BandwidthInvariant, RefreshInvariant, LimitInvariant, PTL
=============================================================================
