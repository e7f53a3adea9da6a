-------------------------- MODULE SharedStateProofs --------------------------
(***************************************************************************)
(* Proofs about the three parts that share state without one lock over it: *)
(* the proxy pools and their health checkers, the tiers of the cache, and  *)
(* the domain configuration with its files and the subsystems' copies.     *)
(***************************************************************************)
EXTENDS ProxyPools, CacheTiers, DomainConfig, TLAPS

-----------------------------------------------------------------------------
(* ProxyPools: every checker that has not been stopped is the live one, or  *)
(* one that a rebuild under way has built or is about to stop.              *)

Swapping(r) == rebuild[r].at = "swap"
Stopping(r) == rebuild[r].at = "stop"

\* The checkers accounted for by the live pool and the rebuilds under way.
Accounted == {livePool} \cup {rebuild[r].mine : r \in {q \in Rebuilders : Swapping(q)}}
                        \cup {rebuild[r].from : r \in {q \in Rebuilders : Stopping(q)}}

\* No two of those are the same checker.
NoneTwice ==
  /\ \A r \in Rebuilders : Swapping(r) => rebuild[r].mine # livePool
  /\ \A r \in Rebuilders : Stopping(r) => rebuild[r].from # livePool
  /\ \A r, q \in Rebuilders :
       /\ Swapping(r) /\ Swapping(q) /\ r # q => rebuild[r].mine # rebuild[q].mine
       /\ Stopping(r) /\ Stopping(q) /\ r # q => rebuild[r].from # rebuild[q].from
       /\ Swapping(r) /\ Stopping(q) => rebuild[r].mine # rebuild[q].from

PoolsInv ==
  /\ PoolsTypeOK
  /\ 1..built \ stopped = Accounted
  /\ NoneTwice
  /\ \A r \in Rebuilders : rebuild[r].at = "carry" => rebuild[r].from # 0
  /\ \A n \in stopped : failures[n] = Zero /\ successes[n] = Zero

-----------------------------------------------------------------------------
(* CacheTiers: what a purge is to remove is nowhere it has already swept,   *)
(* but for what it spared.                                                  *)

\* Of the responses 1..m, what is held in the tiers T or in somebody's hands
\* has been spared.
SweptIn(tiers, hands, excused, m, T) ==
  /\ \A t \in T : tiers[t] # NoResp /\ tiers[t] <= m => tiers[t] \in excused
  /\ \A n \in hands : n <= m => n \in excused

Swept(m, T) == SweptIn(held, InHands, spared, m, T)

TiersInv ==
  /\ TiersTypeOK
  /\ \A n \in InHands : n <= made
  /\ \A p \in Routines : Purger(p) => routine[p].resp <= made
  /\ \A s \in Slots : writer[s].tier = "none" => writer[s] = Free
  /\ Swept(floor, Tiers)
  /\ \A p \in Routines : routine[p].at = "purgeDisk" => Swept(routine[p].resp, {"memory"})
  /\ \A p \in Routines : routine[p].at = "purgeRedis" => Swept(routine[p].resp, {"memory", "disk"})

-----------------------------------------------------------------------------
(* DomainConfig: a difference between files and config, or between config   *)
(* and a subsystem, is owed by somebody.                                    *)

\* Handlers that have changed the config and will save it.
ToSave == {p \in Procs : pc[p].at \in {"remove", "notify", "apply", "persist"}}

\* Reloads that have yet to read the files.
ToLoad == {p \in Procs : pc[p].at \in {"reload", "load"}}

\* What will make file and config of h the same again, unless h is gone and its
\* file outlived it.
Owed(h) ==
  \/ files[h] = config[h]
  \/ config[h] = Absent /\ h \in stray
  \/ ToLoad # {}
  \/ config[h] # Absent /\ ToSave # {}
  \/ config[h] = Absent /\ \E p \in Procs : pc[p].at = "remove" /\ pc[p].host = h
  \/ \E p \in Procs : pc[p].at = "write" /\ h \in pc[p].todo /\ pc[p].snap[h] = config[h]
  \/ \E p \in Procs : pc[p].at = "reapply"

\* What a reload is about to publish was in the files, unless they changed
\* behind its back, and then somebody sees to it after the reload.
LoadedOwed(p, h) ==
  pc[p].at = "reapply" =>
    \/ pc[p].snap[h] = files[h]
    \/ ToLoad # {}
    \/ pc[p].snap[h] # Absent /\ ToSave # {}

\* A save that writes an outdated copy is followed by another, or its domain
\* has been deleted.
StaleSaveOwed(p, h) ==
  pc[p].at = "write" /\ pc[p].snap[h] # config[h] => config[h] = Absent \/ ToSave # {}

FilesOwed ==
  ~failed =>
    /\ \A h \in Hosts : Owed(h)
    /\ \A p \in Procs, h \in Hosts : LoadedOwed(p, h) /\ StaleSaveOwed(p, h)
    /\ \A p \in Procs : pc[p].at # "restore"

\* Goroutines between their copy of the config and the last subsystem, and
\* those that have yet to take a copy.
Appliers == {p \in Procs : pc[p].at \in {"apply", "reapply"}}
ToNotify == {p \in Procs : pc[p].at \in {"remove", "notify"}}

\* p has brought its copy to the subsystems before next.
Reached(p) == \A i \in 1..Len(Subsystems) : i < pc[p].next => live[Subsystems[i]] = pc[p].snap

LiveOwed ==
  ~overlap =>
    /\ \A p, q \in Appliers : p = q
    /\ \A p \in Appliers : Reached(p)
    /\ \A p \in Appliers : pc[p].at = "apply" => pc[p].snap = config \/ ToNotify # {}
    /\ Appliers = {} => ToNotify # {} \/ \A s \in Layers : live[s] = config

ConfigInv ==
  /\ TypeOK
  /\ \A p \in Procs : pc[p].at = "apply" => pc[p].next <= Len(Subsystems)
  /\ FilesOwed
  /\ LiveOwed

-----------------------------------------------------------------------------
(* The pools *)

\* The types of what the checkers keep, and of what the rebuilds keep.
CountsOK ==
  /\ state \in [Pools -> [Backends -> {"healthy", "unhealthy"}]]
  /\ failures \in [Pools -> [Backends -> 0..Threshold]]
  /\ successes \in [Pools -> [Backends -> 0..Rise]]
  /\ \A n \in Pools, b \in Backends : failures[n][b] = 0 \/ successes[n][b] = 0
  /\ loop \in [Pools -> {"none", "run", "exited"}]
  /\ probing \in [Pools -> SUBSET Backends]

RebuildsOK ==
  /\ built \in Pools /\ livePool \in 1..built
  /\ stopped \subseteq 1..built
  /\ rebuild \in [Rebuilders -> [at : {"idle", "carry", "swap", "stop"},
                                 from : 0..built, mine : 0..built]]

WorldOK == up \subseteq Backends /\ flips \in 0..MaxFlips

\* PoolsTypeOK in those parts.
LEMMA PoolsTypes == /\ PoolsTypeOK <=> CountsOK /\ RebuildsOK /\ WorldOK
                    /\ PoolsTypeOK' <=> CountsOK' /\ RebuildsOK' /\ WorldOK'
  BY DEF PoolsTypeOK, CountsOK, RebuildsOK, WorldOK

\* What the part of the invariant about the rebuilds depends on.
LEMMA RebuildsUntouched ==
  ASSUME PoolsInv, UNCHANGED <<built, livePool, stopped, rebuild>>
  PROVE  /\ (1..built \ stopped = Accounted)' /\ NoneTwice' /\ RebuildsOK'
         /\ (\A r \in Rebuilders : rebuild[r].at = "carry" => rebuild[r].from # 0)'
<1>1. Accounted' = Accounted
  BY DEF Accounted, Swapping, Stopping
<1>2. NoneTwice' /\ (\A r \in Rebuilders : rebuild[r].at = "carry" => rebuild[r].from # 0)'
  BY DEF PoolsInv, NoneTwice, Swapping, Stopping
<1>3. RebuildsOK'
  BY PoolsTypes DEF PoolsInv, RebuildsOK
<1> QED
  BY <1>1, <1>2, <1>3 DEF PoolsInv

\* The steps of the checkers leave the rebuilds alone, and the counts of a
\* stopped checker too.
LEMMA CheckerStepInv ==
  ASSUME PoolsInv, NEW n \in Pools,
         CheckAll(n) \/ ExitLoop(n) \/ \E b \in Backends : CheckOne(n, b)
  PROVE  PoolsInv'
<1>1. CountsOK /\ WorldOK
  BY PoolsTypes DEF PoolsInv
<1>2. UNCHANGED <<built, livePool, stopped, rebuild, up, flips>>
  BY DEF CheckAll, ExitLoop, CheckOne
<1>3. CountsOK' /\ \A k \in stopped : failures'[k] = failures[k] /\ successes'[k] = successes[k]
  <2>1. CASE CheckAll(n)
    BY <1>1, <2>1 DEF CheckAll, CountsOK
  <2>2. CASE ExitLoop(n)
    BY <1>1, <2>2 DEF ExitLoop, checks, CountsOK
  <2>3. ASSUME NEW b \in Backends, CheckOne(n, b)
        PROVE  CountsOK' /\ \A k \in stopped : failures'[k] = failures[k] /\ successes'[k] = successes[k]
    <3>1. probing' \in [Pools -> SUBSET Backends] /\ loop' = loop
      BY <1>1, <2>3 DEF CheckOne, CountsOK
    <3>2. CASE n \in stopped
      BY <1>1, <2>3, <3>1, <3>2 DEF CheckOne, CountsOK
    <3>3. CASE n \notin stopped /\ RecordSuccess(n, b)
      <4> DEFINE count == IF successes[n][b] < Rise THEN successes[n][b] + 1 ELSE Rise
      <4>1. count \in 0..Rise
        BY <1>1, PoolsAssumption DEF CountsOK
      <4>2. 0 \in 0..Threshold
        BY PoolsAssumption
      <4>3. /\ failures' = [failures EXCEPT ![n][b] = 0]
            /\ successes' = [successes EXCEPT ![n][b] = count]
            /\ state' = [state EXCEPT ![n][b] = IF count >= Rise THEN "healthy" ELSE @]
        BY <3>3 DEF RecordSuccess
      <4> HIDE DEF count
      <4> QED
        BY <1>1, <3>1, <3>3, <4>1, <4>2, <4>3 DEF CountsOK
    <3>4. CASE n \notin stopped /\ RecordFailure(n, b)
      <4> DEFINE count == IF failures[n][b] < Threshold THEN failures[n][b] + 1 ELSE Threshold
      <4>1. count \in 0..Threshold
        BY <1>1, PoolsAssumption DEF CountsOK
      <4>2. 0 \in 0..Rise
        BY PoolsAssumption
      <4>3. /\ successes' = [successes EXCEPT ![n][b] = 0]
            /\ failures' = [failures EXCEPT ![n][b] = count]
            /\ state' = [state EXCEPT ![n][b] = IF count >= Threshold THEN "unhealthy" ELSE @]
        BY <3>4 DEF RecordFailure
      <4> HIDE DEF count
      <4> QED
        BY <1>1, <3>1, <3>4, <4>1, <4>2, <4>3 DEF CountsOK
    <3> QED
      BY <2>3, <3>2, <3>3, <3>4 DEF CheckOne
  <2> QED
    BY <2>1, <2>2, <2>3
<1>4. PoolsTypeOK'
  BY <1>1, <1>2, <1>3, RebuildsUntouched, PoolsTypes DEF WorldOK
<1>5. (\A k \in stopped : failures[k] = Zero /\ successes[k] = Zero)'
  BY <1>2, <1>3 DEF PoolsInv, Zero
<1> QED
  BY <1>2, <1>4, <1>5, RebuildsUntouched DEF PoolsInv

\* Every rebuild keeps the accounts: a checker is started before the pool
\* becomes the live one, and the one it replaces is remembered in the same
\* critical section.
LEMMA RebuildStepInv ==
  ASSUME PoolsInv, NEW r \in Rebuilders, ReadOld(r) \/ RebuildStep(r)
  PROVE  PoolsInv'
<1>1. CountsOK /\ RebuildsOK /\ WorldOK
  BY PoolsTypes DEF PoolsInv
<1>a. built \in Nat /\ MaxPools \in Nat /\ livePool \in Nat
  BY <1>1, PoolsAssumption DEF RebuildsOK, Pools
<1>2. CASE ReadOld(r)
  <2>1. /\ rebuild'[r].at = "carry" /\ rebuild'[r].from = livePool
        /\ \A q \in Rebuilders : q # r => rebuild'[q] = rebuild[q]
        /\ rebuild[r].at = "idle"
        /\ UNCHANGED <<built, livePool, state, failures, successes, probing, stopped, loop, up, flips>>
    BY <1>1, <1>2 DEF ReadOld, checks, RebuildsOK
  <2>2. PoolsTypeOK'
    <3>1. CountsOK' /\ WorldOK'
      BY <1>1, <2>1 DEF CountsOK, WorldOK
    <3>2. RebuildsOK'
      BY <1>1, <1>a, <1>2, <2>1 DEF ReadOld, RebuildsOK
    <3> QED
      BY <3>1, <3>2, PoolsTypes
  <2>3. Accounted' = Accounted
    BY <2>1 DEF Accounted, Swapping, Stopping
  <2>4. NoneTwice'
    BY <2>1 DEF PoolsInv, NoneTwice, Swapping, Stopping
  <2> QED
    BY <1>1, <1>a, <2>1, <2>2, <2>3, <2>4 DEF PoolsInv, RebuildsOK
<1>3. CASE BuildPool(r)
  <2>1. /\ rebuild'[r].at = "swap" /\ rebuild'[r].mine = built + 1
        /\ \A q \in Rebuilders : q # r => rebuild'[q] = rebuild[q]
        /\ rebuild[r].at = "carry" /\ built' = built + 1 /\ built + 1 \in Pools
        /\ UNCHANGED <<livePool, failures, successes, probing, stopped, up, flips>>
    BY <1>1, <1>3 DEF BuildPool, checks, RebuildsOK
  <2>2. PoolsTypeOK'
    <3>1. rebuild[r].from \in Pools
      BY <1>1, <1>a, <2>1 DEF PoolsInv, RebuildsOK, Pools
    <3>2. state' = [state EXCEPT ![built + 1] = state[rebuild[r].from]] /\ loop' = [loop EXCEPT ![built + 1] = "run"]
      BY <1>3 DEF BuildPool
    <3>3. CountsOK'
      BY <1>1, <2>1, <3>1, <3>2 DEF CountsOK
    <3>4. rebuild' \in [Rebuilders -> [at : {"idle", "carry", "swap", "stop"}, from : 0..built', mine : 0..built']]
      BY <1>1, <1>a, <1>3 DEF BuildPool, RebuildsOK
    <3>5. RebuildsOK'
      BY <1>1, <1>a, <2>1, <3>4 DEF RebuildsOK
    <3> QED
      BY <1>1, <2>1, <3>3, <3>5, PoolsTypes DEF WorldOK
  <2>3. 1..built' \ stopped' = Accounted'
    <3>1. Accounted' = Accounted \cup {built + 1}
      BY <2>1 DEF Accounted, Swapping, Stopping
    <3>2. 1..built' \ stopped' = (1..built \ stopped) \cup {built + 1}
      BY <1>1, <1>a, <2>1 DEF RebuildsOK
    <3> QED
      BY <3>1, <3>2 DEF PoolsInv
  <2>4. NoneTwice'
    <3>1. /\ livePool # built + 1
          /\ \A q \in Rebuilders : rebuild[q].mine # built + 1 /\ rebuild[q].from # built + 1
      BY <1>1, <1>a DEF RebuildsOK
    <3> QED
      BY <2>1, <3>1 DEF PoolsInv, NoneTwice, Swapping, Stopping
  <2> QED
    BY <1>1, <1>a, <2>1, <2>2, <2>3, <2>4 DEF PoolsInv, RebuildsOK
<1>4. CASE Swap(r)
  <2>1. /\ rebuild'[r].at = "stop" /\ rebuild'[r].from = livePool
        /\ \A q \in Rebuilders : q # r => rebuild'[q] = rebuild[q]
        /\ rebuild[r].at = "swap" /\ livePool' = rebuild[r].mine
        /\ UNCHANGED <<built, state, failures, successes, probing, stopped, loop, up, flips>>
    BY <1>1, <1>4 DEF Swap, checks, RebuildsOK
  <2>2. rebuild[r].mine \in 1..built
    BY <2>1 DEF PoolsInv, Accounted, Swapping
  <2>3. PoolsTypeOK'
    <3>1. CountsOK' /\ WorldOK'
      BY <1>1, <2>1 DEF CountsOK, WorldOK
    <3>2. rebuild' \in [Rebuilders -> [at : {"idle", "carry", "swap", "stop"}, from : 0..built, mine : 0..built]]
      <4> DEFINE x == [rebuild[r] EXCEPT !.at = "stop", !.from = livePool]
      <4>1. x \in [at : {"idle", "carry", "swap", "stop"}, from : 0..built, mine : 0..built]
        <5>1. rebuild[r] \in [at : {"idle", "carry", "swap", "stop"}, from : 0..built, mine : 0..built]
          BY <1>1 DEF RebuildsOK
        <5>2. livePool \in 0..built
          BY <1>1, <1>a DEF RebuildsOK
        <5> QED
          BY <5>1, <5>2
      <4>2. rebuild' = [rebuild EXCEPT ![r] = x]
        BY <1>1, <1>4 DEF Swap, RebuildsOK
      <4> HIDE DEF x
      <4> QED
        BY <1>1, <4>1, <4>2 DEF RebuildsOK
    <3>3. RebuildsOK'
      BY <1>1, <2>1, <2>2, <3>2 DEF RebuildsOK
    <3> QED
      BY <3>1, <3>3, PoolsTypes
  <2>4. Accounted' = Accounted
    <3>1. \A x : x \in Accounted <=> \/ x = livePool
                                     \/ \E q \in Rebuilders : Swapping(q) /\ x = rebuild[q].mine
                                     \/ \E q \in Rebuilders : Stopping(q) /\ x = rebuild[q].from
      BY DEF Accounted
    <3>2. \A x : x \in Accounted' <=> \/ x = livePool'
                                      \/ \E q \in Rebuilders : Swapping(q)' /\ x = rebuild'[q].mine
                                      \/ \E q \in Rebuilders : Stopping(q)' /\ x = rebuild'[q].from
      BY DEF Accounted
    <3>3. \A x : x \in Accounted' <=> x \in Accounted
      BY <2>1, <3>1, <3>2 DEF Swapping, Stopping
    <3> QED
      BY <3>3
  <2>5. NoneTwice'
    BY <2>1 DEF PoolsInv, NoneTwice, Swapping, Stopping
  <2> QED
    BY <1>1, <2>1, <2>3, <2>4, <2>5 DEF PoolsInv
<1>5. CASE StopOld(r)
  <2> DEFINE n == rebuild[r].from
  <2>1. /\ rebuild'[r].at = "idle"
        /\ \A q \in Rebuilders : q # r => rebuild'[q] = rebuild[q]
        /\ rebuild[r].at = "stop" /\ stopped' = stopped \cup {n}
        /\ UNCHANGED <<built, livePool, state, probing, loop, up, flips>>
    BY <1>1, <1>5 DEF StopOld, NoRebuild, RebuildsOK
  <2>2. n \in 1..built /\ n \notin stopped
    BY <2>1 DEF PoolsInv, Accounted, Stopping
  <2>3. n \in Pools
    BY <1>1, <1>a, <2>2 DEF RebuildsOK, Pools
  <2>4. /\ failures' = [failures EXCEPT ![n] = Zero] /\ successes' = [successes EXCEPT ![n] = Zero]
        /\ Zero \in [Backends -> 0..Threshold] /\ Zero \in [Backends -> 0..Rise] /\ \A b \in Backends : Zero[b] = 0
    BY <1>5, PoolsAssumption DEF StopOld, Zero
  <2>5. /\ failures' \in [Pools -> [Backends -> 0..Threshold]] /\ successes' \in [Pools -> [Backends -> 0..Rise]]
        /\ \A k \in Pools, b \in Backends : failures'[k][b] = 0 \/ successes'[k][b] = 0
    BY <1>1, <2>3, <2>4 DEF CountsOK
  <2>6. PoolsTypeOK'
    <3>1. rebuild' \in [Rebuilders -> [at : {"idle", "carry", "swap", "stop"}, from : 0..built, mine : 0..built]]
      BY <1>1, <1>a, <1>5 DEF StopOld, NoRebuild, RebuildsOK
    <3> QED
      BY <1>1, <2>1, <2>2, <2>5, <3>1, PoolsTypes DEF CountsOK, RebuildsOK, WorldOK
  <2>7. Accounted' = Accounted \ {n}
    BY <2>1 DEF PoolsInv, NoneTwice, Accounted, Swapping, Stopping
  <2>8. NoneTwice'
    BY <2>1 DEF PoolsInv, NoneTwice, Swapping, Stopping
  <2>9. \A k \in stopped' : failures'[k] = Zero /\ successes'[k] = Zero
    BY <1>1, <2>1, <2>3, <2>4 DEF PoolsInv, CountsOK, Zero
  <2> QED
    BY <2>1, <2>6, <2>7, <2>8, <2>9 DEF PoolsInv
<1> QED
  BY <1>2, <1>3, <1>4, <1>5 DEF RebuildStep

\* The invariant of the pools holds throughout.
THEOREM PoolsInvariant == PoolsSpec => []PoolsInv
<1>1. PoolsInit => PoolsInv
  <2> SUFFICES ASSUME PoolsInit PROVE PoolsInv
    OBVIOUS
  <2>1. PoolsTypeOK
    <3>1. CountsOK
      BY PoolsAssumption DEF PoolsInit, CountsOK, Zero
    <3>2. RebuildsOK /\ WorldOK
      BY PoolsAssumption DEF PoolsInit, RebuildsOK, WorldOK, Pools, NoRebuild
    <3> QED
      BY <3>1, <3>2, PoolsTypes
  <2>2. Accounted = {1} /\ NoneTwice
    BY DEF PoolsInit, Accounted, NoneTwice, Swapping, Stopping, NoRebuild
  <2> QED
    BY <2>1, <2>2 DEF PoolsInv, PoolsInit, NoRebuild
<1>2. PoolsInv /\ [PoolsNext]_poolsVars => PoolsInv'
  <2> SUFFICES ASSUME PoolsInv, [PoolsNext]_poolsVars PROVE PoolsInv'
    OBVIOUS
  <2>1. ASSUME NEW b \in Backends, Flip(b) PROVE PoolsInv'
    <3>1. CountsOK' /\ WorldOK'
      BY <2>1, PoolsTypes, PoolsAssumption DEF Flip, checks, PoolsInv, CountsOK, WorldOK
    <3>2. UNCHANGED <<built, livePool, stopped, rebuild, failures, successes>>
      BY <2>1 DEF Flip, checks
    <3>3. (\A k \in stopped : failures[k] = Zero /\ successes[k] = Zero)'
      BY <3>2 DEF PoolsInv, Zero
    <3> QED
      BY <3>1, <3>2, <3>3, RebuildsUntouched, PoolsTypes DEF PoolsInv
  <2>2. CASE UNCHANGED poolsVars
    <3>1. CountsOK' /\ WorldOK'
      BY <2>2, PoolsTypes DEF poolsVars, checks, PoolsInv, CountsOK, WorldOK
    <3>2. UNCHANGED <<built, livePool, stopped, rebuild, failures, successes>>
      BY <2>2 DEF poolsVars, checks
    <3>3. (\A k \in stopped : failures[k] = Zero /\ successes[k] = Zero)'
      BY <3>2 DEF PoolsInv, Zero
    <3> QED
      BY <3>1, <3>2, <3>3, RebuildsUntouched, PoolsTypes DEF PoolsInv
  <2> QED
    BY <2>1, <2>2, CheckerStepInv, RebuildStepInv DEF PoolsNext
<1> QED
  BY <1>1, <1>2, PTL DEF PoolsSpec

\* When no rebuild is between its new checker and the stop of the old one, the
\* live pool's checker is the only one that runs; and a stopped checker keeps
\* no counts, however late its probes end.
THEOREM CheckersNeverLeak == PoolsSpec => []OnlyLiveChecked
<1>1. PoolsInv => OnlyLiveChecked
  <2> SUFFICES ASSUME PoolsInv PROVE OnlyLiveChecked
    OBVIOUS
  <2>1. (\A r \in Rebuilders : rebuild[r].at \notin {"swap", "stop"}) => Accounted = {livePool}
    BY DEF Accounted, Swapping, Stopping
  <2> QED
    BY <2>1 DEF PoolsInv, OnlyLiveChecked
<1> QED
  BY <1>1, PoolsInvariant, PTL

-----------------------------------------------------------------------------
(* The tiers *)

\* Nothing has to be spared anew when a tier gets only what was in somebody's
\* hands, and hands get only what is spared or too new for the purge.
LEMMA SweptKept ==
  ASSUME NEW tiers, NEW tiers2, NEW hands, NEW hands2, NEW excused, NEW excused2, NEW m, NEW T,
         SweptIn(tiers, hands, excused, m, T), excused \subseteq excused2,
         \A t \in T : tiers2[t] \in {tiers[t], NoResp} \cup hands,
         \A n \in hands2 : n \in hands \/ n \in excused2 \/ ~(n <= m)
  PROVE  SweptIn(tiers2, hands2, excused2, m, T)
  BY DEF SweptIn

\* InHands by its members.
LEMMA HandsAre ==
  /\ \A n : n \in InHands <=> /\ n # NoResp
                              /\ \/ \E p \in Routines : ~Purger(p) /\ n = routine[p].resp
                                 \/ \E s \in Slots : n = writer[s].resp
  /\ \A n : n \in InHands' <=> /\ n # NoResp
                               /\ \/ \E p \in Routines : ~Purger(p)' /\ n = routine'[p].resp
                                  \/ \E s \in Slots : n = writer'[s].resp
  BY DEF InHands

\* The types of the goroutines and of the write slots.
RoutineType == [at : TierPlaces, resp : 0..MaxResponses]
WriterType == [tier : Lower \cup {"none"}, resp : 0..MaxResponses]

RoutinesOK ==
  /\ routine \in [Routines -> RoutineType]
  /\ \A p \in Routines : routine[p].at \in {"promoteDisk", "promoteRedis", "store"} => routine[p].resp # NoResp
  /\ refresher \in Routines \cup {Unclaimed}

WritersOK ==
  /\ writer \in [Slots -> WriterType]
  /\ \A s \in Slots : writer[s].tier = "none" => writer[s] = Free

TiersOK ==
  /\ held \in [Tiers -> 0..MaxResponses] /\ \A t \in Tiers : held[t] <= made
  /\ age \in [Responses -> {"unborn", "fresh", "stale", "expired"}]
  /\ made \in 0..MaxResponses
  /\ floor \in 0..made /\ spared \subseteq Responses /\ purges \in 0..MaxPurges

SweptOK ==
  /\ Swept(floor, Tiers)
  /\ \A p \in Routines : routine[p].at = "purgeDisk" => Swept(routine[p].resp, {"memory"})
  /\ \A p \in Routines : routine[p].at = "purgeRedis" => Swept(routine[p].resp, {"memory", "disk"})

BelowMade ==
  /\ \A n \in InHands : n <= made
  /\ \A p \in Routines : Purger(p) => routine[p].resp <= made

\* The invariant in those parts.
LEMMA TiersParts == /\ TiersInv <=> RoutinesOK /\ WritersOK /\ TiersOK /\ SweptOK /\ BelowMade
                    /\ TiersInv' <=> RoutinesOK' /\ WritersOK' /\ TiersOK' /\ SweptOK' /\ BelowMade'
<1>1. TiersInv <=> RoutinesOK /\ WritersOK /\ TiersOK /\ SweptOK /\ BelowMade
  BY DEF TiersInv, TiersTypeOK, RoutinesOK, WritersOK, TiersOK, SweptOK, BelowMade, RoutineType, WriterType
<1>2. TiersInv' <=> RoutinesOK' /\ WritersOK' /\ TiersOK' /\ SweptOK' /\ BelowMade'
  BY DEF TiersInv, TiersTypeOK, RoutinesOK, WritersOK, TiersOK, SweptOK, BelowMade, RoutineType, WriterType
<1> QED
  BY <1>1, <1>2

\* A step of anybody but a purger: it moves responses between tiers and hands,
\* and takes one from a tier only before the eyes of a purge under way.
LEMMA CarryStep ==
  ASSUME TiersInv, RoutinesOK', WritersOK',
         held' \in [Tiers -> 0..MaxResponses], age' \in [Responses -> {"unborn", "fresh", "stale", "expired"}],
         made' \in {made, made + 1}, made' \in 0..MaxResponses,
         spared \subseteq spared', spared' \subseteq Responses, UNCHANGED <<floor, purges>>,
         \A p \in Routines : Purger(p)' => routine'[p] = routine[p],
         \A t \in Tiers : held'[t] \in {held[t], NoResp} \cup InHands,
         \A n \in InHands' : \/ n \in InHands
                             \/ n = made' /\ made' = made + 1
                             \/ (\E t \in Tiers : n = held[t]) /\ (Purging => n \in spared')
  PROVE  TiersInv'
<1>1. RoutinesOK /\ WritersOK /\ TiersOK /\ SweptOK /\ BelowMade
  BY TiersParts
<1>2. made \in Nat /\ floor \in Nat /\ made' \in Nat /\ made <= made' /\ floor <= made
  BY <1>1, TiersAssumption DEF TiersOK
<1>3. TiersOK'
  <2>1. \A t \in Tiers : held'[t] <= made'
    <3> SUFFICES ASSUME NEW t \in Tiers PROVE held'[t] <= made'
      OBVIOUS
    <3>1. held'[t] <= made
      BY <1>1, <1>2 DEF TiersOK, BelowMade, NoResp
    <3>2. held'[t] \in Nat
      BY TiersAssumption
    <3> QED
      BY <1>2, <3>1, <3>2
  <2> QED
    BY <1>1, <1>2, <2>1 DEF TiersOK
<1>4. BelowMade'
  <2>1. ASSUME NEW n \in InHands' PROVE n <= made'
    <3>1. CASE n \in InHands
      <4>1. n \in Nat /\ n <= made
        BY <1>1, <3>1, HandsAre, TiersAssumption DEF BelowMade, RoutinesOK, WritersOK, RoutineType, WriterType
      <4> QED
        BY <1>2, <4>1
    <3>2. CASE \E t \in Tiers : n = held[t]
      <4>1. n \in Nat /\ n <= made
        BY <1>1, <3>2, TiersAssumption DEF TiersOK
      <4> QED
        BY <1>2, <4>1
    <3> QED
      BY <1>2, <2>1, <3>1, <3>2
  <2>2. ASSUME NEW p \in Routines, Purger(p)' PROVE routine'[p].resp <= made'
    <3>1. routine'[p] = routine[p] /\ Purger(p)
      BY <2>2 DEF Purger
    <3>2. routine[p].resp \in Nat /\ routine[p].resp <= made
      BY <1>1, <3>1, TiersAssumption DEF BelowMade, RoutinesOK, RoutineType
    <3> QED
      BY <1>2, <3>1, <3>2
  <2> QED
    BY <2>1, <2>2 DEF BelowMade
<1>5. SweptOK'
  <2>1. Swept(floor, Tiers)'
    <3>1. \A n \in InHands' : n \in InHands \/ n \in spared' \/ ~(n <= floor)
      <4> SUFFICES ASSUME NEW n \in InHands', n \notin InHands, n <= floor PROVE n \in spared'
        OBVIOUS
      <4>1. PICK t \in Tiers : n = held[t]
        BY <1>2
      <4>2. n \in spared
        BY <1>1, <4>1, HandsAre DEF SweptOK, Swept, SweptIn
      <4> QED
        BY <4>2
    <3>2. SweptIn(held, InHands, spared, floor, Tiers)
      BY <1>1 DEF SweptOK, Swept
    <3>3. SweptIn(held', InHands', spared', floor, Tiers)
      BY <3>1, <3>2, SweptKept
    <3> QED
      BY <3>3 DEF Swept
  <2>2. ASSUME NEW p \in Routines, Purger(p)', NEW T, T \subseteq Tiers, Swept(routine[p].resp, T)
        PROVE  SweptIn(held', InHands', spared', routine'[p].resp, T)
    <3> DEFINE m == routine[p].resp
    <3>1. routine'[p] = routine[p] /\ Purger(p)
      BY <2>2 DEF Purger
    <3>2. m \in Nat /\ m <= made /\ Purging
      BY <1>1, <3>1, TiersAssumption DEF BelowMade, RoutinesOK, RoutineType, Purging
    <3>3. \A n \in InHands' : n \in InHands \/ n \in spared' \/ ~(n <= m)
      BY <1>2, <3>2
    <3>4. SweptIn(held, InHands, spared, m, T)
      BY <2>2 DEF Swept
    <3>5. \A t \in T : held'[t] \in {held[t], NoResp} \cup InHands
      BY <2>2
    <3>6. SweptIn(held', InHands', spared', m, T)
      BY <3>3, <3>4, <3>5, SweptKept
    <3> QED
      BY <3>1, <3>6
  <2>3. ASSUME NEW p \in Routines, routine'[p].at = "purgeDisk" PROVE Swept(routine[p].resp, {"memory"})'
    <3>1. Purger(p)' /\ routine[p].at = "purgeDisk" /\ {"memory"} \subseteq Tiers
      BY <2>3 DEF Purger, Tiers
    <3> QED
      BY <1>1, <2>2, <3>1 DEF SweptOK, Swept
  <2>4. ASSUME NEW p \in Routines, routine'[p].at = "purgeRedis" PROVE Swept(routine[p].resp, {"memory", "disk"})'
    <3>1. Purger(p)' /\ routine[p].at = "purgeRedis" /\ {"memory", "disk"} \subseteq Tiers
      BY <2>4 DEF Purger, Tiers
    <3> QED
      BY <1>1, <2>2, <3>1 DEF SweptOK, Swept
  <2> QED
    BY <2>1, <2>3, <2>4 DEF SweptOK
<1> QED
  BY <1>3, <1>4, <1>5, TiersParts

\* Where a goroutine that is no purger goes next, with n in its hands.
LEMMA GotoStep ==
  ASSUME TiersInv, NEW p \in Routines, ~Purger(p), NEW place \in TierPlaces, NEW n \in 0..MaxResponses,
         Goto(p, place, n), place \notin {"purgeDisk", "purgeRedis"},
         place \in {"promoteDisk", "promoteRedis", "store"} => n # NoResp,
         \/ n = NoResp /\ made' = made
         \/ (\E t \in Tiers : n = held[t]) /\ made' = made
         \/ n = made' /\ made' = made + 1,
         WritersOK', \A s \in Slots : writer'[s].resp \in {writer[s].resp} \cup InHands,
         held' \in [Tiers -> 0..MaxResponses], \A t \in Tiers : held'[t] \in {held[t], NoResp} \cup InHands,
         age' \in [Responses -> {"unborn", "fresh", "stale", "expired"}],
         made' \in 0..MaxResponses, UNCHANGED <<floor, purges>>
  PROVE  TiersInv'
<1>1. RoutinesOK /\ WritersOK /\ TiersOK
  BY TiersParts
<1>2. /\ routine'[p].at = place /\ routine'[p].resp = n
      /\ \A q \in Routines : q # p => routine'[q] = routine[q]
  BY <1>1 DEF Goto, Move, RoutinesOK
<1>3. RoutinesOK'
  <2>1. [at |-> place, resp |-> n] \in RoutineType
    BY DEF RoutineType
  <2>2. routine' \in [Routines -> RoutineType]
    BY <1>1, <2>1 DEF Goto, Move, RoutinesOK
  <2>3. refresher' \in Routines \cup {Unclaimed}
    BY <1>1 DEF Goto, Move, RoutinesOK
  <2> QED
    BY <1>1, <1>2, <2>2, <2>3 DEF RoutinesOK
<1>4. \A q \in Routines : Purger(q)' => routine'[q] = routine[q]
  BY <1>2 DEF Purger
<1>5. \A k \in InHands' : k \in InHands \/ k = n
  <2> SUFFICES ASSUME NEW k \in InHands', k # n PROVE k \in InHands
    OBVIOUS
  <2>1. CASE \E s \in Slots : k = writer'[s].resp
    BY <2>1, HandsAre
  <2>2. CASE \E q \in Routines : ~Purger(q)' /\ k = routine'[q].resp
    BY <1>2, <2>2, HandsAre DEF Purger
  <2> QED
    BY <2>1, <2>2, HandsAre
<1>6. spared \subseteq spared' /\ spared' \subseteq Responses /\ (n # NoResp /\ Purging => n \in spared')
  BY <1>1 DEF Goto, TiersOK, Responses, NoResp
<1>7. \A k \in InHands' : \/ k \in InHands
                          \/ k = made' /\ made' = made + 1
                          \/ (\E t \in Tiers : k = held[t]) /\ (Purging => k \in spared')
  <2>1. \A k \in InHands' : k # NoResp
    BY HandsAre
  <2> QED
    BY <1>5, <1>6, <2>1
<1>8. made' \in {made, made + 1}
  OBVIOUS
<1> QED
  BY <1>3, <1>4, <1>6, <1>7, <1>8, CarryStep

\* What the goroutine held before is still in somebody's hands, or in memory.
LEMMA MemorySetTypes ==
  ASSUME TiersInv, NEW n \in InHands, MemorySet(n)
  PROVE  held' \in [Tiers -> 0..MaxResponses] /\ \A t \in Tiers : held'[t] \in {held[t], NoResp} \cup InHands
<1>1. RoutinesOK /\ WritersOK /\ TiersOK
  BY TiersParts
<1>2. n \in 0..MaxResponses /\ NoResp \in 0..MaxResponses
  BY <1>1, HandsAre, TiersAssumption DEF RoutinesOK, WritersOK, RoutineType, WriterType, NoResp
<1>3. PICK kept \in {n, NoResp} : held' = [held EXCEPT !["memory"] = kept]
  BY DEF MemorySet
<1> QED
  BY <1>1, <1>2, <1>3 DEF TiersOK

\* The writes that are started hold the response they are to store.
LEMMA SpawnTypes ==
  ASSUME TiersInv, NEW n \in InHands, NEW wanted \in SUBSET Lower, Spawn(n, wanted)
  PROVE  WritersOK' /\ \A s \in Slots : writer'[s].resp \in {writer[s].resp} \cup InHands
<1>1. RoutinesOK /\ WritersOK /\ TiersOK
  BY TiersParts
<1>2. n \in 0..MaxResponses
  BY <1>1, HandsAre DEF RoutinesOK, WritersOK, RoutineType, WriterType
<1>3. PICK chosen \in SUBSET wanted :
        \E slotOf \in [chosen -> {s \in Slots : writer[s] = Free}] :
          writer' = [s \in Slots |->
                       IF \E t \in chosen : slotOf[t] = s
                       THEN [tier |-> CHOOSE t \in chosen : slotOf[t] = s, resp |-> n]
                       ELSE writer[s]]
  BY DEF Spawn
<1>4. PICK slotOf \in [chosen -> {s \in Slots : writer[s] = Free}] :
        writer' = [s \in Slots |->
                     IF \E t \in chosen : slotOf[t] = s
                     THEN [tier |-> CHOOSE t \in chosen : slotOf[t] = s, resp |-> n]
                     ELSE writer[s]]
  BY <1>3
<1>5. ASSUME NEW s \in Slots
      PROVE  /\ writer'[s] \in WriterType
             /\ writer'[s].tier = "none" => writer'[s] = Free
             /\ writer'[s].resp \in {writer[s].resp} \cup InHands
  <2>1. CASE \E t \in chosen : slotOf[t] = s
    <3> DEFINE t == CHOOSE t \in chosen : slotOf[t] = s
    <3>1. t \in chosen
      BY <2>1
    <3>2. t \in Lower
      BY <3>1
    <3>3. writer'[s] = [tier |-> t, resp |-> n]
      BY <1>4, <2>1
    <3> HIDE DEF t
    <3>4. writer'[s].tier = t /\ writer'[s].resp = n
      BY <3>3
    <3> QED
      BY <1>2, <3>2, <3>3, <3>4 DEF WriterType, Lower
  <2>2. CASE ~ \E t \in chosen : slotOf[t] = s
    BY <1>1, <1>4, <2>2 DEF WritersOK
  <2> QED
    BY <2>1, <2>2
<1>6. writer' \in [Slots -> WriterType]
  <2>1. writer' = [s \in Slots |-> writer'[s]]
    BY <1>4
  <2> QED
    BY <1>5, <2>1
<1> QED
  BY <1>5, <1>6 DEF WritersOK

\* GetByKey, one tier after the other.
LEMMA LookupInv ==
  ASSUME TiersInv, NEW p \in Routines,
         \/ GetMemory(p) \/ GetDisk(p) \/ DropDisk(p) \/ GetRedis(p)
         \/ PromoteDisk(p) \/ PromoteRedis(p)
  PROVE  TiersInv'
<1>1. RoutinesOK /\ WritersOK /\ TiersOK
  BY TiersParts
<1>2. /\ ~Purger(p) /\ UNCHANGED <<age, made, floor, purges>>
      /\ age' \in [Responses -> {"unborn", "fresh", "stale", "expired"}] /\ made' \in 0..MaxResponses
      /\ NoResp \in 0..MaxResponses
  BY <1>1, TiersAssumption
     DEF GetMemory, GetDisk, DropDisk, GetRedis, PromoteDisk, PromoteRedis, Purger, TiersOK, AtRest, NoResp
<1>3. writer' = writer => WritersOK' /\ \A s \in Slots : writer'[s].resp \in {writer[s].resp} \cup InHands
  BY <1>1 DEF WritersOK
<1>4. held' = held => /\ held' \in [Tiers -> 0..MaxResponses]
                      /\ \A t \in Tiers : held'[t] \in {held[t], NoResp} \cup InHands
  BY <1>1 DEF TiersOK
<1>5. \A t \in Tiers : held[t] \in 0..MaxResponses
  BY <1>1 DEF TiersOK
<1>6. routine[p].at \in {"promoteDisk", "promoteRedis"} => routine[p].resp \in InHands
  BY <1>1, HandsAre DEF RoutinesOK, Purger
<1>7. CASE GetMemory(p)
  <2>1. Goto(p, "disk", NoResp) /\ held' = held /\ writer' = writer
    BY <1>7 DEF GetMemory
  <2> QED
    BY <1>2, <1>3, <1>4, <2>1, GotoStep DEF TierPlaces
<1>8. CASE GetDisk(p)
  <2>1. held' = held /\ writer' = writer
    BY <1>8 DEF GetDisk
  <2>2. CASE Goto(p, "promoteDisk", held["disk"]) /\ held["disk"] # NoResp
    BY <1>2, <1>3, <1>4, <1>5, <2>1, <2>2, GotoStep DEF TierPlaces, Tiers
  <2>3. CASE Goto(p, "dropDisk", NoResp)
    BY <1>2, <1>3, <1>4, <2>1, <2>3, GotoStep DEF TierPlaces
  <2>4. CASE Goto(p, "redis", NoResp)
    BY <1>2, <1>3, <1>4, <2>1, <2>4, GotoStep DEF TierPlaces
  <2> QED
    BY <1>8, <2>2, <2>3, <2>4 DEF GetDisk, Usable
<1>9. CASE DropDisk(p)
  <2>1. Goto(p, "redis", NoResp) /\ writer' = writer
    BY <1>9 DEF DropDisk
  <2>2. held' \in [Tiers -> 0..MaxResponses] /\ \A t \in Tiers : held'[t] \in {held[t], NoResp} \cup InHands
    BY <1>1, <1>2, <1>4, <1>9 DEF DropDisk, TiersOK
  <2> QED
    BY <1>2, <1>3, <2>1, <2>2, GotoStep DEF TierPlaces
<1>10. CASE GetRedis(p)
  <2>1. held' = held /\ writer' = writer
    BY <1>10 DEF GetRedis
  <2>2. CASE Goto(p, "promoteRedis", held["redis"]) /\ held["redis"] # NoResp
    BY <1>2, <1>3, <1>4, <1>5, <2>1, <2>2, GotoStep DEF TierPlaces, Tiers
  <2>3. CASE Goto(p, "fetch", NoResp)
    BY <1>2, <1>3, <1>4, <2>1, <2>3, GotoStep DEF TierPlaces
  <2> QED
    BY <1>10, <2>2, <2>3 DEF GetRedis, Usable
<1>11. CASE PromoteDisk(p)
  <2>1. Goto(p, "idle", NoResp) /\ MemorySet(routine[p].resp) /\ writer' = writer /\ routine[p].resp \in InHands
    BY <1>6, <1>11 DEF PromoteDisk
  <2>2. held' \in [Tiers -> 0..MaxResponses] /\ \A t \in Tiers : held'[t] \in {held[t], NoResp} \cup InHands
    BY <2>1, MemorySetTypes
  <2> QED
    BY <1>2, <1>3, <2>1, <2>2, GotoStep DEF TierPlaces
<1>12. CASE PromoteRedis(p)
  <2>1. /\ Goto(p, "idle", NoResp) /\ MemorySet(routine[p].resp) /\ Spawn(routine[p].resp, {"disk"})
        /\ routine[p].resp \in InHands /\ {"disk"} \in SUBSET Lower
    BY <1>6, <1>12 DEF PromoteRedis, Lower
  <2>2. held' \in [Tiers -> 0..MaxResponses] /\ \A t \in Tiers : held'[t] \in {held[t], NoResp} \cup InHands
    BY <2>1, MemorySetTypes
  <2>3. WritersOK' /\ \A s \in Slots : writer'[s].resp \in {writer[s].resp} \cup InHands
    BY <2>1, SpawnTypes
  <2> QED
    BY <1>2, <2>1, <2>2, <2>3, GotoStep DEF TierPlaces
<1> QED
  BY <1>7, <1>8, <1>9, <1>10, <1>11, <1>12

\* The origin's answers, and what becomes of them.
LEMMA FetchInv ==
  ASSUME TiersInv, NEW p \in Routines, Refresh(p) \/ Fetch(p) \/ NotStored(p) \/ Store(p)
  PROVE  TiersInv'
<1>1. RoutinesOK /\ WritersOK /\ TiersOK
  BY TiersParts
<1>2. /\ ~Purger(p) /\ UNCHANGED <<floor, purges>> /\ NoResp \in 0..MaxResponses
      /\ age \in [Responses -> {"unborn", "fresh", "stale", "expired"}] /\ made \in 0..MaxResponses
  BY <1>1, TiersAssumption DEF Refresh, Fetch, NotStored, Store, Purger, TiersOK, AtRest, NoResp
<1>3. writer' = writer => WritersOK' /\ \A s \in Slots : writer'[s].resp \in {writer[s].resp} \cup InHands
  BY <1>1 DEF WritersOK
<1>4. held' = held => /\ held' \in [Tiers -> 0..MaxResponses]
                      /\ \A t \in Tiers : held'[t] \in {held[t], NoResp} \cup InHands
  BY <1>1 DEF TiersOK
<1>5. CASE Refresh(p)
  <2>1. /\ routine'[p].at = "refetch" /\ routine'[p].resp = NoResp
        /\ \A q \in Routines : q # p => routine'[q] = routine[q]
        /\ UNCHANGED <<held, age, made, writer, spared>>
    BY <1>1, <1>5 DEF Refresh, RoutinesOK, RoutineType, AtRest
  <2>2. RoutinesOK'
    <3>1. routine' \in [Routines -> RoutineType]
      BY <1>1, <1>5 DEF Refresh, RoutinesOK, RoutineType, TierPlaces
    <3>2. refresher' = p
      BY <1>5 DEF Refresh
    <3> QED
      BY <1>1, <2>1, <3>1, <3>2 DEF RoutinesOK
  <2>3. \A q \in Routines : Purger(q)' => routine'[q] = routine[q]
    BY <2>1 DEF Purger
  <2>4. \A n \in InHands' : n \in InHands
    BY <2>1, HandsAre DEF Purger
  <2>5. spared' \subseteq Responses
    BY <1>1, <2>1 DEF TiersOK
  <2> QED
    BY <1>2, <1>3, <1>4, <2>1, <2>2, <2>3, <2>4, <2>5, CarryStep
<1>6. CASE Fetch(p)
  <2>1. /\ Goto(p, "store", made + 1) /\ held' = held /\ writer' = writer
        /\ made' = made + 1 /\ made < MaxResponses
        /\ age' = [age EXCEPT ![made + 1] = "fresh"]
    BY <1>6 DEF Fetch
  <2>2. made + 1 \in 0..MaxResponses /\ made + 1 # NoResp
    BY <1>2, <2>1, TiersAssumption DEF NoResp
  <2>3. age' \in [Responses -> {"unborn", "fresh", "stale", "expired"}]
    BY <1>2, <2>1
  <2> QED
    BY <1>2, <1>3, <1>4, <2>1, <2>2, <2>3, GotoStep DEF TierPlaces
<1>7. CASE NotStored(p)
  <2>1. Goto(p, "idle", NoResp) /\ UNCHANGED <<held, writer, age, made>>
    BY <1>7 DEF NotStored
  <2> QED
    BY <1>2, <1>3, <1>4, <2>1, GotoStep DEF TierPlaces
<1>8. CASE Store(p)
  <2>1. /\ Goto(p, "idle", NoResp) /\ MemorySet(routine[p].resp) /\ Spawn(routine[p].resp, Lower)
        /\ UNCHANGED <<age, made>>
    BY <1>8 DEF Store
  <2>2. routine[p].resp \in InHands
    BY <1>1, <1>2, <1>8, HandsAre DEF Store, RoutinesOK
  <2>3. held' \in [Tiers -> 0..MaxResponses] /\ \A t \in Tiers : held'[t] \in {held[t], NoResp} \cup InHands
    BY <2>1, <2>2, MemorySetTypes
  <2>4. WritersOK' /\ \A s \in Slots : writer'[s].resp \in {writer[s].resp} \cup InHands
    BY <2>1, <2>2, SpawnTypes
  <2> QED
    BY <1>2, <2>1, <2>3, <2>4, GotoStep DEF TierPlaces
<1> QED
  BY <1>5, <1>6, <1>7, <1>8

\* The write goroutines, time, and what the tiers drop on their own.
LEMMA BackgroundInv ==
  ASSUME TiersInv,
         \/ \E s \in Slots : Write(s)
         \/ \E n \in Responses : Grow(n)
         \/ Evict
         \/ \E t \in Lower : CleanExpired(t)
         \/ UNCHANGED tiersVars
  PROVE  TiersInv'
<1>1. RoutinesOK /\ WritersOK /\ TiersOK
  BY TiersParts
<1>2. UNCHANGED <<made, routine, refresher, floor, spared, purges>>
  BY DEF Write, Grow, Evict, CleanExpired, tiersVars
<1>3. /\ RoutinesOK' /\ made' \in 0..MaxResponses /\ spared' \subseteq Responses
      /\ \A p \in Routines : Purger(p)' => routine'[p] = routine[p]
  BY <1>1, <1>2 DEF RoutinesOK, TiersOK
<1>4. NoResp \in 0..MaxResponses
  BY TiersAssumption DEF NoResp
<1>5. ASSUME WritersOK', \A s \in Slots : writer'[s].resp \in {writer[s].resp, NoResp},
             held' \in [Tiers -> 0..MaxResponses],
             \A t \in Tiers : held'[t] \in {held[t], NoResp} \cup InHands,
             age' \in [Responses -> {"unborn", "fresh", "stale", "expired"}]
      PROVE  TiersInv'
  <2>1. \A n \in InHands' : n \in InHands
    BY <1>2, <1>5, HandsAre DEF Purger
  <2> QED
    BY <1>2, <1>3, <1>5, <2>1, CarryStep
<1>6. writer' = writer => WritersOK' /\ \A s \in Slots : writer'[s].resp \in {writer[s].resp, NoResp}
  BY <1>1 DEF WritersOK
<1>7. held' = held => /\ held' \in [Tiers -> 0..MaxResponses]
                      /\ \A t \in Tiers : held'[t] \in {held[t], NoResp} \cup InHands
  BY <1>1 DEF TiersOK
<1>8. age' = age => age' \in [Responses -> {"unborn", "fresh", "stale", "expired"}]
  BY <1>1 DEF TiersOK
<1>9. ASSUME NEW s \in Slots, Write(s) PROVE TiersInv'
  <2>1. writer[s].tier \in Lower /\ writer[s].resp \in 0..MaxResponses
    BY <1>1, <1>9 DEF Write, WritersOK, WriterType
  <2>2. writer[s].resp \in {NoResp} \cup InHands
    BY HandsAre
  <2>3. held' \in [Tiers -> 0..MaxResponses] /\ \A t \in Tiers : held'[t] \in {held[t], NoResp} \cup InHands
    BY <1>1, <1>7, <1>9, <2>1, <2>2 DEF Write, TiersOK
  <2>4. Free \in WriterType /\ Free.resp = NoResp
    BY <1>4 DEF Free, WriterType
  <2>5. WritersOK' /\ \A k \in Slots : writer'[k].resp \in {writer[k].resp, NoResp}
    BY <1>1, <1>9, <2>4 DEF Write, WritersOK
  <2>6. age' = age
    BY <1>9 DEF Write
  <2> QED
    BY <1>5, <1>8, <2>3, <2>5, <2>6
<1>10. ASSUME NEW n \in Responses, Grow(n) PROVE TiersInv'
  <2>1. age' \in [Responses -> {"unborn", "fresh", "stale", "expired"}]
    BY <1>1, <1>10 DEF Grow, TiersOK
  <2>2. held' = held /\ writer' = writer
    BY <1>10 DEF Grow
  <2> QED
    BY <1>5, <1>6, <1>7, <2>1, <2>2
<1>11. ASSUME NEW t \in Tiers, held' = [held EXCEPT ![t] = NoResp], writer' = writer, age' = age PROVE TiersInv'
  <2>1. held' \in [Tiers -> 0..MaxResponses] /\ \A u \in Tiers : held'[u] \in {held[u], NoResp} \cup InHands
    BY <1>1, <1>4, <1>11 DEF TiersOK
  <2> QED
    BY <1>5, <1>6, <1>8, <1>11, <2>1
<1>12. CASE Evict
  BY <1>11, <1>12 DEF Evict, Tiers
<1>13. ASSUME NEW t \in Lower, CleanExpired(t) PROVE TiersInv'
  BY <1>11, <1>13 DEF CleanExpired, Tiers, Lower
<1>14. CASE UNCHANGED tiersVars
  BY <1>5, <1>6, <1>7, <1>8, <1>14 DEF tiersVars
<1> QED
  BY <1>9, <1>10, <1>12, <1>13, <1>14

\* A purger's own steps put nothing into anybody's hands and nothing into a
\* tier, so that what was swept stays swept.
LEMMA PurgeKeepsSwept ==
  ASSUME TiersInv, NEW p \in Routines, NEW m, NEW T,
         \A q \in Routines : q # p => routine'[q] = routine[q],
         Purger(p)' \/ routine'[p].resp = NoResp, writer' = writer,
         \A t \in Tiers : held'[t] \in {held[t], NoResp},
         spared \subseteq spared', T \subseteq Tiers,
         SweptIn(held, InHands, spared, m, T)
  PROVE  SweptIn(held', InHands', spared', m, T) /\ InHands' \subseteq InHands
<1>1. InHands' \subseteq InHands
  BY HandsAre DEF Purger
<1>2. SweptIn(held', InHands', spared', m, T)
  BY <1>1, SweptKept
<1> QED
  BY <1>1, <1>2

\* The types a purge keeps, whichever tier it empties.
LEMMA PurgeTypes ==
  ASSUME TiersInv, NEW p \in Routines, NEW place \in {"purgeDisk", "purgeRedis", "idle"}, NEW n \in 0..made,
         Move(p, place, n), UNCHANGED <<age, made, writer>>,
         held' \in [Tiers -> 0..MaxResponses], \A t \in Tiers : held'[t] \in {held[t], NoResp},
         InHands' \subseteq InHands, spared' \subseteq Responses,
         floor' \in 0..made, purges' \in 0..MaxPurges
  PROVE  /\ RoutinesOK' /\ WritersOK' /\ TiersOK' /\ BelowMade'
         /\ routine'[p].at = place /\ routine'[p].resp = n
         /\ \A q \in Routines : q # p => routine'[q] = routine[q]
<1>1. RoutinesOK /\ WritersOK /\ TiersOK /\ BelowMade
  BY TiersParts
<1>2. made \in Nat /\ n \in Nat /\ n <= made /\ n \in 0..MaxResponses
  BY <1>1, TiersAssumption DEF TiersOK
<1>3. /\ routine'[p].at = place /\ routine'[p].resp = n
      /\ \A q \in Routines : q # p => routine'[q] = routine[q]
  BY <1>1 DEF Move, RoutinesOK
<1>4. RoutinesOK'
  <2>1. [at |-> place, resp |-> n] \in RoutineType
    BY <1>2 DEF RoutineType, TierPlaces
  <2>2. routine' \in [Routines -> RoutineType] /\ refresher' \in Routines \cup {Unclaimed}
    BY <1>1, <2>1 DEF Move, RoutinesOK
  <2> QED
    BY <1>1, <1>3, <2>2 DEF RoutinesOK
<1>5. WritersOK'
  BY <1>1 DEF WritersOK
<1>6. TiersOK'
  BY <1>1, <1>2 DEF TiersOK, NoResp
<1>7. BelowMade'
  BY <1>1, <1>2, <1>3 DEF BelowMade, Purger
<1> QED
  BY <1>3, <1>4, <1>5, <1>6, <1>7

\* A purge begins: it empties memory, and spares what is in hands.
LEMMA BeginPurgeInv ==
  ASSUME TiersInv, NEW p \in Routines, BeginPurge(p),
         UNCHANGED <<age, made, writer, floor>>, purges' \in 0..MaxPurges
  PROVE  TiersInv'
<1>1. RoutinesOK /\ WritersOK /\ TiersOK /\ SweptOK /\ BelowMade
  BY TiersParts
<1>2. Move(p, "purgeDisk", made) /\ held' = [held EXCEPT !["memory"] = NoResp] /\ spared' = spared \cup InHands
  BY DEF BeginPurge
<1>3. made \in Nat /\ made \in 0..made /\ NoResp \in 0..MaxResponses
  BY <1>1, TiersAssumption DEF TiersOK, NoResp
<1>4. /\ held' \in [Tiers -> 0..MaxResponses] /\ \A t \in Tiers : held'[t] \in {held[t], NoResp}
      /\ held'["memory"] = NoResp
  BY <1>1, <1>2, <1>3 DEF TiersOK, Tiers
<1>5. /\ routine'[p].at = "purgeDisk" /\ routine'[p].resp = made
      /\ \A q \in Routines : q # p => routine'[q] = routine[q]
  BY <1>1, <1>2 DEF Move, RoutinesOK
<1>6. Purger(p)' /\ spared \subseteq spared'
  BY <1>2, <1>5 DEF Purger
<1>7. SweptIn(held', InHands', spared', floor, Tiers) /\ InHands' \subseteq InHands
  <2>1. SweptIn(held, InHands, spared, floor, Tiers)
    BY <1>1 DEF SweptOK, Swept
  <2> QED
    BY <1>4, <1>5, <1>6, <2>1, PurgeKeepsSwept
<1>8. spared' \subseteq Responses /\ floor' \in 0..made
  <2>1. ASSUME NEW n \in InHands PROVE n \in Responses
    <3>1. n # 0 /\ n \in 0..MaxResponses
      BY <1>1, <2>1, HandsAre DEF NoResp, RoutinesOK, WritersOK, RoutineType, WriterType
    <3> QED
      BY <3>1, TiersAssumption DEF Responses
  <2> QED
    BY <1>1, <1>2, <2>1 DEF TiersOK
<1>9. RoutinesOK' /\ WritersOK' /\ TiersOK' /\ BelowMade'
  BY <1>2, <1>3, <1>4, <1>7, <1>8, PurgeTypes
<1>10. SweptOK'
  <2>1. Swept(floor, Tiers)'
    BY <1>7 DEF Swept
  <2>2. SweptIn(held', InHands', spared', made, {"memory"})
    BY <1>2, <1>4, <1>7 DEF SweptIn
  <2>3. ASSUME NEW q \in Routines, routine'[q].at = "purgeDisk" PROVE Swept(routine[q].resp, {"memory"})'
    <3>1. CASE q = p
      BY <1>5, <2>2, <3>1 DEF Swept
    <3>2. CASE q # p
      <4>1. SweptIn(held, InHands, spared, routine[q].resp, {"memory"}) /\ routine'[q].resp = routine[q].resp
        BY <1>1, <1>5, <2>3, <3>2 DEF SweptOK, Swept
      <4>2. SweptIn(held', InHands', spared', routine[q].resp, {"memory"})
        BY <1>4, <1>5, <1>6, <4>1, PurgeKeepsSwept DEF Tiers
      <4> QED
        BY <4>1, <4>2 DEF Swept
    <3> QED
      BY <3>1, <3>2
  <2>4. ASSUME NEW q \in Routines, routine'[q].at = "purgeRedis" PROVE Swept(routine[q].resp, {"memory", "disk"})'
    <3>1. SweptIn(held, InHands, spared, routine[q].resp, {"memory", "disk"}) /\ routine'[q].resp = routine[q].resp
      BY <1>1, <1>5, <2>4 DEF SweptOK, Swept
    <3>2. SweptIn(held', InHands', spared', routine[q].resp, {"memory", "disk"})
      BY <1>4, <1>5, <1>6, <3>1, PurgeKeepsSwept DEF Tiers
    <3> QED
      BY <3>1, <3>2 DEF Swept
  <2> QED
    BY <2>1, <2>3, <2>4 DEF SweptOK
<1> QED
  BY <1>9, <1>10, TiersParts

\* What a purge could not delete from a tier is a response.
LEMMA MissedTypes ==
  ASSUME TiersInv, NEW t \in Tiers
  PROVE  Missed(t) \subseteq Responses /\ (held[t] # NoResp => held[t] \in Missed(t))
<1>1. held[t] # NoResp => held[t] \in Responses
  BY TiersParts, TiersAssumption DEF TiersOK, Responses, NoResp
<1> QED
  BY <1>1 DEF Missed

\* ...goes on with the disk, which may fail...
LEMMA PurgeDiskInv ==
  ASSUME TiersInv, NEW p \in Routines, NEW ok \in BOOLEAN, PurgeDisk(p, ok)
  PROVE  TiersInv'
<1>1. RoutinesOK /\ WritersOK /\ TiersOK /\ SweptOK /\ BelowMade
  BY TiersParts
<1>2. /\ Move(p, "purgeRedis", routine[p].resp) /\ routine[p].at = "purgeDisk"
      /\ UNCHANGED <<age, made, writer, floor, purges>>
      /\ held' = IF ok THEN [held EXCEPT !["disk"] = NoResp] ELSE held
      /\ spared' = IF ok THEN spared ELSE spared \cup Missed("disk")
  BY DEF PurgeDisk
<1>3. routine[p].resp \in 0..made /\ NoResp \in 0..MaxResponses
  BY <1>1, <1>2, TiersAssumption DEF BelowMade, Purger, RoutinesOK, RoutineType, TiersOK, NoResp
<1>4. /\ held' \in [Tiers -> 0..MaxResponses] /\ \A t \in Tiers : held'[t] \in {held[t], NoResp}
      /\ held'["disk"] # NoResp => held'["disk"] \in spared'
  <2>1. CASE ok
    BY <1>1, <1>2, <1>3, <2>1 DEF TiersOK, Tiers
  <2>2. CASE ~ok
    BY <1>1, <1>2, <2>2, MissedTypes DEF TiersOK, Tiers
  <2> QED
    BY <2>1, <2>2
<1>5. /\ routine'[p].at = "purgeRedis" /\ routine'[p].resp = routine[p].resp
      /\ \A q \in Routines : q # p => routine'[q] = routine[q]
  BY <1>1, <1>2 DEF Move, RoutinesOK
<1>6. Purger(p)' /\ spared \subseteq spared' /\ spared' \subseteq Responses
  <2>1. Missed("disk") \subseteq Responses
    BY MissedTypes DEF Tiers
  <2> QED
    BY <1>1, <1>2, <1>5, <2>1 DEF Purger, TiersOK
<1>7. SweptIn(held', InHands', spared', floor, Tiers) /\ InHands' \subseteq InHands
  <2>1. SweptIn(held, InHands, spared, floor, Tiers)
    BY <1>1 DEF SweptOK, Swept
  <2> QED
    BY <1>2, <1>4, <1>5, <1>6, <2>1, PurgeKeepsSwept
<1>8. floor' \in 0..made /\ purges' \in 0..MaxPurges
  BY <1>1, <1>2 DEF TiersOK
<1>9. RoutinesOK' /\ WritersOK' /\ TiersOK' /\ BelowMade'
  BY <1>2, <1>3, <1>4, <1>6, <1>7, <1>8, PurgeTypes
<1>10. SweptOK'
  <2>1. Swept(floor, Tiers)'
    BY <1>2, <1>7 DEF Swept
  <2>2. ASSUME NEW q \in Routines, routine'[q].at = "purgeDisk" PROVE Swept(routine[q].resp, {"memory"})'
    <3>1. SweptIn(held, InHands, spared, routine[q].resp, {"memory"}) /\ routine'[q].resp = routine[q].resp
      BY <1>1, <1>5, <2>2 DEF SweptOK, Swept
    <3>2. SweptIn(held', InHands', spared', routine[q].resp, {"memory"})
      BY <1>2, <1>4, <1>5, <1>6, <3>1, PurgeKeepsSwept DEF Tiers
    <3> QED
      BY <3>1, <3>2 DEF Swept
  <2>3. ASSUME NEW q \in Routines, routine'[q].at = "purgeRedis" PROVE Swept(routine[q].resp, {"memory", "disk"})'
    <3>1. CASE q = p
      <4>1. SweptIn(held, InHands, spared, routine[p].resp, {"memory"})
        BY <1>1, <1>2 DEF SweptOK, Swept
      <4>2. SweptIn(held', InHands', spared', routine[p].resp, {"memory"})
        BY <1>2, <1>4, <1>5, <1>6, <4>1, PurgeKeepsSwept DEF Tiers
      <4>3. SweptIn(held', InHands', spared', routine[p].resp, {"memory", "disk"})
        BY <1>4, <4>2 DEF SweptIn
      <4> QED
        BY <1>5, <3>1, <4>3 DEF Swept
    <3>2. CASE q # p
      <4>1. SweptIn(held, InHands, spared, routine[q].resp, {"memory", "disk"}) /\ routine'[q].resp = routine[q].resp
        BY <1>1, <1>5, <2>3, <3>2 DEF SweptOK, Swept
      <4>2. SweptIn(held', InHands', spared', routine[q].resp, {"memory", "disk"})
        BY <1>2, <1>4, <1>5, <1>6, <4>1, PurgeKeepsSwept DEF Tiers
      <4> QED
        BY <4>1, <4>2 DEF Swept
    <3> QED
      BY <3>1, <3>2
  <2> QED
    BY <2>1, <2>2, <2>3 DEF SweptOK
<1> QED
  BY <1>9, <1>10, TiersParts

\* ...and ends with Redis, which may fail.
LEMMA PurgeRedisInv ==
  ASSUME TiersInv, NEW p \in Routines, NEW ok \in BOOLEAN, PurgeRedis(p, ok)
  PROVE  TiersInv'
<1>1. RoutinesOK /\ WritersOK /\ TiersOK /\ SweptOK /\ BelowMade
  BY TiersParts
<1> DEFINE m == routine[p].resp
<1>2. /\ Move(p, "idle", NoResp) /\ routine[p].at = "purgeRedis" /\ UNCHANGED <<age, made, writer, purges>>
      /\ held' = IF ok THEN [held EXCEPT !["redis"] = NoResp] ELSE held
      /\ spared' = IF ok THEN spared ELSE spared \cup Missed("redis")
      /\ floor' = IF m > floor THEN m ELSE floor
  BY DEF PurgeRedis
<1>3. /\ m \in Nat /\ m <= made /\ made \in Nat /\ floor \in Nat /\ floor <= made
      /\ NoResp \in 0..MaxResponses /\ NoResp \in 0..made
  BY <1>1, <1>2, TiersAssumption DEF BelowMade, Purger, RoutinesOK, RoutineType, TiersOK, NoResp
<1>4. /\ held' \in [Tiers -> 0..MaxResponses] /\ \A t \in Tiers : held'[t] \in {held[t], NoResp}
      /\ held'["redis"] # NoResp => held'["redis"] \in spared'
  <2>1. CASE ok
    BY <1>1, <1>2, <1>3, <2>1 DEF TiersOK, Tiers
  <2>2. CASE ~ok
    BY <1>1, <1>2, <2>2, MissedTypes DEF TiersOK, Tiers
  <2> QED
    BY <2>1, <2>2
<1>5. /\ routine'[p].at = "idle" /\ routine'[p].resp = NoResp
      /\ \A q \in Routines : q # p => routine'[q] = routine[q]
  BY <1>1, <1>2 DEF Move, RoutinesOK
<1>6. spared \subseteq spared' /\ spared' \subseteq Responses
  <2>1. Missed("redis") \subseteq Responses
    BY MissedTypes DEF Tiers
  <2> QED
    BY <1>1, <1>2, <2>1 DEF TiersOK
<1>7. SweptIn(held', InHands', spared', floor, Tiers) /\ InHands' \subseteq InHands
  <2>1. SweptIn(held, InHands, spared, floor, Tiers)
    BY <1>1 DEF SweptOK, Swept
  <2> QED
    BY <1>2, <1>4, <1>5, <1>6, <2>1, PurgeKeepsSwept
<1>8. floor' \in 0..made /\ purges' \in 0..MaxPurges
  BY <1>1, <1>2, <1>3 DEF TiersOK
<1>9. RoutinesOK' /\ WritersOK' /\ TiersOK' /\ BelowMade'
  BY <1>2, <1>3, <1>4, <1>6, <1>7, <1>8, PurgeTypes
<1>10. SweptOK'
  <2>1. SweptIn(held', InHands', spared', m, Tiers)
    <3>1. SweptIn(held, InHands, spared, m, {"memory", "disk"})
      BY <1>1, <1>2 DEF SweptOK, Swept
    <3>2. SweptIn(held', InHands', spared', m, {"memory", "disk"})
      BY <1>2, <1>4, <1>5, <1>6, <3>1, PurgeKeepsSwept DEF Tiers
    <3> QED
      BY <1>4, <3>2 DEF SweptIn, Tiers
  <2>2. Swept(floor, Tiers)'
    BY <1>2, <1>7, <2>1 DEF Swept
  <2>3. ASSUME NEW q \in Routines, NEW T, T \subseteq Tiers, Purger(q)', Swept(routine[q].resp, T)
        PROVE  SweptIn(held', InHands', spared', routine'[q].resp, T)
    <3>1. SweptIn(held, InHands, spared, routine[q].resp, T) /\ routine'[q].resp = routine[q].resp
      BY <1>5, <2>3 DEF Swept, Purger
    <3>2. SweptIn(held', InHands', spared', routine[q].resp, T)
      BY <1>2, <1>4, <1>5, <1>6, <2>3, <3>1, PurgeKeepsSwept
    <3> QED
      BY <3>1, <3>2
  <2>4. ASSUME NEW q \in Routines, routine'[q].at = "purgeDisk" PROVE Swept(routine[q].resp, {"memory"})'
    <3>1. Purger(q)' /\ routine[q].at = "purgeDisk" /\ {"memory"} \subseteq Tiers
      BY <1>5, <2>4 DEF Purger, Tiers
    <3> QED
      BY <1>1, <2>3, <3>1 DEF SweptOK, Swept
  <2>5. ASSUME NEW q \in Routines, routine'[q].at = "purgeRedis" PROVE Swept(routine[q].resp, {"memory", "disk"})'
    <3>1. Purger(q)' /\ routine[q].at = "purgeRedis" /\ {"memory", "disk"} \subseteq Tiers
      BY <1>5, <2>5 DEF Purger, Tiers
    <3> QED
      BY <1>1, <2>3, <3>1 DEF SweptOK, Swept
  <2> QED
    BY <2>2, <2>4, <2>5 DEF SweptOK
<1> QED
  BY <1>9, <1>10, TiersParts

\* The invariant of the cache holds throughout.
THEOREM TiersInvariant == TiersSpec => []TiersInv
<1>1. TiersInit => TiersInv
  <2> SUFFICES ASSUME TiersInit PROVE TiersInv
    OBVIOUS
  <2>1. RoutinesOK /\ WritersOK /\ TiersOK
    BY TiersAssumption DEF TiersInit, RoutinesOK, WritersOK, TiersOK, RoutineType, WriterType, AtRest, Free,
                           NoResp, TierPlaces
  <2>2. InHands = {} /\ \A p \in Routines : ~Purger(p)
    BY DEF InHands, TiersInit, Purger, AtRest, Free
  <2>3. SweptOK /\ BelowMade
    BY <2>2 DEF SweptOK, BelowMade, Swept, SweptIn, Purger, TiersInit, NoResp
  <2> QED
    BY <2>1, <2>3, TiersParts
<1>2. TiersInv /\ [TiersNext]_tiersVars => TiersInv'
  <2> SUFFICES ASSUME TiersInv, [TiersNext]_tiersVars PROVE TiersInv'
    OBVIOUS
  <2>1. ASSUME NEW p \in Routines, PurgeMemory(p) PROVE TiersInv'
    <3>1. /\ BeginPurge(p) /\ UNCHANGED <<age, made, writer, floor>>
          /\ purges' = purges + 1 /\ purges < MaxPurges
      BY <2>1 DEF PurgeMemory
    <3>2. purges' \in 0..MaxPurges
      BY <3>1, TiersParts, TiersAssumption DEF TiersOK
    <3> QED
      BY <3>1, <3>2, BeginPurgeInv
  <2>2. ASSUME NEW p \in Routines, RefreshPurges(p) PROVE TiersInv'
    <3>1. BeginPurge(p) /\ UNCHANGED <<age, made, writer, floor, purges>>
      BY <2>2 DEF RefreshPurges
    <3>2. purges' \in 0..MaxPurges
      BY <3>1, TiersParts DEF TiersOK
    <3> QED
      BY <3>1, <3>2, BeginPurgeInv
  <2> QED
    BY <2>1, <2>2, LookupInv, FetchInv, BackgroundInv, PurgeDiskInv, PurgeRedisInv DEF TiersNext
<1> QED
  BY <1>1, <1>2, PTL DEF TiersSpec

\* What a completed purge was to remove comes back only if it was spared.
THEOREM PurgedStaysGone == TiersSpec => []OnlySparedSurvive
<1>1. TiersInv => OnlySparedSurvive
  BY DEF TiersInv, Swept, SweptIn, OnlySparedSurvive
<1> QED
  BY <1>1, TiersInvariant, PTL

-----------------------------------------------------------------------------
(* The domain configuration *)

Locked == {"write", "load", "reapply"}

StoresOK ==
  /\ config \in Configs /\ files \in Configs /\ live \in [Layers -> Configs]
  /\ ops \in 0..MaxOps /\ overlap \in BOOLEAN /\ stray \subseteq Hosts /\ failed \in BOOLEAN

ProcsOK ==
  /\ persistMu \in Procs \cup {Nobody}
  /\ pc \in [Procs -> PcType]
  /\ \A p \in Procs : pc[p].at \in Locked <=> persistMu = p
  /\ \A p \in Procs : pc[p].at = "apply" => pc[p].next <= Len(Subsystems)

\* The invariant in those parts.
LEMMA ConfigParts == /\ ConfigInv <=> StoresOK /\ ProcsOK /\ FilesOwed /\ LiveOwed
                     /\ ConfigInv' <=> StoresOK' /\ ProcsOK' /\ FilesOwed' /\ LiveOwed'
  BY DEF ConfigInv, TypeOK, StoresOK, ProcsOK, Locked

\* An idle goroutine's record, and the length of the list of subsystems.
LEMMA IdleTyped == /\ Idle \in PcType /\ Idle.at = "idle"
                   /\ Len(Subsystems) \in Nat /\ Len(Subsystems) > 0
                   /\ \A i \in 1..Len(Subsystems) : Subsystems[i] \in Layers
<1>1. Len(Subsystems) \in Nat /\ Len(Subsystems) > 0
  BY ConfigAssumption
<1>2. (CHOOSE h \in Hosts : TRUE) \in Hosts
  BY ConfigAssumption
<1>3. Idle \in PcType /\ Idle.at = "idle"
  BY <1>1, <1>2, ConfigAssumption DEF Idle, PcType, Places
<1> QED
  BY <1>1, <1>3 DEF Layers

\* One goroutine's record changes, and persistMu with it.
LEMMA Becomes ==
  ASSUME ProcsOK, NEW p \in Procs, NEW x \in PcType, pc' = [pc EXCEPT ![p] = x],
         \/ x.at \in Locked /\ persistMu' = p /\ persistMu \in {Nobody, p}
         \/ x.at \notin Locked /\ persistMu' = Nobody /\ persistMu = p
         \/ x.at \notin Locked /\ persistMu' = persistMu /\ pc[p].at \notin Locked,
         x.at = "apply" => x.next <= Len(Subsystems)
  PROVE  ProcsOK' /\ pc'[p] = x /\ \A q \in Procs : q # p => pc'[q] = pc[q]
<1>1. pc'[p] = x /\ \A q \in Procs : q # p => pc'[q] = pc[q]
  BY DEF ProcsOK
<1>2. pc' \in [Procs -> PcType]
  BY DEF ProcsOK
<1>3. persistMu' \in Procs \cup {Nobody}
  BY DEF ProcsOK
<1>4. \A q \in Procs : pc'[q].at \in Locked <=> persistMu' = q
  BY <1>1, ConfigAssumption DEF ProcsOK
<1>5. \A q \in Procs : pc'[q].at = "apply" => pc'[q].next <= Len(Subsystems)
  BY <1>1 DEF ProcsOK
<1> QED
  BY <1>1, <1>2, <1>3, <1>4, <1>5 DEF ProcsOK

\* Add, and Update under the same name.
LEMMA PutInv ==
  ASSUME ConfigInv, NEW p \in Procs, NEW h \in Hosts, NEW v \in Values, Put(p, h, v)
  PROVE  ConfigInv'
<1>1. StoresOK /\ ProcsOK /\ FilesOwed /\ LiveOwed
  BY ConfigParts
<1> DEFINE x == [Idle EXCEPT !.at = "notify", !.host = h]
<1>2. x \in PcType /\ x.at = "notify"
  BY IdleTyped DEF PcType, Places
<1>3. /\ pc' = [pc EXCEPT ![p] = x] /\ pc[p].at = "idle" /\ ops' = ops + 1 /\ ops < MaxOps
      /\ config' = [config EXCEPT ![h] = v] /\ \A q \in Procs : pc[q].at # "reapply"
      /\ UNCHANGED <<files, live, persistMu, overlap, stray, failed>>
  BY DEF Put, Start, ConfigLocked
<1> HIDE DEF x
<1>4. ProcsOK' /\ pc'[p] = x /\ \A q \in Procs : q # p => pc'[q] = pc[q]
  BY <1>1, <1>2, <1>3, Becomes DEF Locked
<1>5. config' \in Configs /\ config'[h] = v /\ v # Absent /\ \A k \in Hosts : k # h => config'[k] = config[k]
  BY <1>1, <1>3, ConfigAssumption DEF StoresOK, Configs
<1>6. StoresOK'
  BY <1>1, <1>3, <1>5, ConfigAssumption DEF StoresOK
<1>7. p \in ToSave' /\ p \in ToNotify' /\ Appliers' = Appliers /\ ToLoad' = ToLoad
  BY <1>2, <1>3, <1>4 DEF ToSave, ToNotify, Appliers, ToLoad
<1>8. FilesOwed'
  BY <1>1, <1>2, <1>3, <1>4, <1>5, <1>7 DEF FilesOwed, Owed, LoadedOwed, StaleSaveOwed
<1>9. LiveOwed'
  BY <1>1, <1>2, <1>3, <1>4, <1>7 DEF LiveOwed, Reached, Appliers
<1> QED
  BY <1>4, <1>6, <1>8, <1>9, ConfigParts

\* Update under a new name.
LEMMA RenameInv ==
  ASSUME ConfigInv, NEW p \in Procs, NEW g \in Hosts, NEW h \in Hosts, NEW v \in Values, Rename(p, g, h, v)
  PROVE  ConfigInv'
<1>1. StoresOK /\ ProcsOK /\ FilesOwed /\ LiveOwed
  BY ConfigParts
<1> DEFINE x == [Idle EXCEPT !.at = "notify", !.host = h]
<1>2. x \in PcType /\ x.at = "notify"
  BY IdleTyped DEF PcType, Places
<1>3. /\ pc' = [pc EXCEPT ![p] = x] /\ pc[p].at = "idle" /\ ops' = ops + 1 /\ ops < MaxOps
      /\ config' = [config EXCEPT ![g] = Absent, ![h] = v] /\ g # h
      /\ stray' = stray \cup {g} /\ \A q \in Procs : pc[q].at # "reapply"
      /\ UNCHANGED <<files, live, persistMu, overlap, failed>>
  BY DEF Rename, Start, ConfigLocked
<1> HIDE DEF x
<1>4. ProcsOK' /\ pc'[p] = x /\ \A q \in Procs : q # p => pc'[q] = pc[q]
  BY <1>1, <1>2, <1>3, Becomes DEF Locked
<1>5. /\ config' \in Configs /\ config'[h] = v /\ v # Absent /\ config'[g] = Absent
      /\ \A k \in Hosts \ {g, h} : config'[k] = config[k]
  BY <1>1, <1>3, ConfigAssumption DEF StoresOK, Configs
<1>6. StoresOK'
  BY <1>1, <1>3, <1>5, ConfigAssumption DEF StoresOK
<1>7. p \in ToSave' /\ p \in ToNotify' /\ Appliers' = Appliers /\ ToLoad' = ToLoad
  BY <1>2, <1>3, <1>4 DEF ToSave, ToNotify, Appliers, ToLoad
<1>8. FilesOwed'
  <2> SUFFICES ASSUME ~failed PROVE FilesOwed'
    BY <1>3 DEF FilesOwed
  <2>1. \A k \in Hosts : Owed(k)'
    <3> SUFFICES ASSUME NEW k \in Hosts PROVE Owed(k)'
      OBVIOUS
    <3>1. CASE k = g
      BY <1>3, <1>5, <3>1 DEF Owed
    <3>2. CASE k = h
      BY <1>5, <1>7, <3>2 DEF Owed
    <3>3. CASE k \notin {g, h}
      <4>1. Owed(k) /\ files'[k] = files[k] /\ config'[k] = config[k] /\ stray \subseteq stray'
        BY <1>1, <1>3, <1>5, <3>3 DEF FilesOwed
      <4>2. \A q \in Procs : pc[q].at # "idle" => pc'[q] = pc[q]
        BY <1>3, <1>4
      <4> QED
        BY <1>7, <4>1, <4>2 DEF Owed
    <3> QED
      BY <3>1, <3>2, <3>3
  <2>2. \A q \in Procs, k \in Hosts : LoadedOwed(q, k)' /\ StaleSaveOwed(q, k)'
    BY <1>2, <1>3, <1>4, <1>7 DEF LoadedOwed, StaleSaveOwed
  <2>3. \A q \in Procs : pc'[q].at # "restore"
    BY <1>1, <1>2, <1>4 DEF FilesOwed
  <2> QED
    BY <2>1, <2>2, <2>3 DEF FilesOwed
<1>9. LiveOwed'
  BY <1>1, <1>2, <1>3, <1>4, <1>7 DEF LiveOwed, Reached, Appliers
<1> QED
  BY <1>4, <1>6, <1>8, <1>9, ConfigParts

\* Delete.
LEMMA DeleteInv ==
  ASSUME ConfigInv, NEW p \in Procs, NEW h \in Hosts, Delete(p, h)
  PROVE  ConfigInv'
<1>1. StoresOK /\ ProcsOK /\ FilesOwed /\ LiveOwed
  BY ConfigParts
<1> DEFINE x == [Idle EXCEPT !.at = "remove", !.host = h]
<1>2. x \in PcType /\ x.at = "remove" /\ x.host = h
  BY IdleTyped DEF PcType, Places
<1>3. /\ pc' = [pc EXCEPT ![p] = x] /\ pc[p].at = "idle" /\ ops' = ops + 1 /\ ops < MaxOps
      /\ config' = [config EXCEPT ![h] = Absent] /\ \A q \in Procs : pc[q].at # "reapply"
      /\ UNCHANGED <<files, live, persistMu, overlap, stray, failed>>
  BY DEF Delete, Start, ConfigLocked
<1> HIDE DEF x
<1>4. ProcsOK' /\ pc'[p] = x /\ \A q \in Procs : q # p => pc'[q] = pc[q]
  BY <1>1, <1>2, <1>3, Becomes DEF Locked
<1>5. config' \in Configs /\ config'[h] = Absent /\ \A k \in Hosts : k # h => config'[k] = config[k]
  BY <1>1, <1>3, ConfigAssumption DEF StoresOK, Configs
<1>6. StoresOK'
  BY <1>1, <1>3, <1>5, ConfigAssumption DEF StoresOK
<1>7. p \in ToSave' /\ p \in ToNotify' /\ Appliers' = Appliers /\ ToLoad' = ToLoad
  BY <1>2, <1>3, <1>4 DEF ToSave, ToNotify, Appliers, ToLoad
<1>8. FilesOwed'
  BY <1>1, <1>2, <1>3, <1>4, <1>5, <1>7 DEF FilesOwed, Owed, LoadedOwed, StaleSaveOwed
<1>9. LiveOwed'
  BY <1>1, <1>2, <1>3, <1>4, <1>7 DEF LiveOwed, Reached, Appliers
<1> QED
  BY <1>4, <1>6, <1>8, <1>9, ConfigParts

\* The file of a deleted domain goes, or stays and is noted; whoever has
\* configured it anew meanwhile has yet to save.
LEMMA RemoveInv ==
  ASSUME ConfigInv, NEW p \in Procs, NEW ok \in BOOLEAN, RemoveDomainFile(p, ok)
  PROVE  ConfigInv'
<1>1. StoresOK /\ ProcsOK /\ FilesOwed /\ LiveOwed
  BY ConfigParts
<1> DEFINE x == [pc[p] EXCEPT !.at = "notify"]
           h == pc[p].host
<1>2. x \in PcType /\ x.at = "notify" /\ h \in Hosts
  BY <1>1 DEF ProcsOK, PcType, Places
<1>3. /\ pc' = [pc EXCEPT ![p] = x] /\ pc[p].at = "remove"
      /\ files' = (IF ok THEN [files EXCEPT ![h] = Absent] ELSE files)
      /\ stray' = (IF ok THEN stray ELSE stray \cup {h})
      /\ UNCHANGED <<config, live, persistMu, ops, overlap, failed>>
  BY DEF RemoveDomainFile
<1> HIDE DEF x, h
<1>4. ProcsOK' /\ pc'[p] = x /\ \A q \in Procs : q # p => pc'[q] = pc[q]
  BY <1>1, <1>2, <1>3, Becomes DEF Locked
<1>5. files' \in Configs /\ files'[h] \in {files[h], Absent} /\ \A k \in Hosts : k # h => files'[k] = files[k]
  BY <1>1, <1>2, <1>3 DEF StoresOK, Configs
<1>a. stray \subseteq stray' /\ (files'[h] = Absent \/ (h \in stray' /\ files' = files))
  BY <1>1, <1>2, <1>3 DEF StoresOK, Configs
<1>6. StoresOK'
  BY <1>1, <1>2, <1>3, <1>5 DEF StoresOK
<1>7. p \in ToSave' /\ p \in ToNotify' /\ Appliers' = Appliers /\ ToLoad' = ToLoad
  BY <1>2, <1>3, <1>4 DEF ToSave, ToNotify, Appliers, ToLoad
<1>8. FilesOwed'
  <2> SUFFICES ASSUME ~failed PROVE FilesOwed'
    BY <1>3 DEF FilesOwed
  <2>1. \A k \in Hosts : Owed(k)'
    <3> SUFFICES ASSUME NEW k \in Hosts PROVE Owed(k)'
      OBVIOUS
    <3>1. CASE k = h
      BY <1>3, <1>7, <1>a, <3>1 DEF Owed
    <3>2. CASE k # h
      BY <1>1, <1>2, <1>3, <1>4, <1>5, <1>7, <1>a, <3>2 DEF FilesOwed, Owed, h
    <3> QED
      BY <3>1, <3>2
  <2>2. \A q \in Procs, k \in Hosts : LoadedOwed(q, k)' /\ StaleSaveOwed(q, k)'
    BY <1>1, <1>2, <1>3, <1>4, <1>5, <1>7, <1>a DEF FilesOwed, LoadedOwed, StaleSaveOwed
  <2>3. \A q \in Procs : pc'[q].at # "restore"
    BY <1>1, <1>2, <1>4 DEF FilesOwed
  <2> QED
    BY <2>1, <2>2, <2>3 DEF FilesOwed
<1>9. LiveOwed'
  BY <1>1, <1>2, <1>3, <1>4, <1>7 DEF LiveOwed, Reached, Appliers
<1> QED
  BY <1>4, <1>6, <1>8, <1>9, ConfigParts

\* onDomainChange takes its copy.
LEMMA OnDomainChangeInv ==
  ASSUME ConfigInv, NEW p \in Procs, OnDomainChange(p)
  PROVE  ConfigInv'
<1>1. StoresOK /\ ProcsOK /\ FilesOwed /\ LiveOwed
  BY ConfigParts
<1> DEFINE x == [pc[p] EXCEPT !.at = "apply", !.snap = config, !.next = 1]
<1>2. x \in PcType /\ x.at = "apply" /\ x.snap = config /\ x.next = 1
  <2> DEFINE N == 1..Len(Subsystems) + 1
  <2>1. pc[p] \in PcType /\ config \in Configs /\ "apply" \in Places /\ 1 \in N
    BY <1>1, IdleTyped DEF ProcsOK, StoresOK, Places
  <2>2. PcType = [at : Places, host : Hosts, prev : Values \cup {Absent}, raw : BOOLEAN,
                  snap : Configs, next : N, todo : SUBSET Hosts]
    BY DEF PcType
  <2> HIDE DEF N
  <2> QED
    BY <2>1, <2>2
<1>3. /\ pc' = [pc EXCEPT ![p] = x] /\ pc[p].at = "notify" /\ \A q \in Procs : pc[q].at # "reapply"
      /\ UNCHANGED <<config, files, live, persistMu, ops, stray, failed>>
  BY <1>1 DEF OnDomainChange, ConfigLocked, ProcsOK
<1>a. overlap' = Applying(p)
  BY DEF OnDomainChange
<1> HIDE DEF x
<1>4. ProcsOK' /\ pc'[p] = x /\ \A q \in Procs : q # p => pc'[q] = pc[q]
  <2>1. x.next <= Len(Subsystems)
    BY <1>2, IdleTyped
  <2> QED
    BY <1>1, <1>2, <1>3, <2>1, Becomes DEF Locked
<1>5. overlap' \in BOOLEAN
  BY <1>a DEF Applying
<1>6. StoresOK'
  BY <1>1, <1>3, <1>5 DEF StoresOK
<1>7. p \in ToSave' /\ ToLoad' = ToLoad
  BY <1>2, <1>3, <1>4 DEF ToSave, ToLoad
<1>8. FilesOwed'
  BY <1>1, <1>2, <1>3, <1>4, <1>7 DEF FilesOwed, Owed, LoadedOwed, StaleSaveOwed
<1>9. LiveOwed'
  <2> SUFFICES ASSUME ~overlap' PROVE Appliers' = {p} /\ Reached(p)'
    BY <1>2, <1>3, <1>4 DEF LiveOwed
  <2>1. \A q \in Procs \ {p} : pc[q].at \notin {"apply", "reapply"}
    BY <1>a DEF Applying
  <2>2. Appliers' = {p}
    BY <1>2, <1>4, <2>1 DEF Appliers
  <2>3. Reached(p)'
    BY <1>2, <1>4 DEF Reached
  <2> QED
    BY <2>2, <2>3
<1> QED
  BY <1>4, <1>6, <1>8, <1>9, ConfigParts

\* The copy reaches one more subsystem, of apply or of reload.
LEMMA ReachedMore ==
  ASSUME StoresOK, ProcsOK, NEW p \in Procs, pc[p].next \in 1..Len(Subsystems),
         live' = [live EXCEPT ![Subsystems[pc[p].next]] = pc[p].snap],
         pc'[p].snap = pc[p].snap, pc'[p].next = pc[p].next + 1, Reached(p)
  PROVE  Reached(p)' /\ (pc[p].next = Len(Subsystems) => \A s \in Layers : live'[s] = pc[p].snap)
<1>1. /\ pc[p].snap \in Configs /\ pc[p].next \in Nat /\ Len(Subsystems) \in Nat
      /\ \A i \in 1..Len(Subsystems) : Subsystems[i] \in Layers
  BY IdleTyped DEF ProcsOK, PcType
<1>2. \A i \in 1..Len(Subsystems) : i < pc[p].next + 1 => live'[Subsystems[i]] = pc[p].snap
  BY <1>1 DEF Reached, StoresOK
<1>3. Reached(p)'
  BY <1>2 DEF Reached
<1>4. pc[p].next = Len(Subsystems) => \A i \in 1..Len(Subsystems) : live'[Subsystems[i]] = pc[p].snap
  BY <1>1, <1>2
<1> QED
  BY <1>3, <1>4 DEF Layers

\* The subsystems keep configurations.
LEMMA LiveTyped ==
  ASSUME StoresOK, ProcsOK, NEW p \in Procs, pc[p].next \in 1..Len(Subsystems),
         live' = [live EXCEPT ![Subsystems[pc[p].next]] = pc[p].snap]
  PROVE  live' \in [Layers -> Configs]
  BY IdleTyped DEF StoresOK, ProcsOK, PcType

\* Apply.
LEMMA ApplyInv ==
  ASSUME ConfigInv, NEW p \in Procs, Apply(p)
  PROVE  ConfigInv'
<1>1. StoresOK /\ ProcsOK /\ FilesOwed /\ LiveOwed
  BY ConfigParts
<1> DEFINE last == pc[p].next = Len(Subsystems)
           place == IF last THEN "persist" ELSE "apply"
           x == [pc[p] EXCEPT !.next = @ + 1, !.at = place]
<1>2. /\ pc[p].at = "apply" /\ live' = [live EXCEPT ![Subsystems[pc[p].next]] = pc[p].snap]
      /\ pc' = [pc EXCEPT ![p] = x]
      /\ UNCHANGED <<config, files, persistMu, ops, overlap, stray, failed>>
  BY <1>1 DEF Apply, ProcsOK
<1>3. pc[p].next \in 1..Len(Subsystems) /\ pc[p].next \in Nat /\ Len(Subsystems) \in Nat
  BY <1>1, <1>2, IdleTyped DEF ProcsOK, PcType
<1>4. /\ x \in PcType /\ x.snap = pc[p].snap /\ x.next = pc[p].next + 1
      /\ last => x.at = "persist"
      /\ ~last => x.at = "apply"
  <2> HIDE DEF place
  <2>1. place \in Places /\ (last => place = "persist") /\ (~last => place = "apply")
    BY DEF place, Places
  <2> DEFINE N == 1..Len(Subsystems) + 1
  <2>2. pc[p] \in PcType /\ pc[p].next + 1 \in N
    BY <1>1, <1>3 DEF ProcsOK
  <2>3. PcType = [at : Places, host : Hosts, prev : Values \cup {Absent}, raw : BOOLEAN,
                  snap : Configs, next : N, todo : SUBSET Hosts]
    BY DEF PcType
  <2> HIDE DEF N
  <2> QED
    BY <2>1, <2>2, <2>3
<1>a. x.at = "apply" => x.next <= Len(Subsystems)
  BY <1>3, <1>4
<1> HIDE DEF x
<1>5. ProcsOK' /\ pc'[p] = x /\ \A q \in Procs : q # p => pc'[q] = pc[q]
  BY <1>1, <1>2, <1>4, <1>a, Becomes DEF Locked
<1>6. StoresOK'
  BY <1>1, <1>2, <1>3, LiveTyped DEF StoresOK
<1>7. p \in ToSave' /\ ToLoad' = ToLoad /\ ToNotify' = ToNotify
  BY <1>2, <1>4, <1>5 DEF ToSave, ToLoad, ToNotify
<1>8. FilesOwed'
  BY <1>1, <1>2, <1>4, <1>5, <1>7 DEF FilesOwed, Owed, LoadedOwed, StaleSaveOwed
<1>9. LiveOwed'
  <2> SUFFICES ASSUME ~overlap'
               PROVE  /\ \A q \in Appliers' : q = p /\ Reached(p)'
                      /\ pc[p].snap = config \/ ToNotify # {}
                      /\ Appliers' = {} => \A s \in Layers : live'[s] = pc[p].snap
    BY <1>2, <1>4, <1>5, <1>7 DEF LiveOwed
  <2>1. /\ p \in Appliers /\ (\A q \in Appliers : q = p) /\ Reached(p)
        /\ pc[p].snap = config \/ ToNotify # {}
    BY <1>1, <1>2 DEF LiveOwed, Appliers
  <2>2. Reached(p)' /\ (last => \A s \in Layers : live'[s] = pc[p].snap)
    BY <1>1, <1>2, <1>3, <1>4, <1>5, <2>1, ReachedMore
  <2>3. \A q \in Appliers' : q = p
    BY <1>5, <2>1 DEF Appliers
  <2>4. Appliers' = {} => last
    BY <1>4, <1>5 DEF Appliers
  <2> QED
    BY <2>1, <2>2, <2>3, <2>4
<1> QED
  BY <1>5, <1>6, <1>8, <1>9, ConfigParts

\* persistConfig copies what it will write, under persistMu.
LEMMA PersistInv ==
  ASSUME ConfigInv, NEW p \in Procs, PersistConfig(p)
  PROVE  ConfigInv'
<1>1. StoresOK /\ ProcsOK /\ FilesOwed /\ LiveOwed
  BY ConfigParts
<1> DEFINE todo == {h \in Hosts : config[h] # Absent}
           x == [pc[p] EXCEPT !.at = "write", !.snap = config, !.todo = todo]
<1>2. x \in PcType /\ x.at = "write" /\ x.snap = config /\ x.todo = todo
  <2> HIDE DEF todo
  <2>1. todo \in SUBSET Hosts
    BY DEF todo
  <2> QED
    BY <1>1, <2>1 DEF ProcsOK, StoresOK, PcType, Places
<1>3. /\ pc' = [pc EXCEPT ![p] = x] /\ pc[p].at = "persist" /\ persistMu = Nobody /\ persistMu' = p
      /\ UNCHANGED <<config, files, live, ops, overlap, stray, failed>>
  BY <1>1 DEF PersistConfig, ProcsOK
<1> HIDE DEF x
<1>4. ProcsOK' /\ pc'[p] = x /\ \A q \in Procs : q # p => pc'[q] = pc[q]
  BY <1>1, <1>2, <1>3, Becomes DEF Locked
<1>5. StoresOK'
  BY <1>1, <1>3 DEF StoresOK
<1>6. \A q \in Procs : pc[q].at \notin Locked
  BY <1>1, <1>3, ConfigAssumption DEF ProcsOK
<1>7. ToLoad' = ToLoad /\ Appliers' = Appliers /\ ToNotify' = ToNotify
  BY <1>2, <1>3, <1>4 DEF ToLoad, Appliers, ToNotify
<1>8. FilesOwed'
  BY <1>1, <1>2, <1>3, <1>4, <1>6, <1>7 DEF FilesOwed, Owed, LoadedOwed, StaleSaveOwed, Locked
<1>9. LiveOwed'
  BY <1>1, <1>2, <1>3, <1>4, <1>7 DEF LiveOwed, Reached, Appliers
<1> QED
  BY <1>4, <1>5, <1>8, <1>9, ConfigParts

\* One domain file is written, or fails to be.
LEMMA WriteInv ==
  ASSUME ConfigInv, NEW p \in Procs, NEW h \in Hosts, NEW ok \in BOOLEAN, WriteDomainFile(p, h, ok)
  PROVE  ConfigInv'
<1>1. StoresOK /\ ProcsOK /\ FilesOwed /\ LiveOwed
  BY ConfigParts
<1> DEFINE x == [pc[p] EXCEPT !.todo = @ \ {h}]
<1>2. x \in PcType /\ x.at = pc[p].at /\ x.snap = pc[p].snap /\ x.next = pc[p].next /\ x.todo = pc[p].todo \ {h}
  BY <1>1 DEF ProcsOK, PcType
<1>3. /\ pc' = [pc EXCEPT ![p] = x] /\ pc[p].at = "write" /\ h \in pc[p].todo
      /\ files' = (IF ok THEN [files EXCEPT ![h] = pc[p].snap[h]] ELSE files)
      /\ stray' = (IF ok /\ config[h] = Absent THEN stray \cup {h} ELSE stray)
      /\ UNCHANGED <<config, live, persistMu, ops, overlap>>
  BY <1>1 DEF WriteDomainFile, ProcsOK
<1>a. failed' = (failed \/ ~ok)
  BY DEF WriteDomainFile
<1> HIDE DEF x
<1>4. ProcsOK' /\ pc'[p] = x /\ \A q \in Procs : q # p => pc'[q] = pc[q]
  <2>1. persistMu = p
    BY <1>1, <1>3 DEF ProcsOK, Locked
  <2> QED
    BY <1>1, <1>2, <1>3, <2>1, Becomes DEF Locked
<1>5. StoresOK'
  <2>1. files' \in Configs
    BY <1>1, <1>3 DEF StoresOK, ProcsOK, PcType, Configs
  <2>2. failed' \in BOOLEAN
    BY <1>a
  <2> QED
    BY <1>1, <1>3, <2>1, <2>2 DEF StoresOK
<1>6. \A q \in Procs : q # p => pc[q].at \notin Locked
  BY <1>1, <1>3 DEF ProcsOK, Locked
<1>7. ToLoad' = ToLoad /\ Appliers' = Appliers /\ ToNotify' = ToNotify /\ ToSave' = ToSave
  BY <1>2, <1>3, <1>4 DEF ToLoad, Appliers, ToNotify, ToSave
<1>8. FilesOwed'
  <2> SUFFICES ASSUME ~failed' PROVE FilesOwed'
    BY DEF FilesOwed
  <2>1. ok /\ ~failed
    BY <1>a
  <2>2. /\ files'[h] = pc[p].snap[h] /\ \A k \in Hosts : k # h => files'[k] = files[k]
        /\ config[h] = Absent => h \in stray'
        /\ stray \subseteq stray'
    BY <1>1, <1>3, <2>1 DEF StoresOK, Configs
  <2>3. \A k \in Hosts : StaleSaveOwed(p, k)
    BY <1>1, <2>1 DEF FilesOwed
  <2>4. \A k \in Hosts : Owed(k)'
    <3> SUFFICES ASSUME NEW k \in Hosts PROVE Owed(k)'
      OBVIOUS
    <3>1. CASE k = h
      BY <1>3, <1>7, <2>2, <2>3, <3>1 DEF Owed, StaleSaveOwed
    <3>2. CASE k # h
      <4>1. Owed(k)
        BY <1>1, <2>1, <2>2 DEF FilesOwed
      <4> QED
        BY <1>2, <1>3, <1>4, <1>7, <2>2, <3>2, <4>1 DEF Owed
    <3> QED
      BY <3>1, <3>2
  <2>5. \A q \in Procs, k \in Hosts : LoadedOwed(q, k)' /\ StaleSaveOwed(q, k)'
    BY <1>1, <1>2, <1>3, <1>4, <1>6, <1>7, <2>1 DEF FilesOwed, LoadedOwed, StaleSaveOwed, Locked
  <2>6. \A q \in Procs : pc'[q].at # "restore"
    BY <1>1, <1>2, <1>3, <1>4, <2>1 DEF FilesOwed
  <2> QED
    BY <2>4, <2>5, <2>6 DEF FilesOwed
<1>9. LiveOwed'
  BY <1>1, <1>2, <1>3, <1>4, <1>7 DEF LiveOwed, Reached, Appliers
<1> QED
  BY <1>4, <1>5, <1>8, <1>9, ConfigParts

\* The save is complete, and persistMu free.
LEMMA PersistDoneInv ==
  ASSUME ConfigInv, NEW p \in Procs, PersistDone(p)
  PROVE  ConfigInv'
<1>1. StoresOK /\ ProcsOK /\ FilesOwed /\ LiveOwed
  BY ConfigParts
<1>2. /\ pc' = [pc EXCEPT ![p] = Idle] /\ pc[p].at = "write" /\ pc[p].todo = {} /\ persistMu' = Nobody
      /\ UNCHANGED <<config, files, live, ops, overlap, stray, failed>>
  BY DEF PersistDone
<1>3. ProcsOK' /\ pc'[p] = Idle /\ Idle.at = "idle" /\ \A q \in Procs : q # p => pc'[q] = pc[q]
  <2>1. persistMu = p
    BY <1>1, <1>2 DEF ProcsOK, Locked
  <2> QED
    BY <1>1, <1>2, <2>1, IdleTyped, Becomes DEF Locked
<1>4. StoresOK'
  BY <1>1, <1>2 DEF StoresOK
<1>5. ToLoad' = ToLoad /\ Appliers' = Appliers /\ ToNotify' = ToNotify /\ ToSave' = ToSave
  BY <1>2, <1>3 DEF ToLoad, Appliers, ToNotify, ToSave
<1>6. FilesOwed'
  BY <1>1, <1>2, <1>3, <1>5 DEF FilesOwed, Owed, LoadedOwed, StaleSaveOwed
<1>7. LiveOwed'
  BY <1>1, <1>2, <1>3, <1>5 DEF LiveOwed, Reached, Appliers
<1> QED
  BY <1>3, <1>4, <1>6, <1>7, ConfigParts

\* A reload is asked for, by a signal or after the raw editor wrote a file.
LEMMA ReloadRequestInv ==
  ASSUME ConfigInv, NEW p \in Procs,
         RequestReload(p) \/ \E h \in Hosts, v \in Values : RawPut(p, h, v)
  PROVE  ConfigInv'
<1>1. StoresOK /\ ProcsOK /\ FilesOwed /\ LiveOwed
  BY ConfigParts
<1>2. /\ pc[p].at = "idle" /\ ops' = ops + 1 /\ ops < MaxOps /\ files' \in Configs
      /\ UNCHANGED <<config, live, persistMu, overlap, stray, failed>>
  BY <1>1 DEF RequestReload, RawPut, Start, StoresOK, Configs
<1>3. PICK x \in PcType : x.at = "reload" /\ pc' = [pc EXCEPT ![p] = x]
  <2>1. CASE RequestReload(p)
    <3> DEFINE y == [Idle EXCEPT !.at = "reload"]
    <3>1. y \in PcType /\ y.at = "reload"
      BY IdleTyped DEF PcType, Places
    <3>2. pc' = [pc EXCEPT ![p] = y]
      BY <2>1 DEF RequestReload, Start
    <3> HIDE DEF y
    <3> QED
      BY <3>1, <3>2
  <2>2. ASSUME NEW h \in Hosts, NEW v \in Values, RawPut(p, h, v)
        PROVE  \E y \in PcType : y.at = "reload" /\ pc' = [pc EXCEPT ![p] = y]
    <3> DEFINE y == [Idle EXCEPT !.at = "reload", !.host = h, !.prev = files[h], !.raw = TRUE]
    <3>1. files[h] \in Values \cup {Absent}
      BY <1>1 DEF StoresOK, Configs
    <3>2. y \in PcType /\ y.at = "reload"
      BY <3>1, IdleTyped DEF PcType, Places
    <3>3. pc' = [pc EXCEPT ![p] = y]
      BY <2>2 DEF RawPut, Start
    <3> HIDE DEF y
    <3> QED
      BY <3>2, <3>3
  <2> QED
    BY <2>1, <2>2
<1>4. ProcsOK' /\ pc'[p] = x /\ \A q \in Procs : q # p => pc'[q] = pc[q]
  BY <1>1, <1>2, <1>3, Becomes DEF Locked
<1>5. StoresOK'
  BY <1>1, <1>2, ConfigAssumption DEF StoresOK
<1>6. p \in ToLoad' /\ Appliers' = Appliers /\ ToNotify' = ToNotify /\ ToSave' = ToSave
  BY <1>2, <1>3, <1>4 DEF ToLoad, Appliers, ToNotify, ToSave
<1>7. FilesOwed'
  BY <1>1, <1>2, <1>3, <1>4, <1>6 DEF FilesOwed, Owed, LoadedOwed, StaleSaveOwed
<1>8. LiveOwed'
  BY <1>1, <1>2, <1>3, <1>4, <1>6 DEF LiveOwed, Reached, Appliers
<1> QED
  BY <1>4, <1>5, <1>7, <1>8, ConfigParts

\* reload takes persistMu.
LEMMA LockInv ==
  ASSUME ConfigInv, NEW p \in Procs, LockForReload(p)
  PROVE  ConfigInv'
<1>1. StoresOK /\ ProcsOK /\ FilesOwed /\ LiveOwed
  BY ConfigParts
<1> DEFINE x == [pc[p] EXCEPT !.at = "load"]
<1>2. x \in PcType /\ x.at = "load"
  BY <1>1 DEF ProcsOK, PcType, Places
<1>3. /\ pc' = [pc EXCEPT ![p] = x] /\ pc[p].at = "reload" /\ persistMu = Nobody /\ persistMu' = p
      /\ UNCHANGED <<config, files, live, ops, overlap, stray, failed>>
  BY DEF LockForReload
<1> HIDE DEF x
<1>4. ProcsOK' /\ pc'[p] = x /\ \A q \in Procs : q # p => pc'[q] = pc[q]
  BY <1>1, <1>2, <1>3, Becomes DEF Locked
<1>5. StoresOK'
  BY <1>1, <1>3 DEF StoresOK
<1>6. p \in ToLoad' /\ Appliers' = Appliers /\ ToNotify' = ToNotify /\ ToSave' = ToSave
  BY <1>2, <1>3, <1>4 DEF ToLoad, Appliers, ToNotify, ToSave
<1>7. FilesOwed'
  BY <1>1, <1>2, <1>3, <1>4, <1>6 DEF FilesOwed, Owed, LoadedOwed, StaleSaveOwed
<1>8. LiveOwed'
  BY <1>1, <1>2, <1>3, <1>4, <1>6 DEF LiveOwed, Reached, Appliers
<1> QED
  BY <1>4, <1>5, <1>7, <1>8, ConfigParts

\* reload reads the files.
LEMMA LoadInv ==
  ASSUME ConfigInv, NEW p \in Procs, Load(p)
  PROVE  ConfigInv'
<1>1. StoresOK /\ ProcsOK /\ FilesOwed /\ LiveOwed
  BY ConfigParts
<1> DEFINE x == [pc[p] EXCEPT !.at = "reapply", !.next = 1, !.snap = files]
<1>2. x \in PcType /\ x.at = "reapply" /\ x.snap = files /\ x.next = 1
  <2> DEFINE N == 1..Len(Subsystems) + 1
  <2>1. pc[p] \in PcType /\ files \in Configs /\ "reapply" \in Places /\ 1 \in N
    BY <1>1, IdleTyped DEF ProcsOK, StoresOK, Places
  <2>2. PcType = [at : Places, host : Hosts, prev : Values \cup {Absent}, raw : BOOLEAN,
                  snap : Configs, next : N, todo : SUBSET Hosts]
    BY DEF PcType
  <2> HIDE DEF N
  <2> QED
    BY <2>1, <2>2
<1>3. /\ pc' = [pc EXCEPT ![p] = x] /\ pc[p].at = "load"
      /\ UNCHANGED <<config, files, live, persistMu, ops, stray, failed>>
  BY <1>1 DEF Load, ProcsOK
<1>a. overlap' = Applying(p)
  BY DEF Load
<1> HIDE DEF x
<1>b. persistMu = p
  BY <1>1, <1>3 DEF ProcsOK, Locked
<1>4. ProcsOK' /\ pc'[p] = x /\ \A q \in Procs : q # p => pc'[q] = pc[q]
  BY <1>1, <1>2, <1>3, <1>b, Becomes DEF Locked
<1>5. overlap' \in BOOLEAN
  BY <1>a DEF Applying
<1>6. StoresOK'
  BY <1>1, <1>3, <1>5 DEF StoresOK
<1>7. ToNotify' = ToNotify /\ ToSave' = ToSave
  BY <1>2, <1>3, <1>4 DEF ToNotify, ToSave
<1>c. \A q \in Procs : q # p => pc'[q].at \notin Locked
  BY <1>1, <1>4, <1>b DEF ProcsOK
<1>8. FilesOwed'
  BY <1>1, <1>2, <1>3, <1>4, <1>7, <1>c DEF FilesOwed, Owed, LoadedOwed, StaleSaveOwed, Locked
<1>9. LiveOwed'
  <2> SUFFICES ASSUME ~overlap' PROVE Appliers' = {p} /\ Reached(p)'
    BY <1>2, <1>3, <1>4 DEF LiveOwed
  <2>1. \A q \in Procs \ {p} : pc[q].at \notin {"apply", "reapply"}
    BY <1>a DEF Applying
  <2>2. Appliers' = {p}
    BY <1>2, <1>4, <2>1 DEF Appliers
  <2>3. Reached(p)'
    BY <1>2, <1>4 DEF Reached
  <2> QED
    BY <2>2, <2>3
<1> QED
  BY <1>4, <1>6, <1>8, <1>9, ConfigParts

\* The files are refused, or the raw editor puts the former file back.
LEMMA RefusedInv ==
  ASSUME ConfigInv, NEW p \in Procs, LoadFails(p) \/ RestoreFile(p)
  PROVE  ConfigInv'
<1>1. StoresOK /\ ProcsOK /\ FilesOwed /\ LiveOwed
  BY ConfigParts
<1>2. PICK x \in PcType : pc' = [pc EXCEPT ![p] = x] /\ x.at \in {"idle", "restore"}
  <2>1. CASE RestoreFile(p) \/ (LoadFails(p) /\ ~pc[p].raw)
    BY <2>1, IdleTyped DEF RestoreFile, LoadFails
  <2>2. CASE LoadFails(p) /\ pc[p].raw
    <3> DEFINE y == [pc[p] EXCEPT !.at = "restore"]
    <3>1. y \in PcType /\ y.at = "restore"
      BY <1>1 DEF ProcsOK, PcType, Places
    <3>2. pc' = [pc EXCEPT ![p] = y]
      BY <2>2 DEF LoadFails
    <3> HIDE DEF y
    <3> QED
      BY <3>1, <3>2
  <2> QED
    BY <2>1, <2>2
<1>3. /\ pc[p].at \in {"load", "restore"} /\ files' \in Configs
      /\ UNCHANGED <<config, live, ops, overlap, stray>>
      /\ LoadFails(p) => failed' = TRUE
      /\ RestoreFile(p) => failed' = failed
  <2>1. pc[p].prev \in Values \cup {Absent}
    BY <1>1 DEF ProcsOK, PcType
  <2> QED
    BY <1>1, <2>1 DEF RestoreFile, LoadFails, StoresOK, Configs
<1>4. ProcsOK' /\ pc'[p] = x /\ \A q \in Procs : q # p => pc'[q] = pc[q]
  <2>1. CASE LoadFails(p)
    <3>1. persistMu = p /\ persistMu' = Nobody
      BY <1>1, <2>1 DEF LoadFails, ProcsOK, Locked
    <3> QED
      BY <1>1, <1>2, <3>1, Becomes DEF Locked
  <2>2. CASE RestoreFile(p)
    <3>1. persistMu' = persistMu /\ pc[p].at \notin Locked
      BY <2>2 DEF RestoreFile, Locked
    <3> QED
      BY <1>1, <1>2, <3>1, Becomes DEF Locked
  <2> QED
    BY <2>1, <2>2
<1>5. failed' = TRUE
  <2>1. CASE LoadFails(p)
    BY <1>3, <2>1
  <2>2. CASE RestoreFile(p)
    <3>1. failed
      BY <1>1, <2>2 DEF FilesOwed, RestoreFile
    <3> QED
      BY <1>1, <1>3, <2>2, <3>1, Zenon DEF StoresOK
  <2> QED
    BY <2>1, <2>2
<1>6. StoresOK' /\ FilesOwed'
  BY <1>1, <1>3, <1>5 DEF StoresOK, FilesOwed
<1>7. Appliers' = Appliers /\ ToNotify' = ToNotify
  BY <1>2, <1>3, <1>4 DEF Appliers, ToNotify
<1>8. LiveOwed'
  BY <1>1, <1>2, <1>3, <1>4, <1>7 DEF LiveOwed, Reached, Appliers
<1> QED
  BY <1>4, <1>6, <1>8, ConfigParts

\* reload brings what it loaded to one more subsystem.
LEMMA ReapplyInv ==
  ASSUME ConfigInv, NEW p \in Procs, Reapply(p)
  PROVE  ConfigInv'
<1>1. StoresOK /\ ProcsOK /\ FilesOwed /\ LiveOwed
  BY ConfigParts
<1> DEFINE x == [pc[p] EXCEPT !.next = @ + 1]
<1>2. /\ pc[p].at = "reapply" /\ live' = [live EXCEPT ![Subsystems[pc[p].next]] = pc[p].snap]
      /\ pc' = [pc EXCEPT ![p] = x] /\ pc[p].next <= Len(Subsystems)
      /\ UNCHANGED <<config, files, persistMu, ops, overlap, stray, failed>>
  BY DEF Reapply
<1>3. pc[p].next \in 1..Len(Subsystems) /\ pc[p].next \in Nat /\ Len(Subsystems) \in Nat
  BY <1>1, <1>2, IdleTyped DEF ProcsOK, PcType
<1>4. x \in PcType /\ x.at = "reapply" /\ x.snap = pc[p].snap /\ x.next = pc[p].next + 1
  <2> DEFINE N == 1..Len(Subsystems) + 1
  <2>1. pc[p] \in PcType /\ pc[p].next + 1 \in N
    BY <1>1, <1>3 DEF ProcsOK
  <2>2. PcType = [at : Places, host : Hosts, prev : Values \cup {Absent}, raw : BOOLEAN,
                  snap : Configs, next : N, todo : SUBSET Hosts]
    BY DEF PcType
  <2> HIDE DEF N
  <2> QED
    BY <1>2, <2>1, <2>2
<1> HIDE DEF x
<1>a. persistMu = p
  BY <1>1, <1>2 DEF ProcsOK, Locked
<1>5. ProcsOK' /\ pc'[p] = x /\ \A q \in Procs : q # p => pc'[q] = pc[q]
  BY <1>1, <1>2, <1>4, <1>a, Becomes DEF Locked
<1>6. StoresOK'
  BY <1>1, <1>2, <1>3, LiveTyped DEF StoresOK
<1>7. ToSave' = ToSave /\ ToLoad' = ToLoad /\ ToNotify' = ToNotify /\ Appliers' = Appliers
  BY <1>2, <1>4, <1>5 DEF ToSave, ToLoad, ToNotify, Appliers
<1>8. FilesOwed'
  BY <1>1, <1>2, <1>4, <1>5, <1>7 DEF FilesOwed, Owed, LoadedOwed, StaleSaveOwed
<1>9. LiveOwed'
  <2> SUFFICES ASSUME ~overlap' PROVE Appliers' = {p} /\ Reached(p)'
    BY <1>2, <1>4, <1>5 DEF LiveOwed
  <2>1. Appliers = {p} /\ Reached(p)
    BY <1>1, <1>2 DEF LiveOwed, Appliers
  <2>2. Reached(p)'
    BY <1>1, <1>2, <1>3, <1>4, <1>5, <2>1, ReachedMore
  <2> QED
    BY <1>7, <2>1, <2>2
<1> QED
  BY <1>5, <1>6, <1>8, <1>9, ConfigParts

\* reload publishes what it loaded.
LEMMA PublishInv ==
  ASSUME ConfigInv, NEW p \in Procs, Publish(p)
  PROVE  ConfigInv'
<1>1. StoresOK /\ ProcsOK /\ FilesOwed /\ LiveOwed
  BY ConfigParts
<1>2. /\ pc[p].at = "reapply" /\ pc[p].next > Len(Subsystems) /\ config' = pc[p].snap
      /\ pc' = [pc EXCEPT ![p] = Idle] /\ persistMu' = Nobody
      /\ UNCHANGED <<files, live, ops, overlap, stray, failed>>
  BY DEF Publish
<1>3. persistMu = p /\ \A q \in Procs : q # p => pc[q].at \notin Locked
  BY <1>1, <1>2 DEF ProcsOK, Locked
<1>4. ProcsOK' /\ pc'[p] = Idle /\ Idle.at = "idle" /\ \A q \in Procs : q # p => pc'[q] = pc[q]
  BY <1>1, <1>2, <1>3, IdleTyped, Becomes DEF Locked
<1>5. StoresOK'
  BY <1>1, <1>2 DEF StoresOK, ProcsOK, PcType
<1>6. ToSave' = ToSave /\ ToLoad' = ToLoad /\ ToNotify' = ToNotify
  BY <1>2, <1>4 DEF ToSave, ToLoad, ToNotify
<1>7. FilesOwed'
  BY <1>1, <1>2, <1>3, <1>4, <1>6 DEF FilesOwed, Owed, LoadedOwed, StaleSaveOwed, Locked
<1>8. LiveOwed'
  <2> SUFFICES ASSUME ~overlap' PROVE Appliers' = {} /\ \A s \in Layers : live'[s] = config'
    BY DEF LiveOwed
  <2>1. Appliers = {p} /\ Reached(p)
    BY <1>1, <1>2 DEF LiveOwed, Appliers
  <2>2. Appliers' = {}
    BY <1>4, <2>1 DEF Appliers
  <2>3. pc[p].next \in Nat /\ Len(Subsystems) \in Nat
    BY <1>1, IdleTyped DEF ProcsOK, PcType
  <2>4. \A i \in 1..Len(Subsystems) : live[Subsystems[i]] = pc[p].snap
    BY <1>2, <2>1, <2>3 DEF Reached
  <2> QED
    BY <1>2, <2>2, <2>4 DEF Layers
<1> QED
  BY <1>4, <1>5, <1>7, <1>8, ConfigParts

\* The invariant of the configuration holds throughout.
THEOREM ConfigInvariant == Spec => []ConfigInv
<1>1. Init => ConfigInv
  <2> SUFFICES ASSUME Init PROVE ConfigInv
    OBVIOUS
  <2>1. StoresOK
    <3>1. config \in Configs /\ files \in Configs /\ live \in [Layers -> Configs]
      BY ConfigAssumption DEF Init
    <3>2. ops \in 0..MaxOps /\ stray \subseteq Hosts
      BY ConfigAssumption DEF Init
    <3>3. overlap \in BOOLEAN /\ failed \in BOOLEAN
      BY DEF Init
    <3> QED
      BY <3>1, <3>2, <3>3 DEF StoresOK
  <2>2. \A p \in Procs : pc[p] = Idle /\ pc[p].at = "idle"
    BY IdleTyped DEF Init
  <2>3. ProcsOK
    <3>1. pc \in [Procs -> PcType] /\ persistMu = Nobody
      BY IdleTyped DEF Init
    <3>2. \A p \in Procs : pc[p].at \notin Locked /\ pc[p].at # "apply" /\ persistMu # p
      BY <2>2, <3>1, ConfigAssumption DEF Locked
    <3> QED
      BY <3>1, <3>2 DEF ProcsOK
  <2>4. FilesOwed /\ LiveOwed
    BY <2>2 DEF Init, FilesOwed, Owed, LoadedOwed, StaleSaveOwed, LiveOwed, Appliers
  <2> QED
    BY <2>1, <2>3, <2>4, ConfigParts
<1>2. ConfigInv /\ [Next]_vars => ConfigInv'
  <2> SUFFICES ASSUME ConfigInv, [Next]_vars PROVE ConfigInv'
    OBVIOUS
  <2>1. CASE UNCHANGED vars
    <3>1. StoresOK' /\ ProcsOK'
      BY <2>1, ConfigParts DEF vars, StoresOK, ProcsOK
    <3>2. FilesOwed'
      BY <2>1, ConfigParts DEF vars, FilesOwed, Owed, LoadedOwed, StaleSaveOwed, ToSave, ToLoad
    <3>3. LiveOwed'
      BY <2>1, ConfigParts DEF vars, LiveOwed, Appliers, ToNotify, Reached
    <3> QED
      BY <3>1, <3>2, <3>3, ConfigParts
  <2>2. ASSUME NEW p \in Procs, Request(p) PROVE ConfigInv'
    BY <2>2, PutInv, RenameInv, DeleteInv, ReloadRequestInv DEF Request
  <2>3. ASSUME NEW p \in Procs, Step(p) PROVE ConfigInv'
    BY <2>3, RemoveInv, OnDomainChangeInv, ApplyInv, PersistInv, PersistDoneInv, WriteInv, LockInv, LoadInv,
       RefusedInv, ReapplyInv, PublishInv DEF Step
  <2> QED
    BY <2>1, <2>2, <2>3 DEF Next
<1> QED
  BY <1>1, <1>2, PTL DEF Spec

\* When every change has been answered and nothing has failed, the files say
\* what the server believes, but for a deleted domain that a save under way
\* wrote again.
THEOREM FilesInStep == Spec => []FilesMatchConfig
<1>1. ConfigInv => FilesMatchConfig
  BY ConfigParts DEF FilesOwed, Owed, ToLoad, ToSave, FilesMatchConfig, Quiet
<1> QED
  BY <1>1, ConfigInvariant, PTL

\* When every change has been answered, the subsystems work with the shared
\* config, unless the last copy of it was taken beside another.
THEOREM SubsystemsInStep == Spec => []LiveUnlessOvertaken
<1>1. ConfigInv => LiveUnlessOvertaken
  BY ConfigParts DEF LiveOwed, Appliers, ToNotify, LiveUnlessOvertaken, Quiet
<1> QED
  BY <1>1, ConfigInvariant, PTL
=============================================================================
