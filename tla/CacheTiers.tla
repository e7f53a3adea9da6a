----------------------------- MODULE CacheTiers -----------------------------
(***************************************************************************)
(* internal/cache/engine.go over its three tiers, for one cache key: L1    *)
(* memory, L2 disk and L3 Redis.  Every tier is consistent by itself (its  *)
(* own lock), but the engine takes no lock over them: a lookup reads a     *)
(* lower tier and then copies what it found upwards, a store writes memory *)
(* and leaves the lower tiers to goroutines bounded by writeSem, and a     *)
(* purge empties one tier after the other.                                 *)
(*                                                                         *)
(* A response is the number of the origin fetch it came from; its age is   *)
(* the same in every tier, for Created travels with it.                    *)
(***************************************************************************)
EXTENDS Naturals, FiniteSets

CONSTANTS
  Routines,      \* goroutines: requests, refreshes, admin calls
  Slots,         \* the tokens of writeSem (maxConcurrentWrites)
  MaxResponses,  \* bound: origin fetches
  MaxPurges      \* bound: purges

ASSUME TiersAssumption == MaxResponses \in Nat /\ MaxPurges \in Nat

Tiers == {"memory", "disk", "redis"}
Lower == {"disk", "redis"}
Responses == 1..MaxResponses
NoResp == 0
Unclaimed == "nobody"

VARIABLES
  held,     \* the response each tier holds for the key
  age,      \* of each response
  made,     \* how many responses there are
  routine,  \* where each goroutine is, and the response in its hands
  writer,   \* the goroutine that holds each slot of writeSem
  refresher,  \* who holds the key's entry in s.revalidating
  floor,    \* history: the last completed purge was to remove 1..floor
  spared,   \* history: responses some goroutine held while a purge ran, or
            \* disk or Redis did not delete
  purges    \* counts against MaxPurges

tiersVars == <<held, age, made, routine, writer, refresher, floor, spared, purges>>

TierPlaces == {"idle", "disk", "dropDisk", "redis", "promoteDisk", "promoteRedis",
           "fetch", "refetch", "store", "purgeDisk", "purgeRedis"}

AtRest == [at |-> "idle", resp |-> NoResp]
Free == [tier |-> "none", resp |-> NoResp]

TiersTypeOK ==
  /\ held \in [Tiers -> 0..MaxResponses]
  /\ age \in [Responses -> {"unborn", "fresh", "stale", "expired"}]
  /\ made \in 0..MaxResponses
  /\ routine \in [Routines -> [at : TierPlaces, resp : 0..MaxResponses]]
  /\ writer \in [Slots -> [tier : Lower \cup {"none"}, resp : 0..MaxResponses]]
  /\ refresher \in Routines \cup {Unclaimed}
  /\ \A t \in Tiers : held[t] <= made
  /\ \A p \in Routines : routine[p].at \in {"promoteDisk", "promoteRedis", "store"} => routine[p].resp # NoResp
  /\ floor \in 0..made /\ spared \subseteq Responses /\ purges \in 0..MaxPurges

TiersInit ==
  /\ held = [t \in Tiers |-> NoResp]
  /\ age = [n \in Responses |-> "unborn"]
  /\ made = 0
  /\ routine = [p \in Routines |-> AtRest]
  /\ writer = [s \in Slots |-> Free] /\ refresher = Unclaimed
  /\ floor = 0 /\ spared = {} /\ purges = 0

Usable(n) == n # NoResp /\ age[n] \in {"fresh", "stale"}

Purger(p) == routine[p].at \in {"purgeDisk", "purgeRedis"}
Purging == \E p \in Routines : Purger(p)

\* p goes on at place; a refresh that ends gives up its claim on the key.
Move(p, place, n) ==
  /\ routine' = [routine EXCEPT ![p] = [at |-> place, resp |-> n]]
  /\ refresher' = IF place = "idle" /\ refresher = p THEN Unclaimed ELSE refresher

\* ...with response n in its hands; a purge in progress misses n.
Goto(p, place, n) ==
  /\ Move(p, place, n)
  /\ spared' = IF n # NoResp /\ Purging THEN spared \cup {n} ELSE spared

\* memory.Set: the old entry goes first; the new one may not fit.
MemorySet(n) == \E kept \in {n, NoResp} : held' = [held EXCEPT !["memory"] = kept]

\* Start one write per tier of wanted while writeSem has a token; the rest is
\* skipped.
Spawn(n, wanted) ==
  \E chosen \in SUBSET wanted :
    \E slotOf \in [chosen -> {s \in Slots : writer[s] = Free}] :
      /\ \A t, u \in chosen : slotOf[t] = slotOf[u] => t = u
      /\ chosen # wanted => {s \in Slots : writer[s] = Free} = {slotOf[t] : t \in chosen}
      /\ writer' = [s \in Slots |->
                      IF \E t \in chosen : slotOf[t] = s
                      THEN [tier |-> CHOOSE t \in chosen : slotOf[t] = s, resp |-> n]
                      ELSE writer[s]]

-----------------------------------------------------------------------------
(* GetByKey *)

GetMemory(p) ==
  /\ routine[p] = AtRest
  /\ ~Usable(held["memory"])
  /\ Goto(p, "disk", NoResp)
  /\ UNCHANGED <<held, age, made, writer, floor, purges>>

\* The file may be missing or unreadable.
GetDisk(p) ==
  LET n == held["disk"]
  IN  /\ routine[p].at = "disk"
      /\ \/ Usable(n) /\ Goto(p, "promoteDisk", n)
         \/ n # NoResp /\ ~Usable(n) /\ Goto(p, "dropDisk", NoResp)
         \/ Goto(p, "redis", NoResp)
      /\ UNCHANGED <<held, age, made, writer, floor, purges>>

\* disk.Delete(key) of what was found expired; it removes what is there now, or
\* ignores that it cannot.
DropDisk(p) ==
  /\ routine[p].at = "dropDisk"
  /\ \/ held' = [held EXCEPT !["disk"] = NoResp]
     \/ held' = held
  /\ Goto(p, "redis", NoResp)
  /\ UNCHANGED <<age, made, writer, floor, purges>>

\* Redis may fail to answer.
GetRedis(p) ==
  LET n == held["redis"]
  IN  /\ routine[p].at = "redis"
      /\ \/ Usable(n) /\ Goto(p, "promoteRedis", n)
         \/ Goto(p, "fetch", NoResp)
      /\ UNCHANGED <<held, age, made, writer, floor, purges>>

\* The response is copied to memory and served.
PromoteDisk(p) ==
  /\ routine[p].at = "promoteDisk"
  /\ MemorySet(routine[p].resp)
  /\ Goto(p, "idle", NoResp)
  /\ UNCHANGED <<age, made, writer, floor, purges>>

PromoteRedis(p) ==
  /\ routine[p].at = "promoteRedis"
  /\ MemorySet(routine[p].resp)
  /\ Spawn(routine[p].resp, {"disk"})
  /\ Goto(p, "idle", NoResp)
  /\ UNCHANGED <<age, made, floor, purges>>

-----------------------------------------------------------------------------
(* A miss goes to the origin; so does the refresh of a stale entry.         *)

\* scheduleRevalidate: one refresh of the key at a time.
Refresh(p) ==
  /\ routine[p] = AtRest /\ refresher = Unclaimed
  /\ Usable(held["memory"]) /\ age[held["memory"]] = "stale"
  /\ refresher' = p
  /\ routine' = [routine EXCEPT ![p].at = "refetch"]
  /\ UNCHANGED <<held, age, made, writer, floor, spared, purges>>

Fetch(p) ==
  /\ routine[p].at \in {"fetch", "refetch"}
  /\ made < MaxResponses
  /\ made' = made + 1
  /\ age' = [age EXCEPT ![made + 1] = "fresh"]
  /\ Goto(p, "store", made + 1)
  /\ UNCHANGED <<held, writer, floor, purges>>

\* The response must not be stored (IsCacheable, varyCoveredByKey, too large).
NotStored(p) ==
  /\ routine[p].at = "store"
  /\ Goto(p, "idle", NoResp)
  /\ UNCHANGED <<held, age, made, writer, floor, purges>>

\* SetByKey.
Store(p) ==
  /\ routine[p].at = "store"
  /\ MemorySet(routine[p].resp)
  /\ Spawn(routine[p].resp, Lower)
  /\ Goto(p, "idle", NoResp)
  /\ UNCHANGED <<age, made, floor, purges>>

\* A write goroutine: it stores its response, or fails or finds no room.
Write(s) ==
  /\ writer[s] # Free
  /\ \/ held' = [held EXCEPT ![writer[s].tier] = writer[s].resp]
     \/ held' = held
  /\ writer' = [writer EXCEPT ![s] = Free]
  /\ UNCHANGED <<age, made, routine, refresher, floor, spared, purges>>

-----------------------------------------------------------------------------
(* PurgeKey, PurgeByTag and PurgeAll, as far as this key is concerned: one  *)
(* tier after the other.                                                    *)

\* What readers, stores and write goroutines hold; a purger holds no response.
InHands == ({routine[p].resp : p \in {q \in Routines : ~Purger(q)}}
              \cup {writer[s].resp : s \in Slots}) \ {NoResp}

\* memory first; what is in somebody's hands now the purge will miss.
BeginPurge(p) ==
  /\ held' = [held EXCEPT !["memory"] = NoResp]
  /\ Move(p, "purgeDisk", made)
  /\ spared' = spared \cup InHands

PurgeMemory(p) ==
  /\ routine[p] = AtRest /\ purges < MaxPurges
  /\ purges' = purges + 1
  /\ BeginPurge(p)
  /\ UNCHANGED <<age, made, writer, floor>>

\* runRevalidate purges the key when the origin's answer is not cacheable.
RefreshPurges(p) ==
  /\ routine[p].at = "refetch"
  /\ BeginPurge(p)
  /\ UNCHANGED <<age, made, writer, floor, purges>>

\* What the purge was to delete from tier t, and could not.
Missed(t) == {held[t]} \ {NoResp}

\* Mutant: the purge leaves the files to expire by themselves.
PurgeDiskSkipped(p, ok) ==
  /\ routine[p].at = "purgeDisk"
  /\ spared' = IF ok THEN spared ELSE spared \cup Missed("disk")
  /\ Move(p, "purgeRedis", routine[p].resp)
  /\ UNCHANGED <<held, age, made, writer, floor, purges>>

\* Delete ignores that the file cannot be removed, PurgeByTag skips files it
\* cannot read or remove, and the engine discards the error of PurgeAll.
PurgeDisk(p, ok) ==
  /\ routine[p].at = "purgeDisk"
  /\ held' = IF ok THEN [held EXCEPT !["disk"] = NoResp] ELSE held
  /\ spared' = IF ok THEN spared ELSE spared \cup Missed("disk")
  /\ Move(p, "purgeRedis", routine[p].resp)
  /\ UNCHANGED <<age, made, writer, floor, purges>>

\* An error of Redis is ignored or only logged.
PurgeRedis(p, ok) ==
  /\ routine[p].at = "purgeRedis"
  /\ held' = IF ok THEN [held EXCEPT !["redis"] = NoResp] ELSE held
  /\ spared' = IF ok THEN spared ELSE spared \cup Missed("redis")
  /\ floor' = IF routine[p].resp > floor THEN routine[p].resp ELSE floor
  /\ Move(p, "idle", NoResp)
  /\ UNCHANGED <<age, made, writer, purges>>

-----------------------------------------------------------------------------
(* Time, and what memory and disk drop on their own.                        *)

Grow(n) ==
  /\ age[n] \in {"fresh", "stale"}
  /\ age' = [age EXCEPT ![n] = IF @ = "fresh" THEN "stale" ELSE "expired"]
  /\ UNCHANGED <<held, made, routine, writer, refresher, floor, spared, purges>>

\* evictLRU makes room for another key; cleanExpired sweeps memory.
Evict ==
  /\ held["memory"] # NoResp
  /\ held' = [held EXCEPT !["memory"] = NoResp]
  /\ UNCHANGED <<age, made, routine, writer, refresher, floor, spared, purges>>

\* cleanExpired of the disk; Redis drops a key when its time is up.
CleanExpired(t) ==
  /\ held[t] # NoResp /\ age[held[t]] = "expired"
  /\ held' = [held EXCEPT ![t] = NoResp]
  /\ UNCHANGED <<age, made, routine, writer, refresher, floor, spared, purges>>

-----------------------------------------------------------------------------
TiersNext ==
  \/ \E p \in Routines :
       \/ GetMemory(p) \/ GetDisk(p) \/ DropDisk(p) \/ GetRedis(p)
       \/ PromoteDisk(p) \/ PromoteRedis(p)
       \/ Refresh(p) \/ Fetch(p) \/ NotStored(p) \/ Store(p)
       \/ PurgeMemory(p) \/ RefreshPurges(p)
       \/ \E ok \in BOOLEAN : PurgeDisk(p, ok) \/ PurgeRedis(p, ok)
  \/ \E s \in Slots : Write(s)
  \/ \E n \in Responses : Grow(n)
  \/ Evict \/ \E t \in Lower : CleanExpired(t)

TiersSpec == TiersInit /\ [][TiersNext]_tiersVars

-----------------------------------------------------------------------------
(* Properties *)

\* What does come back after a purge is only what some goroutine held while
\* the purge ran (a write waiting for the disk, a copy on its way up, a store),
\* or what disk or Redis failed to delete.
OnlySparedSurvive ==
  \A t \in Tiers : held[t] # NoResp /\ held[t] <= floor => held[t] \in spared
=============================================================================
