# UWAS: TLA+ models, model checking and proofs

UWAS is a web server with a hosting panel in one Go process: it routes requests
to static files, PHP, applications and proxied upstreams, caches responses,
blocks abusive addresses, obtains certificates, supervises and deploys
applications, and is configured through an admin API while it runs.  This
directory models the parts of it whose correctness depends on the order in
which goroutines, callbacks, restarts and failures happen.  Every module is
written from the code under `src/internal` and `src/pkg/fastcgi`;
`PROJECT.json` maps each definition to its lines.

## 1. Inventory

### Parts modelled

| Part | Code | State | Operations | Meets |
|---|---|---|---|---|
| Circuit breaker | `handler/proxy/circuit.go`, `handleProxy` | four atomics per domain | Allow, RecordSuccess, RecordFailure, Abandon | every proxied request |
| Proxy request path | `handler/proxy/handler.go`, `canary.go` | connection counts, the backends tried | Serve with its retries, tunnels, canary pool | health checks, pools |
| Proxy pools and health | `server_routing.go`, `handler/proxy/health.go` | pools, checkers, verdicts and counts | rebuild, probe, stop | reloads, domain changes, requests |
| Response cache | `cache/*.go`, the cache part of `handleRequest` | memory, disk, Redis, write semaphore | lookup, promotion, store, refresh, purge, eviction | requests, admin purges |
| Background refresh | `server_revalidate.go` | `revalidating`, `revalActive` | schedule, refresh, give back | requests, cache |
| PHP connections | `pkg/fastcgi`, `handler/fastcgi` | idle list, slot count, wake-up channel | Get, Put, Discard, Close, dial, execute, one retry | PHP requests, reloads |
| Traffic quota | `bandwidth/manager.go`, its places in `handleRequest` | usage counters, block flag, connection slots | IsBlocked, Record, Reset, UpdateDomains | requests, reloads |
| Location limits | `handleRequest`, the janitor in `server.go` | counters per client and location | count, sweep | requests |
| Certificates | `tls/manager.go`, `tls/storage.go` | flights, certificate table, key and certificate files with their `.prev` pair | shared order, Save, Load, LoadManualCerts, RegisterCert, refreshOCSP | handshakes, renewals, reloads, crashes |
| Automatic blocking | `autoblock/*.go` | block map, history, lock-free view, firewall queue, parked removals, state file | trip/apply, Block, Unblock, SetWhitelist, SetFirewallSync, expire, firewall worker, save worker, load | accept loop, admin API, ufw, restarts |
| Firewall | `firewall/*.go`, `handlers_firewall.go` | ufw rule list, rollback timer | allow, deny, delete, move, block source, enable with rollback, confirm, disable | panel, automatic blocking |
| Shared configuration | `server.go`, `server_reload.go`, `admin/api.go`, `admin/domain/handler.go` | the shared config, the domain files, each subsystem's copy, two locks | add, update, rename, delete, raw edit, save, reload | everything |
| Accounts and sessions | `auth/manager.go`, `auth/persist.go` | users, sessions, `users.json`, `sessions.json` | login, logout, create, update, delete, password change, clean-up, restart | admin API |
| Install queue | `install/queue.go` | task map, bounded channel, stop flag and stop channel | Submit, Stop, List, worker | admin API, shutdown |
| Application supervisor | `apps/manager.go`, `apps/docker.go` | process objects, runs, stop channels | Register, Unregister, Start, Stop, monitor, back-off restart, probe | panel, deploys, processes |
| Deployment | `admin/deploy/*.go`, `handlers_apps_deploy.go`, `admin/apps/handler.go` | definition, work directory, running revision, per-app lock | deploy, webhook, rollback, create, edit, delete, start, stop | git, supervisor |
| Backups | `backup/backup.go` | archives, retention count | archive, upload, prune, SetKeepCount, DeleteBackup | scheduler, panel |
| Uptime monitor | `monitor/monitor.go` | monitored hosts, generations, results | sweep, probe, UpdateDomains | reloads |

### How the parts interact

* A request passes the accept loop (blocked addresses), a connection slot, the
  router and guards (each with its copy of the configuration), the quota, the
  location limits, the cache, and then the breaker with a pool, or a PHP connection.
* The admin API changes the shared configuration under `configMu`, then calls
  back into the server (`onDomainChange`), which rebuilds routers, guards, TLS,
  quotas, monitor and pools, then saves under `persistMu`.  A reload (signal or raw
  editor) does the same from the files, holding both locks.
* Every rebuild of the pools replaces the health checkers; the old ones are
  stopped after the swap.
* Detection and the admin API change the block list under one mutex, and talk to
  ufw only through a bounded queue and one worker.
* A deploy calls the supervisor's Register, Stop and Start, which operators and
  crash restarts call as well.

### What is hard here

* code that decides under a lock, unlocks, and then acts (block list, install
  queue, domain changes, logins, quota billing, the janitor, retention);
* several atomics that are one state (breaker, the slots and wake-ups of the PHP pool,
  the refresh guard and its counter);
* several stores that are one state without a lock over them (cache tiers,
  config/files/subsystems, key and certificate files, users and sessions files);
* bounded queues whose overflow must not lose the last word on a rule;
* restarts between a change, its save and its effect;
* late results: a probe after its checker was stopped or its domain replaced, a restart
  after the back-off when the operator has stopped the application, a timer
  that fired while it was being cancelled, an order whose callers left.

The list with the line of each is under `hazards` in `PROJECT.json`, with the
properties aimed at it.

## 2. Modules

| Module | Models | Granularity |
|---|---|---|
| `CircuitBreaker` | the breaker as `handleProxy` drives it | one action per atomic Load, Store, Add or CAS; `pc[r]` is the next one |
| `AutoBlock` | block list, view, firewall queue and worker, expiry, in one process | one action per critical section and per channel operation; `actor[p]` is what is left to do after an unlock |
| `AutoBlockState` | extends `AutoBlock` with the state file, save worker, clean stop, crash, torn file | as above; each step of `AutoBlock` is a step here, with the save request it makes; a save is a copy under the lock and a write after it |
| `TaskLifecycle` | abstract: what the install queue promises the admin API | one action per change of a task |
| `InstallQueue` | the queue with channel, two-phase Submit and Stop, worker, pruning | one action per critical section or channel operation |
| `CacheTiers` | one cache key over three tiers | one action per tier access |
| `PageRefresh` | guard and counter of background refreshes over several keys | one action per map or atomic operation |
| `DomainConfig` | shared config, files, subsystem copies, locks | one action per critical section, file or subsystem update |
| `ProxyPools` | one proxy domain's pools and checkers over rebuilds | one action per critical section, probe start and probe end |
| `ProxyServe` | requests of one proxied domain, each through its attempts | one action per pick, send, failure and answer; the choice among healthy backends is free |
| `FastCGIPool` | the pool and the requests that draw from it | one action per atomic or channel operation |
| `Bandwidth` | one domain's slots, quota check and billing | one action per critical section; configuration changes route first and set limits after |
| `LocationLimits` | one key of the limiter map | one action per map operation or critical section |
| `CertIssuance` | one host's orders and its certificate directory | one action per file operation of Save; a crash may come between any two |
| `CertTable` | one host's entries in `certs` and `manualCerts` | one action per pass under `manualMu`, and per store |
| `Accounts` | users, sessions, both files | one action per critical section; bcrypt and file writes run between them |
| `AppSupervisor` | one application's process objects and runs | one action per critical section, spawn, kill and exit |
| `AppDeploy` | one application's deploys beside the app handlers | one action per stage of a deploy |
| `Backups` | overlapping jobs and retention | one action per stage; list and delete are separate |
| `Firewall` | ufw's rules and the enable with rollback | one action per ufw command or critical section of `rbMu` |
| `UptimeMonitor` | sweeps and probes over reloads | one action per critical section |
| `CircuitBreakerProofs`, `InstallQueueProofs` | theorems about the module of that name | |
| `ConnectionProofs` | theorems about `ProxyServe`, `FastCGIPool`, `PageRefresh`: what counts connections, slots and guards | |
| `TrafficProofs` | theorems about `CertTable`, `LocationLimits`, `CertIssuance`, `Bandwidth` and the sum `MC_Serving` | |
| `OperationsProofs` | theorems about `UptimeMonitor`, `Firewall`, `Backups` | |
| `AdminProofs` | theorems about `Accounts`, `AppDeploy`, `AppSupervisor` and the sum `MC_Operations` | |
| `AutoBlockProofs` | theorems about `AutoBlock` and `AutoBlockState` | |
| `SharedStateProofs` | theorems about `ProxyPools`, `CacheTiers`, `DomainConfig` | |
| `MC_Serving`, `MC_Operations` | sums of the components that have no run of their own, see below | |
| other `MC_*` | instances for TLC | |

What is abstracted: time is a Boolean or an age (`cooled`, lapsed, fresh, stale,
expired) that another action may change at any moment; addresses, hosts, settings
and responses are model values or numbers; escalation levels are "has a
history"; a response body is the number of its origin fetch, a certificate and
its key, a password hash, a token or a revision is a number; ufw is its list of rules
(`Firewall`) or the set of addresses it denies (`AutoBlock`); Redis, the disk, docker, git
and PHP may fail at any access where the code handles the error or ignores it.  `ops`, `boots`,
`purges`, `flips`, `drawn`, `uploads`, `restarts` and the like only count
against a named bound.  The variables marked "history" (`overlapped`, `raced`, `lost` of `AutoBlock`,
`spared`, `floor`, `overlap`, `stray`, `failed`, `unsaved`, `reached`, `frail`,
`barred`, `misjudged`, `fewestKept`, `made`, `dropped`, `confirmed`, `overrun`, `outdated`,
`life`) record what happened for the properties' sake and guard nothing.  Definitions marked "Mutant"
are plausible wrong versions of the definition after them, used to see that the
properties notice; no specification uses them.

**The two sums.**  The thirteen components of `MC_Serving` and `MC_Operations` share no
variable in these models, so their product would only multiply states that have
nothing to do with each other.  Each sum chooses in its initial state the
component (`focus`) that moves; the others rest in one fixed initial state.  All
behaviours of each component are explored, and each property speaks of one component.  The
components' type invariants are checked as one conjunction, each for its focus.

## 3. Runs

| Run | Shows | Bounds |
|---|---|---|
| `breaker` | no interleaving loses a trip (`NoMissedTrip`); while breaker calls do not overlap, the half-open slot is never stranded (`NotWedgedWithoutOverlap`) and the domain recovers (`RecoversWithoutOverlap`) | 3 requests, threshold 2 |
| `breaker_wedge` | **violated**: `NeverWedged`, once calls do overlap | same |
| `autoblock` | the accept loop's view is exactly the enforced list; a block flagged as in the firewall has its rule; a rule outlives its block only through the race below or a ufw failure; the rule of a lifted block goes | 1 address, 2 actors, 4 operations, queue of 1 |
| `autoblock_state` | the restored view is the enforced list; the file catches up with the list however requests coalesce | 2 addresses, 2 actors, 2 operations, history of 1, 1 restart |
| `autoblock_state_lapsed` | **violated**: `LapsedRuleParked` | 1 address, firewall sync on |
| `install_queue` | the queue implements `TaskLifecycle`; nothing is queued after Stop; finished tasks have an end time; pruning keeps live tasks; every task ends | 4 tasks, channel of 1, history of 2 |
| `cache_tiers` | after a purge only responses that a goroutine held while it ran, or that the disk or Redis failed to delete, can come back | 2 goroutines, 1 write slot, 2 responses, 2 purges |
| `domain_config` | files match the config when nothing is under way (except the file of a domain that is gone: renamed, not removed, or written again by a running save); subsystems match unless two copies were applied at once; every request ends | 2 hosts, 2 settings, 2 subsystems, 2 goroutines, 3 requests |
| `domain_config_wiped` | **violated**: `ReloadKeepsAdminWrites` | same |
| `proxy_pools` | no checker leaks; verdicts follow the backends | 1 backend, 2 rebuilders, 3 pools, 2 flips |
| `serving` | the properties of the request's components, next table | below |
| `operations` | the properties of the administrator's components, next table | below |

| Property | Component | Says | Bounds |
|---|---|---|---|
| `SentAtMostOnce` | proxy path | a request that is neither idempotent nor keyed reaches one backend; a streamed body is sent once | 2 requests, 3 backends and 1 canary, 2 retries |
| `ConnsMatchLoad` | proxy path | a backend's count is the requests and tunnels it carries | same |
| `PairStaysLoadable` | certificate files | what reached the disk can be loaded at every instant, through crashes and failed renames anywhere, while the pair being replaced could be linked | 1 caller that may leave and ask again, 3 certificates, 2 groups, 2 faults |
| `ManualCertFollowsConfig` | certificate table | no order of reloads, staple refreshes, orders, registered certificates and restarts serves a manual certificate the configuration has dropped; an uploaded pair is loaded only by a process that finds no domain configured | 5 certificates, 4 reloads |
| `SlotsMatchConnections` | PHP pool | every slot is a connection in use or idle | 3 requests, 2 slots, 1 idle |
| `NoLostWakeup` | PHP pool | nobody sleeps beside a free slot | same |
| `BlockFollowsQuota` | quota | the flag is set exactly while a counter reaches a limit in force, but for a Record that read its limits before they changed | 3 requests, 2 slots, 3 quotas, 1 change |
| `GuardHeldByOne` | page refresh | guard and counter are given back on every path; no page is refreshed twice at once | 2 pages, 3 readers, 1 refresh |
| `OneRunningCount` | location limits | the janitor never hands out a fresh quota inside a window, but for a counter taken between its look and its delete | 3 requests, limit 2, 3 counters |
| `RevokedStaysOut` | accounts | a revoked token is never admitted again: not by a login under way, a late write or a restart between the two files | 2 names, 2 clients, 2 sessions each, 3 fresh values, 1 restart |
| `NoProcessEscapes` | supervisor | a process that is up is registered with the object in force, or somebody is about to register or end it | 2 objects, 3 runs, 1 crash |
| `ReportIsTrue` | deployment | after a success the reported commit, after a rollback the former one, is in the work directory and in what runs from it | 2 deploys, 2 revisions, 2 directories, 2 applications of the name, 2 edits |
| `NewestSurvive` | backups | what retention takes is a full backup with enough newer full ones, never a one-domain backup, beside deletions by the operator | 2 jobs, keep up to 2, 4 archives |
| `ConfirmedStaysOn` | firewall | no late timer, and no disable begun earlier, turns a confirmed firewall off | 1 port, 2 rules, 2 enables |
| `ResultsOfThisDomain` | uptime monitor | a result comes from checks of the domain configured now | 2 hosts, 1 probe at a time, 3 reloads |

### Why the bounds are enough to be interesting

* Breaker: an old request, a probe and a late caller need three requests; threshold
  2 tells a trip by count from a trip by probe.  The counter needs no
  bound: a request in flight adds at most one failure and an open breaker admits none,
  so TLC explores every reachable state.
* Blocking: all the rules concern one address at a time, so one address with four
  operations meets block, lift, block again and lift again; a queue of one is full
  whenever a second operation waits.  Two addresses are needed for `trimHistory`
  only, which the state run has; it starts with firewall sync off to stay small,
  while `SetFirewallSync` may still turn it on.
* Install queue: with a channel of one, one task may run, one be buffered, one wait
  for room and one arrive after Stop, all at once.
* Cache: two goroutines are one lookup or store against one purge; one write slot
  makes a store compete with its own second write, and a skipped write possible.
* Configuration: two hosts of which one exists at first, so that add, update and
  delete are possible at once; two subsystems so that an update can be half applied.
* Pools: three pools are the boot pool and two rebuilds, which may overlap; two
  flips turn a backend down and up again.
* Proxy path: three backends and two retries use every attempt; with two requests a
  backend's count is shared.
* PHP pool: three requests over two slots make one wait while two release; one idle
  place makes Put meet a full list.
* Certificates: three certificates are one on disk, one being saved, one of a second
  order; two faults are an interrupted save and one that starts over its leftovers.  One
  caller can leave an order and start the next beside it.
* Accounts: three fresh values are an identity and hash, a changed hash, and a token.
* Supervisor: three runs are a first, its restart and the operator's new start.
* Deployment: two applications of a name are the deleted and the re-created one; with two
  directories an edit moves the application away from a deploy, and back.
* Firewall: two enables are a timer and the one that replaces it.

The components of the sums were also explored alone on larger instances without a
violation: `Firewall` with two ports of which one is protected, `Bandwidth` with two
changes, `Accounts` with four fresh values, `AppDeploy` with three revisions,
`AppSupervisor` with two crashes, `UptimeMonitor` with three hosts.

Runs whose bounds end them (operations, tasks, restarts) switch TLC's deadlock check
off; `breaker` runs with it on.

### Violated runs: where the code and its comments disagree

1. `breaker_wedge`.  RecordSuccess and RecordFailure load the state and act on it in
   later atomic operations.  A call begun before another request became the half-open
   probe can leave half-open with the slot claimed and nobody to release it, what
   `circuit.go:110-114` says is prevented.
2. `autoblock_state_lapsed`.  `Firewall = true` is set after the rule is in place and asks
   for no save; a restart that finds the block lapsed does not know of the rule.
3. `domain_config_wiped`.  A reload between an admin write and its save publishes
   files that do not have the write.

### Exceptions the properties name

Some properties hold only outside a named circumstance, recorded by a history
variable.  These circumstances are reachable in the models, hence in the code:

* `RuleOutlivesOnlyByRace` (`raced`): apply and Block send the firewall add after they
  unlock; a lift in between queues its removal first, and the rule stays without a block.
* `LiveUnlessOvertaken` (`overlap`): two domain changes copy the configuration and apply
  their copies unordered; the older may win in some subsystem until the next change,
  where `server.go:462` says a change takes effect immediately.
* `PairStaysLoadable` (`frail`): a save that could not link the pair it replaces goes on
  without it, so between its two renames nothing loads; a save that starts over the
  leftovers of an interrupted one links the mismatched files as `.prev`, so a second
  interruption loses the certificate; and a caller that holds a flight group already taken
  out of the map starts an order, and a save, beside that of the group now in it.  The
  exception ends when a save, or a restart, ends with files of one certificate in place.
* `OnlySparedSurvive` (`spared`): what a goroutine held while the purge ran, or what the
  disk or Redis failed to delete, which the purge does not look at.
* `FilesMatchConfig` (`stray`): a rename leaves the file under the old name, a failed
  `os.Remove` is ignored, and a save under way may write a deleted domain's file again; a
  restart, or a reload, brings such a domain back.
* `BlockFollowsQuota` (`outdated`): Record may decide on limits replaced meanwhile; the next
  request of the domain sets the flag right.
* `OneRunningCount` (`raced`): a request may take a counter between the janitor's look and
  its delete, and count where nobody will look again.
* `NoProcessEscapes` (`misjudged`): a failed docker command is logged and the container
  forgotten.
* `ConfirmedStaysOn` (`overrun`): Disable and the rollback callback run `ufw disable` after
  they released `rbMu`.  One that is already on its way, or has run, when an enable sets its
  timer may leave that enable off behind its confirmation.  The exception is of that enable
  alone: the next one starts without it.
* `ReportIsTrue`: a failed build of a webhook, or of a deploy that skips the start, is rolled
  back without a restart, so a process started meanwhile may run the undone revision; and
  with skip_start nothing removes a container that survived its `docker stop` (`lost` in
  `AppDeploy`), which may serve the old revision behind a success.
* `ManualCertFollowsConfig` (`bare`): a process that found no domain configured loads
  uploaded pairs, and goes on serving them when domains are added.
* `GuardHeldByOne`, `SlotsMatchConnections`, `NoLostWakeup`, `ConnsMatchLoad`,
  `SentAtMostOnce`, `RevokedStaysOut`, `NewestSurvive` and `ResultsOfThisDomain` have none.
  `NewestSurvive` counts an archive the operator deleted as kept: what a prune then leaves
  may be fewer than its count.

### Fairness

* Breaker: each request that is inside a breaker call or in flight goes on (handlers
  return; the transport has timeouts), and time passes.  No request is forced
  to arrive: the recovery property asks that the breaker becomes ready to admit.
* Blocking: actors, the expiry ticker and the firewall worker go on, as goroutines do;
  nothing forces detections, admin calls or lapses.
* Install queue: the worker, the close of stopCh, and each waiting Submit.  The send is strongly
  fair, for Go's channels serve waiting senders in order.  Nobody need call Submit or Stop.
* Configuration: each goroutine's next step is strongly fair, for `sync.Mutex` and
  `sync.RWMutex` do not starve a waiter.
* Pools: probes start and end (they have timeouts), and rebuilds go on.
* Cache and the components of the two sums: no liveness is stated, and their
  specifications have no fairness.

## 4. Proofs

`tlapm` checks the theorems for every value of the constants.

**CircuitBreakerProofs**, from `Threshold \in Nat \ {0}` and any set of requests:

* `TypeCorrect`: `TypeOK` is inductive.
* `TripNeverMissed`: `NoMissedTrip` is inductive by itself: a step that raises the counter
  or closes the breaker puts its own request at a label of `Owing`.
* `SlotNeverLeaked`: `NotWedgedWithoutOverlap` is not inductive.  `SerialInv` strengthens it:
  as long as no call overlapped another, at most one request is inside a
  call (`Exclusive`), what it has loaded still holds (`LoadsHold`), and a claimed
  slot has somebody who will release it (`SlotOwned`).

**InstallQueueProofs**, from `QueueAssumption` (a channel with room, natural bounds):

* `QueueInvariant`: `QueueInv` is inductive.  Beside the properties it says that exactly the
  unnumbered tasks are new (`NumberedInOrder`), that a task in the channel or with
  the worker has left Submit's hands (`QueueHandedOver`, `WorkerHandedOver`), that a task still
  in Submit's hands never started (`SendingWaits`), and that the running task is the
  worker's (`RunningIsWorkers`).  Without the hand-over facts the stop branch of Submit
  could overwrite the status of a running task; without `ClosedAfterStopped` it could
  fail a task that Stop has given no end time.
* `TypeCorrect`, `StopFailsQueued`, `FinishedEnds`, `ActiveNeverPruned` follow from it.
* `ImplementsLifecycle`: every step of the queue is a step of `TaskLifecycle` or leaves
  `status` and `stopped` alone.

**ConnectionProofs**, from finite sets of requests, backends, pages and readers, "none"
being no backend. Each proof counts: lemma `OneMoves` says how the cardinality of a finite
set follows the one element a step moves.

* `ConnsExact`, `NeverSentTwice` (proxy path). `ServeInv` adds that a request holds a
  backend exactly while it is past the choice of one (`AtWhileHeld`), that one that may not
  be replayed has reached no backend but the present one (`ReachedOnlyHere`), and that a
  streamed body has been offered to one (`StreamTriesOne`): without these a retry could send
  again.
* `SlotsExact`, `WakeupNeverLost` (PHP pool). `NoLostWakeup` is not inductive: `WakeupOwed`
  says that while somebody waits, the free slots are at most the wake-ups in the channel and
  under way.
* `GuardExact` (page refresh). `RefreshInv` adds `RefreshesBelowCap`: the readers that
  passed the cap and have yet to look at the guard again, and the refreshes that run, stay
  below the cap together.

**TrafficProofs**, which extends `MC_Serving`:

* `ManualCertRemoved`: `TableInv` adds that a served manual certificate is remembered in
  `manualCerts` (`ServedManualRemembered`), else the next reload would not drop it.
* `QuotaNotHandedOutTwice`: `LimitInv` adds that a raced counter has left the map, that a
  request counts on the counter of the key or on a raced one, and what the janitor saw when
  it looked.
* `PairAlwaysLoads`: `CertInv` joins the well-formedness of the flights (a caller that waits
  has a group, a flight that has ordered has a certificate) with `SavesAlone`, one save at a
  time unless `frail`, and with what the four files are at each step of that save
  (`SavesProgress`), from the removal of a stale link to the removal of the pair, either of
  which may fail.
* `BlockExact`: `BlockFollowsQuota` with the types. `BandwidthAssumption` asks for a largest
  limit, `CountCap \in Nat`, since that a finite set has a maximum takes an induction.
* `ServingComposes`: a behaviour of the sum is a behaviour of each component, since every
  step of the sum is a step or a stutter of each; so all the above holds of the sum.
  `ServingTypes` collects the types.

**OperationsProofs**, from the natural bounds the modules state:

* `ResultsCurrent`: `UptimeInv` says that no generation is ahead of the present one, that a
  sweep of the present generation has only configured hosts left, and that a probe whose
  result would be stored is one of the host configured now.
* `ConfirmedEnableStays`: `FirewallInv` has `EnabledStaysOn`: an enable that was or may yet
  be confirmed has ufw on and no rollback past its check, and a confirmed one has no timer;
  and it types what a move of a rule carries between its two commands.
* `NewestKept`: `BackupInv` says of what retention took (`GoneWasOld`) and of what a job's
  list would still take (`ListsStaySafe`) that it is full and has at least `fewestKept` newer
  full archives, there or deleted by the operator, which another job's deletions do not
  change.

**AdminProofs**, which extends `MC_Operations`:

* `RevokedForGood`: `AccountsInv` says that a session with a barred token, wherever one is
  left (the session table, the file, a snapshot being written), matches neither the users in
  memory nor those in the file (`BarredIsOut`), that one write of the sessions is under way
  at a time (`WritesOK`), and bounds each user's sessions (`SetsBounded`).
* `ReportsTrue`: `DeployInv` has the exclusive lock of the application (`LockExclusive`) and
  what work directory and process are at each stage of a deploy (`DeployAt`).  Lemma
  `ProcessKeeps` says that nothing an operator or a stop that fails does to the process
  (start it from a directory's files, end it, leave it) takes from what a deploy relies on.
* `ProcessesHeld`: `AppInv` says that a replaced object stays stopped and that the command
  of an object has its stop channel (`ObjectsOK`), that every run belongs to an object that
  was registered (`RunsPlaced`), and that a run seen to exit has no process unless it was
  misjudged (`ExitSeen`).
* `OperationsComposes`, `OperationsTypes`: as for the other sum.

**AutoBlockProofs**, from a finite set of addresses and a queue with room:

* `ViewExact`, `FlagsBacked`, `OnlyRacedRulesStay`: `ListInv` adds what the firewall worker
  holds (`WorkerOK`: one about to unblock has no flagged block, one about to flag has
  installed the rule) and `RemovalsOwed`: a rule without a block has its removal after the
  last add of that address, in the queue, parked, or in the hands of an actor, the ticker or
  the worker, unless it was raced or lost.
* `StateTypes`, `RestoredViewExact`, `FileComplete`: `StateInv` adds that the file and a
  copy being written are well-formed lists (`FilesOK`) and `FileOwed`: a copy has still to be made, is being
  written and covers the list, or the file covers it, unless a write failed.
* `FlagsBackedBeforeRestart`: `FlaggedBlockHasRule` and `RuleOutlivesOnlyByRace` hold beside
  the state file too, as long as `lost` is not set, which a restart and a failed ufw command
  do: a restart may restore a flag whose rule was removed meanwhile, so no more is claimed.

**SharedStateProofs**, from a non-empty set of hosts and a non-empty sequence of subsystems:

* `CheckersNeverLeak`: `PoolsInv` accounts for every checker that is not stopped: it is the
  live pool's, or that of a rebuild about to swap it in or to stop it (`Accounted`), and
  none of these is the same twice (`NoneTwice`). Without the second part one rebuild could
  stop the checker another has just made live.
* `PurgedStaysGone`: `TiersInv` says for each purge under way that of what it is to remove,
  the tiers it has passed and everybody's hands hold only what is in `spared` (`Swept`), and
  the same of `floor` for all tiers.
* `FilesInStep`: `ConfigInv` has `FilesOwed`: a host whose file differs from the config has
  a handler that will save or remove it, a save under way that has not written it, or a
  reload that has yet to publish what it read.
* `SubsystemsInStep`: `LiveOwed`: without an overlap at most one copy is being applied, the
  subsystems before `next` have it, and it is the config unless another notification is
  pending.

Every invariant and the refinement that a passing run checks is stated by one of these
theorems; the inductive invariants were first checked by TLC on the runs' instances.

Only model-checked: the liveness properties (`RecoversWithoutOverlap`, `LiftedRuleGoes`,
`EveryTaskEnds`, `EveryRequestEnds`, `VerdictsConverge`), since fairness and ENABLED are
outside what the prover supports. Induction over data is outside it as well; no property
here needs it, but for the assumption `CountCap` above.

## 5. Not modelled

* **Sequential or pure text**: routing, the remaining middleware, rewrite rules, `.htaccess`
  conversion, path checks, configuration parsing and validation, SFTP, terminal and
  file manager sessions, restore of a backup.  What they compute depends on characters and
  files, not on an order of steps; unit tests reach it.
* **Wrappers of external programs**: DNS, database, site users, services, PHP packages,
  crontab, migration, WordPress, self-update.  One command per request, no state of
  their own.
* **No effect on the rest**: logging, metrics, analytics, alerts, notifications, webhook
  deliveries, statistics.
* **Within modelled parts**: the second look at the safe list when an address is looked up,
  and its place before `b.mu` when one is blocked (`AutoBlock` has both in the critical
  section); the deploy history and the last webhook's status; the implicit `www` redirect
  records that Add and Update replace, and the redirect records of aliases, which come and
  go with their domain's change; sessions written before the password fingerprint existed,
  which `ValidateSession` admits without it (`auth/manager.go:767`); byte accounting and LRU order of the memory cache, purge by
  tag, detection counters (a trip may happen at any time), mirrored requests, the ACME
  protocol, API keys, two-factor codes and the lockout of guesses, ports and logs of applications,
  IPv6 twins of firewall rules, the throttle action of a quota (a status field).

Most of the repository's lines are in these groups (panel handlers, installers, parsers
and wrappers); the map covers the code that keeps shared state across steps.

Known but not stated as properties, because the code makes no promise there: an older
response may reach a lower cache tier after a newer one; two half-open probes may be in
flight at once after a late Abandon; the raw editor may restore a file another handler
wrote during a refused reload; an incomplete archive counts at the next prune; a deploy in
flight records into the history of an application re-created under its name (read in the
code, the history is not modelled).

## 6. Plan: what to prove next

Every safety property the runs check has its theorem. Worth adding, in the proof modules
there are:

1. Action properties from the invariants at hand: a deploy's success changes what runs only
   under the lock (`AdminProofs`), a checker once stopped stays stopped and changes no
   verdict (`SharedStateProofs`), a revoked token stays revoked (`AdminProofs`).
2. A second abstract specification with its refinement: the PHP pool as a counting semaphore
   over its slots (`ConnectionProofs`).
3. The safety half of the liveness properties: what each waiting process waits for has
   somebody who will do it (as `WakeupOwed` and `RemovalsOwed` say it), for the
   configuration's two locks.
