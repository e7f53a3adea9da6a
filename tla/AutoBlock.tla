----------------------------- MODULE AutoBlock -----------------------------
(***************************************************************************)
(* The block list of internal/autoblock in one process: who is blocked, and *)
(* the ufw rules that mirror the list.  AutoBlockState adds the file that   *)
(* carries the list over a restart.                                         *)
(*                                                                         *)
(* Blocker.mu makes each change of the list atomic, but trip, Block,       *)
(* Unblock, SetWhitelist and expire go on AFTER they unlock it: they send  *)
(* firewall operations to a bounded queue and ask for a save.  An actor    *)
(* is such a goroutine; what it has still to do is in actor[p].  Times are *)
(* abstracted: a block is lapsed or not (ExpiresAt), escalation levels to  *)
(* whether the address has a history at all.                               *)
(***************************************************************************)
EXTENDS Naturals, FiniteSets, Sequences, SequencesExt

CONSTANTS
  Addrs,       \* source addresses
  Actors,      \* goroutines that detect abuse or serve the admin API
  QueueCap,    \* capacity of fwQueue (1024 in the code)
  MaxHistory,  \* maxHistory (100000 in the code)
  BootConfigs, \* configurations a process may start with, see ConfigType
  MaxOps       \* bound: operations the actors start

\* The whitelist (as the addresses it covers), firewall_sync and dry_run.
ConfigType == [safe : SUBSET Addrs, fwOn : BOOLEAN, dryRun : BOOLEAN]

ASSUME BoundsAssumption ==
  /\ BootConfigs \subseteq ConfigType
  /\ IsFiniteSet(Addrs)
  /\ QueueCap \in Nat \ {0}
  /\ MaxHistory \in Nat
  /\ MaxOps \in Nat

VARIABLES
  list,       \* b.blocked and b.history: sets of addresses, see ListType
  view,       \* b.vshards: the addresses Blocked() refuses
  safe,       \* b.safeNets, as the set of addresses it covers
  fwOn,       \* b.fwEnabled
  dryRun,     \* b.cfg.DryRun
  queue,      \* b.fwQueue
  fwPending,  \* b.fwPending
  worker,     \* firewallWorker between two steps of runFirewallOp
  rules,      \* external: the addresses ufw denies
  actor,      \* what each actor has still to do
  ticker,     \* what the expiry goroutine has still to do
  ops,        \* counts against MaxOps
  raced,      \* history: an add was queued for a block already lifted
  lost        \* history: ufw failed to remove a rule, or the process ended

guarded == <<list, view>>
firewall == <<queue, fwPending, worker, rules>>
config == <<safe, fwOn, dryRun>>
ghosts == <<raced, lost>>
vars == <<guarded, firewall, config, actor, ticker, ops, ghosts>>

\* blocked: the map's keys; of these, dry: not enforced, lapsed: past
\* ExpiresAt, fw: Entry.Firewall.  history: the keys of b.history.
ListType == [blocked : SUBSET Addrs, dry : SUBSET Addrs, lapsed : SUBSET Addrs,
             fw : SUBSET Addrs, history : SUBSET Addrs]

EmptyList == [blocked |-> {}, dry |-> {}, lapsed |-> {}, fw |-> {}, history |-> {}]

FwOps == [op : {"add", "remove"}, ip : Addrs]

Idle == [at |-> "idle", ips |-> {}]
Tails == [at : {"idle", "apply", "add", "lift", "remove", "retry", "save"},
          ips : SUBSET Addrs]

TypeOK ==
  /\ list \in ListType
  /\ UNION {list.dry, list.lapsed, list.fw} \subseteq list.blocked
  /\ view \subseteq Addrs /\ safe \subseteq Addrs
  /\ fwOn \in BOOLEAN /\ dryRun \in BOOLEAN
  /\ queue \in Seq(FwOps) /\ Len(queue) <= QueueCap
  /\ fwPending \subseteq Addrs /\ rules \subseteq Addrs
  /\ worker \in [at : {"idle", "check", "unlock", "block", "flag"}, ips : SUBSET Addrs]
  /\ actor \in [Actors -> Tails] /\ ticker \in Tails
  /\ ops \in 0..MaxOps
  /\ raced \subseteq Addrs /\ lost \in BOOLEAN

Init ==
  /\ list = EmptyList /\ view = {}
  /\ \E c \in BootConfigs : safe = c.safe /\ fwOn = c.fwOn /\ dryRun = c.dryRun
  /\ queue = <<>> /\ fwPending = {} /\ worker = Idle /\ rules = {}
  /\ actor = [p \in Actors |-> Idle] /\ ticker = Idle
  /\ ops = 0 /\ raced = {} /\ lost = FALSE

-----------------------------------------------------------------------------
(* The sections under Blocker.mu *)

Enforced(l) == l.blocked \ l.dry

\* b.blocked[a] = e: a fresh entry, Firewall not yet set.
PutEntry(l, a, dry) ==
  [l EXCEPT !.blocked = @ \cup {a}, !.lapsed = @ \ {a}, !.fw = @ \ {a},
            !.dry = IF dry THEN @ \cup {a} ELSE @ \ {a}]

DelEntries(l, s) ==
  [l EXCEPT !.blocked = @ \ s, !.lapsed = @ \ s, !.fw = @ \ s, !.dry = @ \ s]

\* trimHistory: once over the limit it forgets addresses that are not blocked,
\* in any order, until a tenth below the limit or until none is left.
TrimHistory(l) ==
  IF Cardinality(l.history) <= MaxHistory THEN {l.history}
  ELSE LET idle   == l.history \ l.blocked
           target == MaxHistory - (MaxHistory \div 10)
       IN  {h \in SUBSET l.history :
              /\ l.history \ h \subseteq idle
              /\ \/ Cardinality(h) = target
                 \/ h = l.history \ idle /\ Cardinality(h) > target}

\* The critical section of apply and of Block: entry, history, enforced view.
Install(a, dry) ==
  LET put == PutEntry([list EXCEPT !.history = @ \cup {a}], a, dry)
  IN  /\ \E h \in TrimHistory(put) : list' = [put EXCEPT !.history = h]
      /\ view' = IF dry THEN view \ {a} ELSE view \cup {a}

-----------------------------------------------------------------------------
(* Detection: trip, then apply.  trip unlocks before it calls apply.        *)

Start(p, tail) ==
  /\ actor[p] = Idle /\ ops < MaxOps
  /\ ops' = ops + 1
  /\ actor' = [actor EXCEPT ![p] = tail]

\* A threshold of an address that was not safe is crossed.
Trip(p, a) ==
  /\ a \notin safe
  /\ a \in list.blocked => a \in list.lapsed
  /\ Start(p, [at |-> "apply", ips |-> {a}])
  /\ UNCHANGED <<guarded, firewall, config, ticker, ghosts>>

Apply(p) ==
  \E a \in actor[p].ips :
    /\ actor[p].at = "apply"
    /\ Install(a, dryRun)
    /\ actor' = [actor EXCEPT ![p].at = IF dryRun THEN "save" ELSE "add"]
    /\ UNCHANGED <<firewall, config, ticker, ops, ghosts>>

\* Block, to the unlock.  A manual block is enforced in dry-run mode too.
Block(p, a) ==
  /\ a \notin safe
  /\ Install(a, FALSE)
  /\ Start(p, [at |-> "add", ips |-> {a}])
  /\ UNCHANGED <<firewall, config, ticker, ghosts>>

\* The add is sent after the unlock, and dropped when the queue is full.
QueueAdd(p) ==
  \E a \in actor[p].ips :
    /\ actor[p].at = "add"
    /\ queue' = IF fwOn /\ Len(queue) < QueueCap
                THEN Append(queue, [op |-> "add", ip |-> a]) ELSE queue
    /\ raced' = IF a \in list.blocked THEN raced ELSE raced \cup {a}
    /\ actor' = [actor EXCEPT ![p].at = "save"]
    /\ UNCHANGED <<guarded, fwPending, worker, rules, config, ticker, ops, lost>>

-----------------------------------------------------------------------------
(* Lifting: Unblock, SetWhitelist and expire, and the removals they queue.  *)

\* Mutant: an unblock that finds the entry clears everything but the view.
UnblockKeepsView(p, a) ==
  /\ a \in list.blocked
  /\ list' = DelEntries([list EXCEPT !.history = @ \ {a}], {a})
  /\ view' = view
  /\ Start(p, [at |-> "remove", ips |-> {a}])
  /\ UNCHANGED <<firewall, config, ticker, ghosts>>

Unblock(p, a) ==
  /\ a \in list.blocked \cup list.history
  /\ list' = DelEntries([list EXCEPT !.history = @ \ {a}], {a})
  /\ view' = view \ {a}
  /\ Start(p, IF a \in list.blocked THEN [at |-> "remove", ips |-> {a}] ELSE Idle)
  /\ UNCHANGED <<firewall, config, ticker, ghosts>>

\* A reload stores the new list, then lifts the blocks inside it.
SetWhitelist(p, nets) ==
  /\ safe' = nets
  /\ Start(p, [at |-> "lift", ips |-> {}])
  /\ UNCHANGED <<guarded, firewall, fwOn, dryRun, ticker, ghosts>>

LiftSafeBlocks(p) ==
  LET lifted == list.blocked \cap safe
  IN  /\ actor[p].at = "lift"
      /\ list' = DelEntries([list EXCEPT !.history = @ \ lifted], lifted)
      /\ view' = view \ lifted
      /\ actor' = [actor EXCEPT ![p] = IF lifted = {} THEN Idle
                                       ELSE [at |-> "remove", ips |-> lifted]]
      /\ UNCHANGED <<firewall, config, ticker, ops, ghosts>>

SetFirewallSync(p, on) ==
  /\ on # fwOn
  /\ fwOn' = on
  /\ Start(p, Idle)
  /\ UNCHANGED <<guarded, firewall, safe, dryRun, ticker, ghosts>>

\* Mutant: a removal that finds the queue full is dropped.
QueueRemoveDrops(a) ==
  /\ queue' = IF Len(queue) < QueueCap
              THEN Append(queue, [op |-> "remove", ip |-> a]) ELSE queue
  /\ fwPending' = fwPending

\* queueRemove: a removal that finds the queue full is parked in fwPending.
QueueRemove(a) ==
  \/ /\ Len(queue) < QueueCap
     /\ queue' = Append(queue, [op |-> "remove", ip |-> a])
     /\ fwPending' = fwPending
  \/ /\ Len(queue) = QueueCap
     /\ queue' = queue
     /\ fwPending' = fwPending \cup {a}

ActorRemove(p) ==
  \E a \in actor[p].ips :
    /\ actor[p].at = "remove"
    /\ QueueRemove(a)
    /\ actor' = [actor EXCEPT ![p] =
                   [at  |-> IF @.ips = {a} THEN "save" ELSE "remove", ips |-> @.ips \ {a}]]
    /\ UNCHANGED <<guarded, worker, rules, config, ticker, ops, ghosts>>

\* The actor's last step: requestSave (AutoBlockState).
RequestSave(p) ==
  /\ actor[p].at = "save"
  /\ actor' = [actor EXCEPT ![p] = Idle]
  /\ UNCHANGED <<guarded, firewall, config, ticker, ops, ghosts>>

\* expire, to the unlock.
Expire ==
  /\ ticker = Idle
  /\ list.lapsed # {} \/ fwPending # {}
  /\ list' = DelEntries(list, list.lapsed)
  /\ view' = view \ list.lapsed
  /\ ticker' = [at |-> IF list.lapsed = {} THEN "retry" ELSE "remove", ips |-> list.lapsed]
  /\ UNCHANGED <<firewall, config, actor, ops, ghosts>>

ExpireRemove ==
  \E a \in ticker.ips :
    /\ ticker.at = "remove"
    /\ QueueRemove(a)
    /\ ticker' = [at  |-> IF ticker.ips = {a} THEN "save" ELSE "remove",
                  ips |-> ticker.ips \ {a}]
    /\ UNCHANGED <<guarded, worker, rules, config, actor, ops, ghosts>>

\* retryPendingRemoves: visits the parked removals in any order.  One whose
\* address is blocked again is forgotten, the others are queued, and the first
\* that finds the queue full ends the loop.
RetryPendingRemoves ==
  \E visited \in SUBSET fwPending :
    LET wanted == Enforced(list)
        free   == QueueCap - Len(queue)
        sent   == visited \ wanted
    IN  /\ Cardinality(sent) <= free
        /\ visited # fwPending =>
             Cardinality(sent) = free /\ (fwPending \ visited) \ wanted # {}
        /\ \E order \in SetToSeqs(sent) :
             queue' = queue \o [i \in DOMAIN order |-> [op |-> "remove", ip |-> order[i]]]
        /\ fwPending' = fwPending \ visited

ExpireRetry ==
  /\ ticker.at \in {"retry", "save"}
  /\ RetryPendingRemoves
  /\ ticker' = Idle
  /\ UNCHANGED <<guarded, worker, rules, config, actor, ops, ghosts>>

-----------------------------------------------------------------------------
(* firewallWorker: one operation at a time.                                 *)

\* The worker receives the next operation.
TakeOp ==
  /\ worker = Idle /\ queue # <<>>
  /\ worker' = [at  |-> IF Head(queue).op = "remove" THEN "check" ELSE "block",
                ips |-> {Head(queue).ip}]
  /\ queue' = Tail(queue)
  /\ UNCHANGED <<guarded, fwPending, rules, config, actor, ticker, ops, ghosts>>

\* Mutant: a removal does not look whether the address is blocked again.
RuleWantedUnchecked ==
  /\ worker.at = "check"
  /\ worker' = [worker EXCEPT !.at = "unlock"]
  /\ UNCHANGED <<guarded, queue, fwPending, rules, config, actor, ticker, ops, ghosts>>

\* ruleWanted: a removal whose address is blocked again is dropped.
RuleWanted ==
  /\ worker.at = "check"
  /\ worker' = IF worker.ips \subseteq Enforced(list) THEN Idle
               ELSE [worker EXCEPT !.at = "unlock"]
  /\ UNCHANGED <<guarded, queue, fwPending, rules, config, actor, ticker, ops, ghosts>>

\* fwUnlock, which may fail: the failure is only logged.
FwUnlock(ok) ==
  /\ worker.at = "unlock"
  /\ rules' = IF ok THEN rules \ worker.ips ELSE rules
  /\ lost' = (lost \/ ~ok)
  /\ worker' = Idle
  /\ UNCHANGED <<guarded, queue, fwPending, config, actor, ticker, ops, raced>>

\* fwBlock, which may fail: the block then stays memory-only.
FwBlock(ok) ==
  /\ worker.at = "block"
  /\ rules' = IF ok THEN rules \cup worker.ips ELSE rules
  /\ worker' = IF ok THEN [worker EXCEPT !.at = "flag"] ELSE Idle
  /\ UNCHANGED <<guarded, queue, fwPending, config, actor, ticker, ops, ghosts>>

\* e.Firewall = true on whatever entry the address has by now; no save.
SetFirewallFlag ==
  /\ worker.at = "flag"
  /\ list' = [list EXCEPT !.fw = @ \cup (worker.ips \cap list.blocked)]
  /\ worker' = Idle
  /\ UNCHANGED <<view, queue, fwPending, rules, config, actor, ticker, ops, ghosts>>

\* A block's ExpiresAt passes.
Lapse(a) ==
  /\ a \in list.blocked \ list.lapsed
  /\ list' = [list EXCEPT !.lapsed = @ \cup {a}]
  /\ UNCHANGED <<view, firewall, config, actor, ticker, ops, ghosts>>

-----------------------------------------------------------------------------
ActorStep(p) == Apply(p) \/ QueueAdd(p) \/ LiftSafeBlocks(p) \/ ActorRemove(p) \/ RequestSave(p)

Request(p) ==
  \/ \E a \in Addrs : Trip(p, a) \/ Block(p, a) \/ Unblock(p, a)
  \/ \E nets \in SUBSET Addrs : SetWhitelist(p, nets)
  \/ \E on \in BOOLEAN : SetFirewallSync(p, on)

TickerStep == Expire \/ ExpireRemove \/ ExpireRetry

WorkerStep ==
  \/ TakeOp \/ RuleWanted \/ SetFirewallFlag
  \/ \E ok \in BOOLEAN : FwUnlock(ok) \/ FwBlock(ok)

Next ==
  \/ \E p \in Actors : Request(p) \/ ActorStep(p)
  \/ TickerStep \/ WorkerStep
  \/ \E a \in Addrs : Lapse(a)

\* Goroutines run and the ticker fires; requests and lapses are the
\* environment's.
Fairness ==
  /\ \A p \in Actors : WF_vars(ActorStep(p))
  /\ WF_vars(TickerStep) /\ WF_vars(WorkerStep)

Spec == Init /\ [][Next]_vars /\ Fairness

-----------------------------------------------------------------------------
(* Properties *)

\* No goroutine is between the change it made and the operations it owes.
Settled ==
  /\ \A p \in Actors : actor[p] = Idle
  /\ ticker = Idle /\ queue = <<>> /\ worker = Idle /\ fwPending = {}

\* What Accept refuses is exactly the enforced part of the block list: the view
\* viewAdd, viewDel and publish maintain never drifts from b.blocked.
ViewIsEnforced == view = Enforced(list)

\* "removing now would leave a live block with no kernel rule": a block whose
\* rule was installed keeps it, though removals for the same address may still
\* be queued from earlier blocks.
FlaggedBlockHasRule == ~lost => list.fw \cap Enforced(list) \subseteq rules

\* The only way a rule outlives its block while the process runs is an add that
\* was queued after the block had been lifted.
RuleOutlivesOnlyByRace == Settled /\ ~lost => rules \ list.blocked \subseteq raced

\* A rule whose block is gone is removed in the end, unless the address is
\* blocked again, however often the bounded queue was full in between.
LiftedRuleGoes ==
  \A a \in Addrs :
    a \in rules \ list.blocked ~> a \notin rules \/ a \in list.blocked \cup raced \/ lost
=============================================================================
