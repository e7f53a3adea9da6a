---------------------------- MODULE DomainConfig ----------------------------
(***************************************************************************)
(* The domain configuration: the config.Config that the admin API and the  *)
(* server share, the file per domain under domains.d, and the subsystems   *)
(* that each hold a copy (router, guards, TLS, proxy pools...).            *)
(*                                                                         *)
(* configMu guards the shared config, persistMu the saving of it.  An admin *)
(* handler changes the config under configMu and unlocks; only then does it *)
(* bring the subsystems up to date from a copy (onDomainChange) and save    *)
(* (persistConfig, under persistMu).  reload holds both locks from reading  *)
(* the files to publishing them.  removeDomainFile and the raw editor touch *)
(* the files without persistMu.                                            *)
(***************************************************************************)
EXTENDS Naturals, Sequences, FiniteSets

CONSTANTS
  Hosts,       \* hostnames
  Values,      \* settings a domain may have
  Absent,      \* no such domain
  Boot,        \* the configuration the process starts with
  Subsystems,  \* what onDomainChange and reload update, in the order both keep
  Procs,       \* goroutines of the admin API and of reload
  MaxOps       \* bound: requests and reloads

Configs == [Hosts -> Values \cup {Absent}]
Nobody == "nobody"
Layers == {Subsystems[i] : i \in 1..Len(Subsystems)}

ASSUME ConfigAssumption ==
  /\ Absent \notin Values
  /\ Hosts # {} /\ Boot \in Configs
  /\ Nobody \notin Procs
  /\ Subsystems \in Seq(Layers) /\ Len(Subsystems) > 0
  /\ MaxOps \in Nat

VARIABLES
  config,     \* *s.config, the Domains part
  files,      \* the domain files
  live,       \* what each subsystem works with
  persistMu,  \* who holds it
  pc,         \* where each goroutine is
  ops,        \* counts against MaxOps
  overlap,    \* history: the latest copy was taken while an older was being applied
  stray,      \* history: hosts whose file may outlive them
  failed      \* history: a write or a reload failed

vars == <<config, files, live, persistMu, pc, ops, overlap, stray, failed>>

Places == {"idle", "remove", "notify", "apply", "persist", "write",
           "reload", "load", "reapply", "restore"}

\* host, prev: the domain a handler is about, and the raw editor's copy of its
\* file; raw: the reload is the raw editor's; snap: the copy being applied or
\* saved; next: the subsystem it is to reach next; todo: files yet to write.
PcType == [at : Places, host : Hosts, prev : Values \cup {Absent}, raw : BOOLEAN,
           snap : Configs, next : 1..Len(Subsystems) + 1, todo : SUBSET Hosts]

Idle == [at |-> "idle", host |-> CHOOSE h \in Hosts : TRUE, prev |-> Absent, raw |-> FALSE,
         snap |-> Boot, next |-> 1, todo |-> {}]

TypeOK ==
  /\ config \in Configs /\ files \in Configs
  /\ live \in [Layers -> Configs]
  /\ persistMu \in Procs \cup {Nobody}
  /\ pc \in [Procs -> PcType]
  /\ \A p \in Procs : pc[p].at \in {"write", "load", "reapply"} <=> persistMu = p
  /\ ops \in 0..MaxOps
  /\ overlap \in BOOLEAN /\ stray \subseteq Hosts /\ failed \in BOOLEAN

Init ==
  /\ config = Boot /\ files = Boot /\ live = [s \in Layers |-> Boot]
  /\ persistMu = Nobody
  /\ pc = [p \in Procs |-> Idle]
  /\ ops = 0 /\ overlap = FALSE /\ stray = {} /\ failed = FALSE

\* reload holds configMu while it applies what it has loaded.
ConfigLocked == \E p \in Procs : pc[p].at = "reapply"

Applying(p) == \E q \in Procs \ {p} : pc[q].at \in {"apply", "reapply"}

Start(p, place) ==
  /\ pc[p].at = "idle" /\ ops < MaxOps
  /\ ops' = ops + 1
  /\ pc' = [pc EXCEPT ![p] = place]

-----------------------------------------------------------------------------
(* Add, Update and Delete of the domain handler *)

\* Add, and Update of a domain that keeps its name, to UnlockConfig.
Put(p, h, v) ==
  /\ ~ConfigLocked
  /\ config' = [config EXCEPT ![h] = v]
  /\ Start(p, [Idle EXCEPT !.at = "notify", !.host = h])
  /\ UNCHANGED <<files, live, persistMu, overlap, stray, failed>>

\* Update that gives domain g the free hostname h; the file under the old name
\* is nobody's to remove.
Rename(p, g, h, v) ==
  /\ ~ConfigLocked
  /\ config[g] # Absent /\ config[h] = Absent
  /\ config' = [config EXCEPT ![g] = Absent, ![h] = v]
  /\ stray' = stray \cup {g}
  /\ Start(p, [Idle EXCEPT !.at = "notify", !.host = h])
  /\ UNCHANGED <<files, live, persistMu, overlap, failed>>

\* Delete, to UnlockConfig.
Delete(p, h) ==
  /\ ~ConfigLocked
  /\ config[h] # Absent
  /\ config' = [config EXCEPT ![h] = Absent]
  /\ Start(p, [Idle EXCEPT !.at = "remove", !.host = h])
  /\ UNCHANGED <<files, live, persistMu, overlap, stray, failed>>

\* Mutant: a deleted domain's file is left to the next save.
RemoveDomainFileSkipped(p, ok) ==
  /\ pc[p].at = "remove"
  /\ pc' = [pc EXCEPT ![p].at = "notify"]
  /\ UNCHANGED <<config, files, live, persistMu, ops, overlap, stray, failed>>

\* removeDomainFile: no lock is held; that os.Remove fails goes unnoticed.
RemoveDomainFile(p, ok) ==
  /\ pc[p].at = "remove"
  /\ files' = IF ok THEN [files EXCEPT ![pc[p].host] = Absent] ELSE files
  /\ stray' = IF ok THEN stray ELSE stray \cup {pc[p].host}
  /\ pc' = [pc EXCEPT ![p].at = "notify"]
  /\ UNCHANGED <<config, live, persistMu, ops, overlap, failed>>

\* Mutant: the handler applies its own request instead of the shared config.
OnDomainChangeOwn(p) ==
  /\ pc[p].at = "notify" /\ ~ConfigLocked
  /\ pc' = [pc EXCEPT ![p].at = "apply", ![p].snap = [Boot EXCEPT ![pc[p].host] = config[pc[p].host]],
                      ![p].next = 1]
  /\ overlap' = Applying(p)
  /\ UNCHANGED <<config, files, live, persistMu, ops, stray, failed>>

\* onDomainChange copies the domains under the read lock...
OnDomainChange(p) ==
  /\ pc[p].at = "notify" /\ ~ConfigLocked
  /\ pc' = [pc EXCEPT ![p].at = "apply", ![p].snap = config, ![p].next = 1]
  /\ overlap' = Applying(p)
  /\ UNCHANGED <<config, files, live, persistMu, ops, stray, failed>>

\* ...and hands the copy to one subsystem after the other.
Apply(p) ==
  /\ pc[p].at = "apply"
  /\ live' = [live EXCEPT ![Subsystems[pc[p].next]] = pc[p].snap]
  /\ pc' = [pc EXCEPT ![p].next = @ + 1,
                      ![p].at = IF pc[p].next = Len(Subsystems) THEN "persist" ELSE "apply"]
  /\ UNCHANGED <<config, files, persistMu, ops, overlap, stray, failed>>

-----------------------------------------------------------------------------
(* persistConfig *)

\* Takes persistMu and copies the config.
PersistConfig(p) ==
  /\ pc[p].at = "persist" /\ persistMu = Nobody
  /\ persistMu' = p
  /\ pc' = [pc EXCEPT ![p].at = "write", ![p].snap = config,
                      ![p].todo = {h \in Hosts : config[h] # Absent}]
  /\ UNCHANGED <<config, files, live, ops, overlap, stray, failed>>

\* Writes one domain file; persistConfig never removes one.
WriteDomainFile(p, h, ok) ==
  /\ pc[p].at = "write" /\ h \in pc[p].todo
  /\ files' = IF ok THEN [files EXCEPT ![h] = pc[p].snap[h]] ELSE files
  /\ failed' = (failed \/ ~ok)
  /\ stray' = IF ok /\ config[h] = Absent THEN stray \cup {h} ELSE stray
  /\ pc' = [pc EXCEPT ![p].todo = @ \ {h}]
  /\ UNCHANGED <<config, live, persistMu, ops, overlap>>

PersistDone(p) ==
  /\ pc[p].at = "write" /\ pc[p].todo = {}
  /\ persistMu' = Nobody
  /\ pc' = [pc EXCEPT ![p] = Idle]
  /\ UNCHANGED <<config, files, live, ops, overlap, stray, failed>>

-----------------------------------------------------------------------------
(* reload, and the raw editor that writes a domain file and reloads *)

\* SIGHUP, or the reload endpoint.
RequestReload(p) ==
  /\ Start(p, [Idle EXCEPT !.at = "reload"])
  /\ UNCHANGED <<config, files, live, persistMu, overlap, stray, failed>>

\* RawPut: the file is written before, and without, any lock.
RawPut(p, h, v) ==
  /\ files' = [files EXCEPT ![h] = v]
  /\ Start(p, [Idle EXCEPT !.at = "reload", !.host = h, !.prev = files[h], !.raw = TRUE])
  /\ UNCHANGED <<config, live, persistMu, overlap, stray, failed>>

\* reload waits for persistMu and then for configMu.
LockForReload(p) ==
  /\ pc[p].at = "reload" /\ persistMu = Nobody
  /\ persistMu' = p
  /\ pc' = [pc EXCEPT ![p].at = "load"]
  /\ UNCHANGED <<config, files, live, ops, overlap, stray, failed>>

\* config.Load under both locks.
Load(p) ==
  /\ pc[p].at = "load"
  /\ pc' = [pc EXCEPT ![p].at = "reapply", ![p].next = 1, ![p].snap = files]
  /\ overlap' = Applying(p)
  /\ UNCHANGED <<config, files, live, persistMu, ops, stray, failed>>

\* config.Load refuses the files: nothing is applied, both locks are released.
LoadFails(p) ==
  /\ pc[p].at = "load"
  /\ persistMu' = Nobody
  /\ failed' = TRUE
  /\ pc' = [pc EXCEPT ![p] = IF @.raw THEN [@ EXCEPT !.at = "restore"] ELSE Idle]
  /\ UNCHANGED <<config, files, live, ops, overlap, stray>>

Reapply(p) ==
  /\ pc[p].at = "reapply" /\ pc[p].next <= Len(Subsystems)
  /\ live' = [live EXCEPT ![Subsystems[pc[p].next]] = pc[p].snap]
  /\ pc' = [pc EXCEPT ![p].next = @ + 1]
  /\ UNCHANGED <<config, files, persistMu, ops, overlap, stray, failed>>

\* Mutant: a successful reload forgets to release persistMu.
PublishKeepsLock(p) ==
  /\ pc[p].at = "reapply" /\ pc[p].next > Len(Subsystems)
  /\ config' = pc[p].snap
  /\ pc' = [pc EXCEPT ![p] = Idle]
  /\ UNCHANGED <<files, live, persistMu, ops, overlap, stray, failed>>

\* *s.config = *newCfg, and both unlocks.
Publish(p) ==
  /\ pc[p].at = "reapply" /\ pc[p].next > Len(Subsystems)
  /\ config' = pc[p].snap
  /\ persistMu' = Nobody
  /\ pc' = [pc EXCEPT ![p] = Idle]
  /\ UNCHANGED <<files, live, ops, overlap, stray, failed>>

\* RawPut puts the previous file back (or removes the new one).
RestoreFile(p) ==
  /\ pc[p].at = "restore"
  /\ files' = [files EXCEPT ![pc[p].host] = pc[p].prev]
  /\ pc' = [pc EXCEPT ![p] = Idle]
  /\ UNCHANGED <<config, live, persistMu, ops, overlap, stray, failed>>

-----------------------------------------------------------------------------
Request(p) ==
  \/ \E h \in Hosts, v \in Values : Put(p, h, v) \/ RawPut(p, h, v)
  \/ \E g, h \in Hosts, v \in Values : Rename(p, g, h, v)
  \/ \E h \in Hosts : Delete(p, h)
  \/ RequestReload(p)

Step(p) ==
  \/ \E ok \in BOOLEAN : RemoveDomainFile(p, ok)
  \/ OnDomainChange(p) \/ Apply(p) \/ PersistConfig(p) \/ PersistDone(p)
  \/ \E h \in Hosts, ok \in BOOLEAN : WriteDomainFile(p, h, ok)
  \/ LockForReload(p) \/ Load(p) \/ LoadFails(p) \/ Reapply(p) \/ Publish(p) \/ RestoreFile(p)

Next == \E p \in Procs : Request(p) \/ Step(p)

\* Every goroutine that can go on does; one that waits for persistMu gets it,
\* as sync.Mutex does not starve.  Requests are the clients'.
Fairness == \A p \in Procs : SF_vars(Step(p))

Spec == Init /\ [][Next]_vars /\ Fairness

-----------------------------------------------------------------------------
(* Properties *)

Quiet == \A p \in Procs : pc[p].at = "idle"

\* When every change has been answered, the files say what the running server
\* believes, so that a restart changes nothing: two saves, or a save and a
\* reload, never mix.  All that a restart may bring back is a domain that is
\* gone: one that was renamed (the file under the old name stays), whose file
\* could not be removed, or that a save already under way wrote again.
FilesMatchConfig ==
  Quiet /\ ~failed =>
    \A h \in Hosts : files[h] = config[h] \/ (config[h] = Absent /\ h \in stray)

\* When every change has been answered, router, guards, TLS and pools all work
\* with the shared config, provided the last one to copy it was not overtaken
\* by an earlier copy.
LiveUnlessOvertaken == Quiet /\ ~overlap => \A s \in Layers : live[s] = config

\* "a reload cannot overwrite (or race) an admin write to the config both sides
\* share": what a handler has written and not yet saved survives a reload.
ReloadKeepsAdminWrites ==
  [][\A p, q \in Procs :
       Publish(p) /\ pc[q].at \in {"remove", "notify", "apply", "persist"}
         => config'[pc[q].host] = config[pc[q].host]]_vars

\* No request waits for ever: persistMu and configMu are always released, and
\* nobody takes them in the opposite order.
EveryRequestEnds == \A p \in Procs : pc[p].at # "idle" ~> pc[p].at = "idle"
=============================================================================
