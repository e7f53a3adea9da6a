---------------------------- MODULE CertIssuance ----------------------------
(***************************************************************************)
(* internal/tls: how the certificate of one auto-SSL host is obtained and  *)
(* kept.  Callers (a handshake, the start-up pass, the renewal pass, Force *)
(* Renew) share an ACME order through a singleflight group; the order runs *)
(* on its own, stores the certificate in m.certs and saves it in the       *)
(* directory of the host, where a crash may leave the two files of         *)
(* different certificates.                                                 *)
(*                                                                         *)
(* Names, chains, expiry and the allowlist are left out: any certificate   *)
(* may be due for renewal.  A number stands for a certificate and its key. *)
(***************************************************************************)
EXTENDS Naturals

CONSTANTS Callers,
          MaxCerts,    \* bound: certificates issued or loaded
          MaxGroups,   \* bound: singleflight groups created
          MaxFaults    \* bound: crashes and failed renames; other failures are not counted

ASSUME CertIssuanceAssumption ==
    MaxCerts \in Nat /\ MaxGroups \in Nat /\ MaxFaults \in Nat

VARIABLES mem,         \* m.certs[host], 0 when absent
          caller,      \* caller -> [pc, group, force]
          group,       \* m.obtainFlight[host], 0 when absent
          groups,      \* groups created
          flight,      \* group -> the order it runs
          disk,        \* the host's directory
          issued,      \* certificates made so far
          faults,
          frail        \* history: a save began over a broken pair, or beside another save,
                       \* or could not keep the pair it replaces

certVars == <<mem, caller, group, groups, flight, disk, issued, faults, frail>>

Certs   == 0 .. MaxCerts
Groups  == 1 .. MaxGroups
NoCert  == 0
NoCall  == [pc |-> "idle", group |-> 0, force |-> FALSE]
NoFlight == [pc |-> "none", force |-> FALSE, id |-> 0]
SavePCs == {"link", "linkKey", "link2", "linkCert", "key", "cert", "unlink", "meta"}
NoFiles == [key |-> 0, cert |-> 0, prevKey |-> 0, prevCert |-> 0, meta |-> FALSE]

CertInit ==
    /\ mem = NoCert
    /\ caller = [c \in Callers |-> NoCall]
    /\ group = 0 /\ groups = 0 /\ flight = [g \in Groups |-> NoFlight]
    /\ disk = NoFiles /\ issued = 0 /\ faults = 0 /\ frail = FALSE

-----------------------------------------------------------------------------
(* Helpers *)

NextCert  == issued + 1
Issue  == issued < MaxCerts /\ issued' = NextCert
Intact == disk.key # 0 /\ disk.key = disk.cert

\* CertStorage.Load: the pair, or the previous pair; 0 when neither parses
Loaded ==
    IF Intact THEN disk.key
    ELSE IF disk.cert # 0 /\ disk.key # 0 /\ disk.prevKey # 0 /\ disk.prevKey = disk.prevCert
    THEN disk.prevKey
    ELSE 0

Saving == {g \in Groups : flight[g].pc \in SavePCs}

\* The order is over: its group leaves the map, and its callers get the result.
EndFlight(g) ==
    /\ flight' = [flight EXCEPT ![g] = NoFlight]
    /\ group' = IF group = g THEN 0 ELSE group
    /\ caller' = [c \in Callers |->
                    IF caller[c].pc = "wait" /\ caller[c].group = g THEN NoCall ELSE caller[c]]

ToStep(g, pc) ==
    /\ flight' = [flight EXCEPT ![g].pc = pc]
    /\ UNCHANGED <<group, caller>>

-----------------------------------------------------------------------------
(* Callers: issueCert and doIssue *)

\* LoadOrStore.  GetCertificate and ObtainCerts ask only for a missing
\* certificate; RenewCert and the renewal pass force an order, and ask again
\* when the order they shared was answered from m.certs.
AskCert(c, force) ==
    /\ caller[c] = NoCall
    /\ ~force => mem = NoCert
    /\ IF group # 0 THEN UNCHANGED <<group, groups>>
       ELSE /\ groups < MaxGroups /\ groups' = groups + 1
            /\ group' = groups + 1
    /\ caller' = [caller EXCEPT ![c] = [pc |-> "got", group |-> group', force |-> force]]
    /\ UNCHANGED <<mem, flight, disk, issued, faults, frail>>

\* DoChan: join the order of the group, or start one.
DoIssue(c) ==
    /\ caller[c].pc = "got"
    /\ caller' = [caller EXCEPT ![c].pc = "wait"]
    /\ flight' = IF flight[caller[c].group] # NoFlight THEN flight
                 ELSE [flight EXCEPT ![caller[c].group] =
                         [pc |-> "order", force |-> caller[c].force, id |-> 0]]
    /\ UNCHANGED <<mem, group, groups, disk, issued, faults, frail>>

\* The caller's context ends; the order goes on.
CallerLeaves(c) ==
    /\ caller[c].pc = "wait"
    /\ caller' = [caller EXCEPT ![c] = NoCall]
    /\ UNCHANGED <<mem, group, groups, flight, disk, issued, faults, frail>>

-----------------------------------------------------------------------------
(* The order: issueFlight *)

\* Answered from m.certs, or refused by the CA.
OrderEndsEarly(g) ==
    /\ flight[g].pc = "order"
    /\ EndFlight(g)
    /\ UNCHANGED <<mem, groups, disk, issued, faults, frail>>

\* The CA issues; the certificate is served at once.
OrderIssues(g) ==
    /\ flight[g].pc = "order"
    /\ flight[g].force \/ mem = NoCert
    /\ Issue
    /\ mem' = NextCert
    /\ flight' = [flight EXCEPT ![g].pc = "stored", ![g].id = NextCert]
    /\ UNCHANGED <<caller, group, groups, disk, faults, frail>>

\* Both files are staged before either is renamed.
SaveStages(g) ==
    /\ flight[g].pc = "stored"
    /\ \/ EndFlight(g) /\ UNCHANGED frail                      \* disk full
       \/ /\ ToStep(g, "link")
          /\ frail' = (frail \/ Saving # {} \/ (disk.cert # 0 /\ ~Intact))
    /\ UNCHANGED <<mem, groups, disk, issued, faults>>

\* linkPrev of the key, then, when that succeeds, of the certificate: a file
\* that is not there has no previous copy ...
NothingToKeep(g) ==
    /\ \/ flight[g].pc = "link" /\ disk.key = 0
       \/ flight[g].pc = "link2" /\ disk.cert = 0
    /\ ToStep(g, "key")
    /\ UNCHANGED <<mem, groups, disk, issued, faults, frail>>

\* ... the leftover of an earlier save goes, or cannot be removed ...
DropStale(g) ==
    /\ \/ /\ flight[g].pc = "link" /\ disk.key # 0
          /\ disk' \in {disk, [disk EXCEPT !.prevKey = 0]}
          /\ ToStep(g, "linkKey")
       \/ /\ flight[g].pc = "link2" /\ disk.cert # 0
          /\ disk' \in {disk, [disk EXCEPT !.prevCert = 0]}
          /\ ToStep(g, "linkCert")
    /\ UNCHANGED <<mem, groups, issued, faults, frail>>

\* Mutant: the previous certificate is not kept beside its key.
LinkPrevKeyOnly(g) ==
    /\ flight[g].pc = "linkKey" /\ disk.prevKey = 0
    /\ disk' = [disk EXCEPT !.prevKey = disk.key]
    /\ ToStep(g, "key")
    /\ UNCHANGED <<mem, groups, issued, faults, frail>>

\* ... and the file gets its second name, which must be free.
LinkPrev(g) ==
    /\ \/ /\ flight[g].pc = "linkKey" /\ disk.prevKey = 0
          /\ disk' = [disk EXCEPT !.prevKey = disk.key]
          /\ ToStep(g, "link2")
       \/ /\ flight[g].pc = "linkCert" /\ disk.prevCert = 0
          /\ disk' = [disk EXCEPT !.prevCert = disk.cert]
          /\ ToStep(g, "key")
    /\ UNCHANGED <<mem, groups, issued, faults, frail>>

\* The link fails, and Save goes on without it.
LinkFails(g) ==
    /\ flight[g].pc \in {"linkKey", "linkCert"}
    /\ frail' = TRUE
    /\ ToStep(g, "key")
    /\ UNCHANGED <<mem, groups, disk, issued, faults>>

RenameKey(g) ==
    /\ flight[g].pc = "key"
    /\ disk' = [disk EXCEPT !.key = flight[g].id]
    /\ ToStep(g, "cert")
    /\ UNCHANGED <<mem, groups, issued, faults, frail>>

RenameCert(g) ==
    /\ flight[g].pc = "cert"
    /\ disk' = [disk EXCEPT !.cert = flight[g].id]
    /\ ToStep(g, "unlink")
    /\ UNCHANGED <<mem, groups, issued, faults, frail>>

\* A save that ends alone over an intact pair ends the frailty.
Steadied(g) == frail' = (frail /\ (Saving # {g} \/ ~Intact))

\* A rename fails: Save returns, the files stay as they are.
RenameFails(g) ==
    /\ flight[g].pc \in {"key", "cert"} /\ faults < MaxFaults
    /\ faults' = faults + 1
    /\ EndFlight(g)
    /\ Steadied(g)
    /\ UNCHANGED <<mem, groups, disk, issued>>

\* Either previous file may stay behind: os.Remove's errors are ignored.
DropPrev(g) ==
    /\ flight[g].pc = "unlink"
    /\ \E keptKey \in {0, disk.prevKey}, keptCert \in {0, disk.prevCert} :
         disk' = [disk EXCEPT !.prevKey = keptKey, !.prevCert = keptCert]
    /\ ToStep(g, "meta")
    /\ UNCHANGED <<mem, groups, issued, faults, frail>>

\* meta.json, or its write fails.
WriteMeta(g) ==
    /\ flight[g].pc = "meta"
    /\ disk' \in {disk, [disk EXCEPT !.meta = TRUE]}
    /\ EndFlight(g)
    /\ Steadied(g)
    /\ UNCHANGED <<mem, groups, issued, faults>>

-----------------------------------------------------------------------------

\* The process dies; LoadExistingCerts reads the directory at the next start.
\* A pair without meta.json is not loaded.
CertRestart ==
    /\ faults < MaxFaults /\ faults' = faults + 1
    /\ mem' = IF disk.meta THEN Loaded ELSE NoCert
    /\ caller' = [c \in Callers |-> NoCall]
    /\ group' = 0 /\ flight' = [g \in Groups |-> NoFlight]
    /\ frail' = (frail /\ ~Intact)
    /\ UNCHANGED <<groups, disk, issued>>

CertNext ==
    \/ \E c \in Callers : \/ \E force \in BOOLEAN : AskCert(c, force)
                          \/ DoIssue(c) \/ CallerLeaves(c)
    \/ \E g \in Groups : \/ OrderEndsEarly(g) \/ OrderIssues(g) \/ SaveStages(g)
                         \/ NothingToKeep(g) \/ DropStale(g) \/ LinkPrev(g) \/ LinkFails(g)
                         \/ RenameKey(g) \/ RenameCert(g) \/ RenameFails(g)
                         \/ DropPrev(g) \/ WriteMeta(g)
    \/ CertRestart

CertSpec == CertInit /\ [][CertNext]_certVars

-----------------------------------------------------------------------------
(* Properties *)

CertTypeOK ==
    /\ mem \in Certs
    /\ caller \in [Callers -> [pc : {"idle", "got", "wait"}, group : 0 .. MaxGroups, force : BOOLEAN]]
    /\ group \in 0 .. groups /\ groups \in 0 .. MaxGroups
    /\ flight \in [Groups -> [pc : {"none", "order", "stored"} \cup SavePCs, force : BOOLEAN, id : Certs]]
    /\ disk \in [key : Certs, cert : Certs, prevKey : Certs, prevCert : Certs, meta : BOOLEAN]
    /\ issued \in Certs /\ faults \in 0 .. MaxFaults /\ frail \in BOOLEAN

\* A certificate that reached the disk can be loaded at every instant: through
\* both renames of a save, a failed rename and a crash anywhere (Save and Load,
\* storage.go:51, 185).  Not so, until a save ends or the process restarts with
\* both files of one certificate in place, when a save could not link the pair
\* it replaces, started over the leftovers of an interrupted one, or ran beside
\* another save of the host.
PairStaysLoadable == disk.cert # 0 /\ ~frail => Loaded # 0
=============================================================================
