------------------------------ MODULE Backups ------------------------------
(***************************************************************************)
(* internal/backup: jobs that archive, upload and then apply the retention *)
(* count.  Nothing serialises them: a scheduled run, one the schedule that *)
(* replaced it starts, and manual ones overlap.  An archive is a number    *)
(* (they grow with the upload time, which List reports as Created), with   *)
(* whether it is a full or a one-domain backup and whether it is complete. *)
(***************************************************************************)
EXTENDS Naturals, FiniteSets

CONSTANTS Jobs,
          MaxKeep,      \* largest backup.keep
          MaxArchives   \* bound: archives uploaded

ASSUME BackupsAssumption == MaxKeep \in Nat \ {0} /\ MaxArchives \in Nat

VARIABLES store,      \* archives at the provider
          uploads,    \* archives uploaded so far
          job,        \* what each job is doing
          keepCount,  \* m.keepCount
          fewestKept, \* history: the smallest keepCount a retention pass used
          made,       \* history: every archive that was uploaded
          dropped     \* history: the archives the operator deleted

backupVars == <<store, uploads, job, keepCount, fewestKept, made, dropped>>
historyVars == <<fewestKept, made, dropped>>

Archive == [id : 1 .. MaxArchives, full : BOOLEAN, complete : BOOLEAN]
NoJob   == [pc |-> "idle"]

BackupInit ==
    /\ store = {} /\ uploads = 0
    /\ job = [j \in Jobs |-> NoJob]
    /\ keepCount \in 1 .. MaxKeep /\ fewestKept = MaxKeep
    /\ made = {} /\ dropped = {}

-----------------------------------------------------------------------------
(* Helpers *)

ToJob(j, state) == job' = [job EXCEPT ![j] = state]

\* Mutant: every archive the provider lists counts.
PastKeepOfAll(n) ==
    {a \in store : Cardinality({b \in store : b.id > a.id}) >= n}

\* pruneOld: the full backups past the newest n
PastKeep(n) ==
    LET fulls == {a \in store : a.full} IN
    {a \in fulls : Cardinality({b \in fulls : b.id > a.id}) >= n}

-----------------------------------------------------------------------------
(* Actions *)

\* CreateBackup or CreateDomainBackup; a scheduled run is a full one.
StartBackup(j, full) ==
    /\ job[j] = NoJob
    /\ ToJob(j, [pc |-> "archive", full |-> full])
    /\ UNCHANGED <<store, uploads, keepCount, historyVars>>

\* The archive is written to a temporary file.  A site root or a database dump
\* that fails leaves a full backup incomplete; other errors end the job.
ArchiveEnds(j) ==
    /\ job[j].pc = "archive"
    /\ \/ \E complete \in {TRUE, ~job[j].full} :
             ToJob(j, [pc |-> "upload", full |-> job[j].full, complete |-> complete])
       \/ ToJob(j, NoJob)
    /\ UNCHANGED <<store, uploads, keepCount, historyVars>>

\* The provider publishes the archive whole, or the job ends.  Only a complete
\* full backup is followed by retention.
UploadEnds(j) ==
    /\ job[j].pc = "upload"
    /\ \/ \E a \in Archive :
             /\ a = [id |-> uploads + 1, full |-> job[j].full, complete |-> job[j].complete]
             /\ uploads' = uploads + 1 /\ store' = store \cup {a} /\ made' = made \cup {a}
             /\ ToJob(j, IF a.full /\ a.complete THEN [pc |-> "prune"] ELSE NoJob)
       \/ ToJob(j, NoJob) /\ UNCHANGED <<store, uploads, made>>
    /\ UNCHANGED <<keepCount, fewestKept, dropped>>

\* pruneOld lists and sorts, or cannot list.
PruneLists(j) ==
    /\ job[j].pc = "prune"
    /\ \/ /\ ToJob(j, [pc |-> "delete", old |-> PastKeep(keepCount)])
          /\ fewestKept' = IF keepCount < fewestKept THEN keepCount ELSE fewestKept
       \/ ToJob(j, NoJob) /\ UNCHANGED fewestKept
    /\ UNCHANGED <<store, uploads, keepCount, made, dropped>>

\* One deletion after another; one that fails, as that of an archive that is gone
\* already, is skipped.
PruneDeletes(j) ==
    /\ job[j].pc = "delete"
    /\ IF job[j].old = {} THEN ToJob(j, NoJob) /\ UNCHANGED store
       ELSE \E a \in job[j].old :
              /\ \A b \in job[j].old : b.id <= a.id
              /\ ToJob(j, [job[j] EXCEPT !.old = @ \ {a}])
              /\ store' \in {store, store \ {a}}
    /\ UNCHANGED <<uploads, keepCount, historyVars>>

\* SetKeepCount, or Reconfigure on a reload
SetKeepCount(n) ==
    /\ keepCount # n /\ keepCount' = n
    /\ UNCHANGED <<store, uploads, job, historyVars>>

\* The operator deletes any archive, beside whatever jobs are doing.
DeleteBackup(a) ==
    /\ a \in store /\ store' = store \ {a} /\ dropped' = dropped \cup {a}
    /\ UNCHANGED <<uploads, job, keepCount, fewestKept, made>>

BackupNext ==
    \/ \E j \in Jobs : \/ \E full \in BOOLEAN : StartBackup(j, full)
                       \/ ArchiveEnds(j) \/ UploadEnds(j) \/ PruneLists(j) \/ PruneDeletes(j)
    \/ \E n \in 1 .. MaxKeep : SetKeepCount(n)
    \/ \E a \in store : DeleteBackup(a)

BackupSpec == BackupInit /\ [][BackupNext]_backupVars

-----------------------------------------------------------------------------
(* Properties *)

BackupTypeOK ==
    /\ store \subseteq Archive /\ uploads \in 0 .. MaxArchives
    /\ \A j \in Jobs : \/ job[j].pc \in {"idle", "prune"}
                       \/ job[j].pc = "archive" /\ job[j].full \in BOOLEAN
                       \/ job[j].pc = "upload" /\ job[j].complete \in BOOLEAN
                       \/ job[j].pc = "delete" /\ job[j].old \subseteq Archive
    /\ keepCount \in 1 .. MaxKeep /\ fewestKept \in 1 .. MaxKeep
    /\ made \subseteq Archive /\ dropped \subseteq Archive

\* However jobs overlap, with lists that are old when they delete from them,
\* however the count changes meanwhile and whatever the operator deletes beside
\* them: an archive that is gone and that the operator did not delete, and so was
\* taken by retention (pruneOld, backup.go:1141), is a full backup, never a
\* one-domain one, and older than as many full backups as the smallest count
\* retention was ever run with, each of them still there or deleted by the
\* operator.
NewestSurvive ==
    LET kept == store \cup dropped IN
    \A a \in made \ kept :
        a.full /\ Cardinality({b \in kept : b.full /\ b.id > a.id}) >= fewestKept
=============================================================================
