--------------------------- MODULE AutoBlockState ---------------------------
(***************************************************************************)
(* internal/autoblock with its state file: the save requests that          *)
(* AutoBlock's operations end with, saveWorker, and what a process that    *)
(* starts again makes of the file (load).  The ufw rules survive a         *)
(* restart; the queue and the parked removals do not.                      *)
(***************************************************************************)
EXTENDS AutoBlock

CONSTANT MaxBoots  \* bound: restarts

ASSUME MaxBootsAssumption == MaxBoots \in Nat

VARIABLES
  saveOnce,   \* b.saveOnce holds a token
  dirty,      \* saveWorker's local flag
  saving,     \* the copy of the list that save is writing, if any
  disk,       \* the state file
  boots,      \* counts against MaxBoots
  unsaved     \* history: a write of the file failed

stateVars == <<saveOnce, dirty, saving, disk, boots, unsaved>>
allVars == <<vars, stateVars>>

NoCopy == <<>>

StateTypeOK ==
  /\ TypeOK
  /\ disk \in ListType
  /\ saving # NoCopy => saving[1] \in ListType /\ dirty
  /\ saveOnce \in BOOLEAN /\ dirty \in BOOLEAN /\ unsaved \in BOOLEAN
  /\ boots \in 0..MaxBoots

StateInit ==
  /\ Init
  /\ saveOnce = FALSE /\ dirty = FALSE /\ saving = NoCopy /\ disk = EmptyList
  /\ boots = 0 /\ unsaved = FALSE

-----------------------------------------------------------------------------
\* The steps of AutoBlock that end in requestSave.
SaveRequested ==
  \/ \E p \in Actors : actor[p].at = "save" /\ actor'[p] = Idle
  \/ ticker.at = "save" /\ ticker' = Idle

\* requestSave: the channel holds one token; a second request is dropped.
ListStep ==
  /\ Next
  /\ saveOnce' = (saveOnce \/ SaveRequested)
  /\ UNCHANGED <<dirty, saving, disk, boots, unsaved>>

\* saveWorker takes the token, unless it is in the middle of a save.
SaveTake ==
  /\ saveOnce /\ saving = NoCopy
  /\ saveOnce' = FALSE /\ dirty' = TRUE
  /\ UNCHANGED <<vars, saving, disk, boots, unsaved>>

\* Mutant: saveWorker clears dirty before it saves, not after, so that a write
\* in progress looks like a saved list.
SaveCopyClean ==
  /\ dirty /\ saving = NoCopy
  /\ saving' = <<list>> /\ dirty' = FALSE
  /\ UNCHANGED <<vars, saveOnce, disk, boots, unsaved>>

\* save, to its unlock: a copy of the list.
SaveCopy ==
  /\ dirty /\ saving = NoCopy
  /\ saving' = <<list>>
  /\ UNCHANGED <<vars, saveOnce, dirty, disk, boots, unsaved>>

\* Mutant: a request that came in during the write counts as served by it.
SaveWriteDropsRequest(ok) ==
  /\ saving # NoCopy
  /\ disk' = IF ok THEN saving[1] ELSE disk
  /\ unsaved' = (unsaved \/ ~ok)
  /\ dirty' = FALSE /\ saving' = NoCopy /\ saveOnce' = FALSE
  /\ UNCHANGED <<vars, boots>>

\* The rest of save: write a temporary file and rename it.  saveWorker clears
\* dirty whether or not that succeeded.
SaveWrite(ok) ==
  /\ saving # NoCopy
  /\ disk' = IF ok THEN saving[1] ELSE disk
  /\ unsaved' = (unsaved \/ ~ok)
  /\ dirty' = FALSE /\ saving' = NoCopy
  /\ UNCHANGED <<vars, saveOnce, boots>>

-----------------------------------------------------------------------------
\* What the next process reads.  After a clean stop saveWorker has finished the
\* save it was in and written what was pending; after a crash, or a save that
\* fails on the way out, the file is as it was.
StoppedFile ==
  IF saveOnce \/ (dirty /\ saving = NoCopy) THEN list
  ELSE IF saving # NoCopy THEN saving[1] ELSE disk
CrashedFile == disk

\* salvagePersisted: of a torn file some blocks parse and the history after
\* them does not, or both do.
SalvagedFiles ==
  {disk} \cup {[DelEntries(disk, s) EXCEPT !.history = {}] : s \in SUBSET disk.blocked}

\* Mutant: the restored list is enforced without looking at dry_run.
LoadEnforcesAll(file, gone) ==
  /\ list' = DelEntries(file, gone)
  /\ view' = file.blocked \ gone
  /\ fwPending' = (gone \cap file.fw) \ file.dry

\* load: lapsed and whitelisted blocks are not restored, and the removal of a
\* rule the file knows of is parked for expire.
Load(file, gone) ==
  /\ list' = DelEntries(file, gone)
  /\ view' = Enforced(DelEntries(file, gone))
  /\ fwPending' = (gone \cap file.fw) \ file.dry

\* The process ends, time passes (some blocks lapse), and it starts again with
\* the configuration it finds.  A salvaged file is written anew at once.
RestartFrom(file, repair) ==
  /\ boots < MaxBoots /\ boots' = boots + 1
  /\ \E c \in BootConfigs : safe' = c.safe /\ fwOn' = c.fwOn /\ dryRun' = c.dryRun
  /\ \E lapsed \in SUBSET file.blocked :
       Load(file, file.lapsed \cup lapsed \cup (file.blocked \cap safe'))
  /\ disk' = IF repair THEN list' ELSE file
  /\ queue' = <<>> /\ worker' = Idle /\ saveOnce' = FALSE /\ dirty' = FALSE
  /\ saving' = NoCopy
  /\ actor' = [p \in Actors |-> Idle] /\ ticker' = Idle
  /\ lost' = TRUE
  /\ UNCHANGED <<rules, ops, raced, unsaved>>

Restart == RestartFrom(StoppedFile, FALSE)
CrashAndRestart == RestartFrom(CrashedFile, FALSE)
SalvageAndRestart == \E file \in SalvagedFiles : RestartFrom(file, file.blocked \cup file.history # {})

-----------------------------------------------------------------------------
StateNext ==
  \/ ListStep
  \/ SaveTake \/ SaveCopy \/ \E ok \in BOOLEAN : SaveWrite(ok)
  \/ Restart \/ CrashAndRestart \/ SalvageAndRestart

\* saveWorker runs and its ticker fires.
StateFairness ==
  /\ WF_allVars(SaveTake) /\ WF_allVars(SaveCopy)
  /\ WF_allVars(\E ok \in BOOLEAN : SaveWrite(ok))

StateSpec == StateInit /\ [][StateNext]_allVars /\ StateFairness

-----------------------------------------------------------------------------
(* Properties *)

\* What Accept refuses is exactly the enforced part of the block list, after
\* load and publish as after viewAdd and viewDel.
RestoredViewIsEnforced == ViewIsEnforced

\* However save requests coalesce, the file catches up with the list: once
\* nothing is owed it holds every block and every escalation history, and
\* before the first restart no block that is gone.  (It may hold more history:
\* Unblock of an address that is no longer blocked forgets the history and
\* asks for no save.)
FileCatchesUp ==
  (\A p \in Actors : actor[p] = Idle) /\ ticker = Idle /\ ~saveOnce /\ ~dirty /\ ~unsaved
    => /\ list.blocked \subseteq disk.blocked /\ list.dry \subseteq disk.dry
       /\ list.history \subseteq disk.history
       /\ boots = 0 => disk.blocked \subseteq list.blocked

\* "Its kernel rule is still installed and nothing else knows about it any
\* more, so park the removal for expire to deliver": a block of the file that a
\* restart does not restore, though its rule is installed, is parked; stated
\* of a process that stopped with nothing left to do.
LapsedRuleParked ==
  [][boots' > boots /\ Settled /\ ~saveOnce /\ ~dirty =>
       ((disk'.blocked \ disk'.dry) \ list'.blocked) \cap rules' \subseteq fwPending']_allVars
=============================================================================
