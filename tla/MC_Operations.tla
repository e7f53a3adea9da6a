--------------------------- MODULE MC_Operations ---------------------------
(***************************************************************************)
(* Components that the administrator works with.  They share no state, so  *)
(* one run explores them one after the other: focus, chosen at the start,  *)
(* is the component that moves while the others stay at rest.              *)
(***************************************************************************)
EXTENDS Accounts, AppSupervisor, Backups, AppDeploy, Firewall, UptimeMonitor, TLC

VARIABLE focus

Focuses == {"accounts", "apps", "backups", "deploy", "firewall", "uptime"}

operationsVars == <<focus, accountVars, appVars, backupVars, deployVars, firewallVars, uptimeVars>>

\* A component at rest is in one of its initial states, always the same.
AtRest ==
  /\ focus # "apps" => kind = "native"
  /\ focus # "backups" => keepCount = 1
  /\ focus # "deploy" => serving = Down /\ workTree = [dir \in WorkDirs |-> 1]
  /\ focus # "firewall" => listening = Ports
  /\ focus # "uptime" => monitored = {}

OperationsInit ==
  /\ focus \in Focuses
  /\ AccountsInit /\ AppInit /\ BackupInit /\ DeployInit /\ FirewallInit /\ UptimeInit
  /\ AtRest

OperationsNext ==
  \/ /\ focus = "accounts" /\ AccountsNext
     /\ UNCHANGED <<focus, appVars, backupVars, deployVars, firewallVars, uptimeVars>>
  \/ /\ focus = "apps" /\ AppNext
     /\ UNCHANGED <<focus, accountVars, backupVars, deployVars, firewallVars, uptimeVars>>
  \/ /\ focus = "backups" /\ BackupNext
     /\ UNCHANGED <<focus, accountVars, appVars, deployVars, firewallVars, uptimeVars>>
  \/ /\ focus = "deploy" /\ DeployNext
     /\ UNCHANGED <<focus, accountVars, appVars, backupVars, firewallVars, uptimeVars>>
  \/ /\ focus = "firewall" /\ FirewallNext
     /\ UNCHANGED <<focus, accountVars, appVars, backupVars, deployVars, uptimeVars>>
  \/ /\ focus = "uptime" /\ UptimeNext
     /\ UNCHANGED <<focus, accountVars, appVars, backupVars, deployVars, firewallVars>>

OperationsSpec == OperationsInit /\ [][OperationsNext]_operationsVars

\* The component that moves keeps its types and its bounds.
OperationsTypeOK ==
  /\ focus = "accounts" => AccountsTypeOK
  /\ focus = "apps" => AppTypeOK
  /\ focus = "backups" => BackupTypeOK
  /\ focus = "deploy" => DeployTypeOK
  /\ focus = "firewall" => FirewallTypeOK
  /\ focus = "uptime" => UptimeTypeOK

\* The clients of accounts, the deployers, the backup jobs and the monitored
\* hosts are the same two values.
Symmetric == Permutations(Clients)
=============================================================================
