----------------------------- MODULE AppDeploy -----------------------------
(***************************************************************************)
(* Deployments of one application (internal/admin/deploy, with the app     *)
(* handlers of internal/admin/apps that run beside them).  A deploy holds  *)
(* the application's lock from its first git command to its report; the    *)
(* handlers that create, edit, delete, start and stop do not take it.      *)
(* A revision is a number; 0 is a work directory that is no git checkout.  *)
(* Of a definition only the work directory matters here.  The Disabled     *)
(* flag, ports, the deploy history, the last webhook status and the reload *)
(* that ends a successful deploy are left out.                             *)
(***************************************************************************)
EXTENDS Naturals

CONSTANTS Deployers,    \* deploy requests and webhook goroutines
          MaxRevs,      \* bound: revisions pushed
          MaxApps,      \* bound: applications created under the name
          MaxEdits,     \* bound: edits of definitions
          MaxDirs       \* bound: directories named as a work directory

ASSUME AppDeployAssumption ==
    /\ MaxRevs \in Nat \ {0} /\ MaxApps \in Nat \ {0}
    /\ MaxEdits \in Nat /\ MaxDirs \in Nat \ {0}

VARIABLES appDef,      \* work directory of the application, in the app store and in the
                       \* app manager alike, or NoApp
          created,     \* applications created so far
          edits,       \* edits so far
          remote,      \* newest revision at the git origin
          workTree,    \* revision checked out in each directory
          serving,     \* directory and revision the running process loaded, or Down
          lost,        \* the manager takes that process for stopped
          deployer,    \* what each deploy is doing
          deployLock   \* the deploy that holds the lock: a set

adminVars   == <<appDef, created, edits>>
processVars == <<serving, lost>>
deployVars  == <<adminVars, processVars, remote, workTree, deployer, deployLock>>

WorkDirs == 1 .. MaxDirs
NoApp    == 0
Down     == [dir |-> 0, rev |-> 0]
NoDeploy == [pc |-> "idle", webhook |-> FALSE, skipStart |-> FALSE, dir |-> NoApp,
             from |-> 0, sha |-> 0, ok |-> FALSE, rolledBack |-> FALSE, restart |-> FALSE]

DeployInit ==
    /\ appDef = 1 /\ created = 1 /\ edits = 0
    /\ remote = 1 /\ workTree \in [WorkDirs -> {0, 1}]
    /\ serving \in {Down, [dir |-> 1, rev |-> workTree[1]]} /\ lost = FALSE
    /\ deployer = [d \in Deployers |-> NoDeploy]
    /\ deployLock = {}

-----------------------------------------------------------------------------
(* Helpers *)

Become(d, state) == deployer' = [deployer EXCEPT ![d] = state]
Advance(d, pc)   == Become(d, [deployer[d] EXCEPT !.pc = pc])

\* Start: the process loads what its directory holds.  A container left over
\* from a stop that failed is removed first.
StartIn(dir) == serving' = [dir |-> dir, rev |-> workTree[dir]] /\ lost' = FALSE

\* Stop, whose result no caller looks at.  A "docker stop" that fails is only
\* logged: the container goes on, and the manager forgets it.
StopServing ==
    \/ serving' = Down /\ lost' = FALSE
    \/ serving # Down /\ UNCHANGED serving /\ lost' = TRUE

\* The end of a deploy that did not succeed: back to the commit it found, if
\* there was one.
Fail(d, restart) ==
    IF deployer[d].from = 0 THEN Advance(d, "report")
    ELSE Become(d, [deployer[d] EXCEPT !.pc = "rollback", !.restart = restart])

-----------------------------------------------------------------------------
(* The application's other handlers *)

Push ==
    /\ remote < MaxRevs /\ remote' = remote + 1
    /\ UNCHANGED <<adminVars, processVars, workTree, deployer, deployLock>>

\* Create: refused while the name is in the store.
CreateApp(dir) ==
    /\ appDef = NoApp /\ created < MaxApps /\ created' = created + 1
    /\ appDef' = dir
    /\ StartIn(dir) \/ UNCHANGED processVars
    /\ UNCHANGED <<edits, remote, workTree, deployer, deployLock>>

\* Update stops, re-registers and starts the application, which may be disabled
\* or not start.  A change of the deploy settings alone is only saved.
UpdateApp(dir) ==
    /\ appDef # NoApp /\ edits < MaxEdits /\ edits' = edits + 1
    /\ appDef' = dir
    /\ StartIn(dir) \/ StopServing
    /\ UNCHANGED <<created, remote, workTree, deployer, deployLock>>

\* Delete: Unregister stops the process and removes the file.
DeleteApp ==
    /\ appDef # NoApp /\ appDef' = NoApp /\ StopServing
    /\ UNCHANGED <<created, edits, remote, workTree, deployer, deployLock>>

\* Start, Restart and the supervisor's restart after a crash
StartApp ==
    /\ appDef # NoApp /\ StartIn(appDef)
    /\ UNCHANGED <<adminVars, remote, workTree, deployer, deployLock>>

\* Stop, or the process ends.
AppDown ==
    /\ serving # Down /\ StopServing
    /\ UNCHANGED <<adminVars, remote, workTree, deployer, deployLock>>

-----------------------------------------------------------------------------
(* A deploy *)

\* Deploy reads the definition, then queues for the lock.
RequestDeploy(d, skipStart) ==
    /\ deployer[d] = NoDeploy /\ appDef # NoApp
    /\ Become(d, [NoDeploy EXCEPT !.pc = "queued", !.dir = appDef, !.skipStart = skipStart])
    /\ UNCHANGED <<adminVars, remote, workTree, processVars, deployLock>>

\* An accepted push event runs in a goroutine of its own.
Webhook(d) ==
    /\ deployer[d] = NoDeploy /\ appDef # NoApp
    /\ Become(d, [NoDeploy EXCEPT !.pc = "queued", !.webhook = TRUE])
    /\ UNCHANGED <<adminVars, remote, workTree, processVars, deployLock>>

\* With the lock: a client that left gives up, a webhook reads the definition.
Begin(d) ==
    LET Found(dir) == [deployer[d] EXCEPT !.pc = "checkout", !.dir = dir, !.from = workTree[dir]]
    IN /\ IF deployer[d].webhook
          THEN IF appDef = NoApp THEN Advance(d, "report") ELSE Become(d, Found(appDef))
          ELSE Become(d, Found(deployer[d].dir))
       /\ deployLock' = deployLock \cup {d}
       /\ UNCHANGED <<adminVars, remote, workTree, processVars>>

\* Mutant: the lock is not waited for.
TakeLockAtOnce(d) == deployer[d].pc = "queued" /\ Begin(d)

TakeLock(d) == deployer[d].pc = "queued" /\ deployLock = {} /\ Begin(d)

ClientLeft(d) ==
    /\ deployer[d].pc = "queued" /\ ~deployer[d].webhook /\ deployLock = {}
    /\ Become(d, NoDeploy)
    /\ UNCHANGED <<adminVars, remote, workTree, processVars, deployLock>>

\* runDeployCore: clone, or fetch and reset --hard to the remote branch
Checkout(d) ==
    /\ deployer[d].pc = "checkout"
    /\ \/ workTree' = [workTree EXCEPT ![deployer[d].dir] = remote] /\ Advance(d, "build")
       \/ UNCHANGED workTree /\ Fail(d, ~deployer[d].webhook /\ ~deployer[d].skipStart)
    /\ UNCHANGED <<adminVars, remote, processVars, deployLock>>

\* runAppBuild, and the commit that rev-parse then names
Build(d) ==
    /\ deployer[d].pc = "build"
    /\ \/ Become(d, [deployer[d] EXCEPT !.pc = "register",
                                          !.sha = workTree[deployer[d].dir]])
       \/ Fail(d, ~deployer[d].webhook /\ ~deployer[d].skipStart)
    /\ UNCHANGED <<adminVars, remote, workTree, processVars, deployLock>>

\* completeDeployedApp: Stop, then Register saves the definition the deploy read.
RegisterDeployed(d) ==
    /\ deployer[d].pc = "register" /\ StopServing
    /\ \/ /\ appDef' = deployer[d].dir
          /\ IF deployer[d].skipStart
             THEN Become(d, [deployer[d] EXCEPT !.pc = "report", !.ok = TRUE])
             ELSE Advance(d, "start")
       \/ Fail(d, TRUE) /\ UNCHANGED appDef
    /\ UNCHANGED <<created, edits, remote, workTree, deployLock>>

\* Start fails when somebody else started or unregistered the application.
StartDeployed(d) ==
    /\ deployer[d].pc = "start"
    /\ \/ appDef # NoApp /\ (serving = Down \/ lost) /\ StartIn(appDef) /\ Advance(d, "probe")
       \/ Fail(d, TRUE) /\ UNCHANGED processVars
    /\ UNCHANGED <<adminVars, remote, workTree, deployLock>>

\* WaitListening and the health check; neither is made for some applications.
Probe(d) ==
    /\ deployer[d].pc = "probe"
    /\ \/ Become(d, [deployer[d] EXCEPT !.pc = "report", !.ok = TRUE])
       \/ Fail(d, TRUE)
    /\ UNCHANGED <<adminVars, remote, workTree, processVars, deployLock>>

\* rollbackDeployedApp: Stop if it is to be restarted, then git reset --hard
RollBack(d) ==
    /\ deployer[d].pc = "rollback"
    /\ IF deployer[d].restart THEN StopServing ELSE UNCHANGED processVars
    /\ \/ /\ workTree' = [workTree EXCEPT ![deployer[d].dir] = deployer[d].from]
          /\ IF deployer[d].restart THEN Advance(d, "restart")
             ELSE Become(d, [deployer[d] EXCEPT !.pc = "report", !.rolledBack = TRUE])
       \/ UNCHANGED workTree /\ Advance(d, "report")
    /\ UNCHANGED <<adminVars, remote, deployLock>>

RestartRolledBack(d) ==
    /\ deployer[d].pc = "restart"
    /\ \/ /\ appDef # NoApp /\ StartIn(appDef)
          /\ Become(d, [deployer[d] EXCEPT !.pc = "report", !.rolledBack = TRUE])
       \/ StopServing /\ Advance(d, "report")
    /\ UNCHANGED <<adminVars, remote, workTree, deployLock>>

\* The answer, and the lock is released.
Report(d) ==
    /\ deployer[d].pc = "report"
    /\ Become(d, NoDeploy) /\ deployLock' = deployLock \ {d}
    /\ UNCHANGED <<adminVars, processVars, remote, workTree>>

DeployNext ==
    \/ Push \/ DeleteApp \/ StartApp \/ AppDown
    \/ \E dir \in WorkDirs : CreateApp(dir) \/ UpdateApp(dir)
    \/ \E d \in Deployers :
          \/ \E skipStart \in BOOLEAN : RequestDeploy(d, skipStart)
          \/ Webhook(d) \/ TakeLock(d) \/ ClientLeft(d) \/ Checkout(d) \/ Build(d)
          \/ RegisterDeployed(d) \/ StartDeployed(d) \/ Probe(d)
          \/ RollBack(d) \/ RestartRolledBack(d) \/ Report(d)

DeploySpec == DeployInit /\ [][DeployNext]_deployVars

-----------------------------------------------------------------------------
(* Properties *)

DeployTypeOK ==
    /\ appDef \in 0 .. MaxDirs /\ created \in 1 .. MaxApps /\ edits \in 0 .. MaxEdits
    /\ remote \in 0 .. MaxRevs /\ workTree \in [WorkDirs -> 0 .. MaxRevs]
    /\ serving \in [dir : 0 .. MaxDirs, rev : 0 .. MaxRevs] /\ lost \in BOOLEAN
    /\ \A d \in Deployers :
          /\ deployer[d].pc \in {"idle", "queued", "checkout", "build", "register", "start",
                                 "probe", "rollback", "restart", "report"}
          /\ deployer[d].dir \in 0 .. MaxDirs
          /\ {deployer[d].from, deployer[d].sha} \subseteq 0 .. MaxRevs
          /\ {deployer[d].webhook, deployer[d].skipStart, deployer[d].ok,
              deployer[d].rolledBack, deployer[d].restart} \subseteq BOOLEAN
    /\ deployLock \subseteq Deployers

\* What a deploy reports is so: after a success its work directory holds the
\* commit it names, after a rollback the commit it found; and no process started
\* in that directory on the way, by an operator or the supervisor while files were
\* being replaced, runs another revision, whatever stops failed and wherever an
\* edit moved the application meanwhile.  Two exceptions: with skip_start nothing
\* removes a container that survived its stop (handlers_apps_deploy.go:369,
\* docker.go:550-563), and it may serve the old revision behind a success; and the
\* failed build of a webhook, or of a deploy that skips the start, is undone
\* without a restart (Deploy and runWebhookDeploy, deploy/handler.go:189 and 642).
ReportIsTrue ==
    \A d \in Deployers :
        LET r == deployer[d]
            RunsOnly(rev) == serving.dir = r.dir => serving.rev = rev
        IN r.pc = "report" =>
            /\ r.ok => workTree[r.dir] = r.sha /\ (RunsOnly(r.sha) \/ (r.skipStart /\ lost))
            /\ r.rolledBack => workTree[r.dir] = r.from
            /\ r.rolledBack /\ r.restart => RunsOnly(r.from)
=============================================================================
