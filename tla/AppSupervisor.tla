--------------------------- MODULE AppSupervisor ---------------------------
(***************************************************************************)
(* internal/apps: the supervisor of one standalone application, native or  *)
(* in a container.  Start and the restart after a crash run without m.mu   *)
(* between their steps; a run is known by the stop channel Start made for  *)
(* it, and everything it does later is checked against that channel.       *)
(*                                                                         *)
(* An object is one *process struct (Register replaces it).  A run has one *)
(* OS process or container at a time, so the run stands for p.cmd and      *)
(* p.dockerID.  Ports, log files and uptime are left out: any exit may be  *)
(* within or past crashloopHealthyWindow.                                  *)
(***************************************************************************)
EXTENDS Naturals, Sequences

CONSTANTS MaxObjects,   \* bound: registrations
          MaxRuns,      \* bound: explicit starts
          MaxCrashes    \* crashloopMaxRestarts

ASSUME AppSupervisorAssumption ==
    MaxObjects \in Nat /\ MaxRuns \in Nat /\ MaxCrashes \in Nat \ {0}

VARIABLES kind,       \* "native" or "docker"
          current,    \* the registered object, or 0
          objects,    \* object -> [stopped, ch, cmd, count, gave]
          runs,       \* run -> [pc, obj, up]: goroutine and process of the run
          closed,     \* runs whose stopCh is closed
          killing,    \* native runs that a Stop is killing, m.mu released
          misjudged   \* history: containers up that a failed docker command was to end or to report

appVars == <<kind, current, objects, runs, closed, killing, misjudged>>

Objects == 1 .. MaxObjects
Runs    == 1 .. MaxRuns
None    == 0
Unused  == [pc |-> "unused", obj |-> None, up |-> FALSE]
NewObject == [stopped |-> FALSE, ch |-> None, cmd |-> None, count |-> 0, gave |-> FALSE]

AppInit ==
    /\ kind \in {"native", "docker"}
    /\ current = None
    /\ objects = <<>>
    /\ runs = [r \in Runs |-> Unused]
    /\ closed = {} /\ killing = {} /\ misjudged = {}

-----------------------------------------------------------------------------
(* Helpers *)

Made        == Len(objects)
Obj(r)      == objects[runs[r].obj]
Up          == {r \in Runs : runs[r].up}
ToPC(r, pc) == runs' = [runs EXCEPT ![r].pc = pc]

\* runs once the processes of K are gone
Killed(K) == [r \in Runs |-> IF r \in K THEN [runs[r] EXCEPT !.up = FALSE] ELSE runs[r]]

\* Mutant: only the stopped flag is looked at.
SupersededIfStopped(r) == Obj(r).stopped

\* Stopped, or another Start took over.
Superseded(r) == Obj(r).stopped \/ Obj(r).ch # r

\* Drop r from the object, if it is still the one registered there.
ClearCmd(r) ==
    objects' = [objects EXCEPT ![runs[r].obj].cmd = IF @ = r THEN None ELSE @]

\* The processes stopLocked ends: the native one of the object; by its name,
\* whichever container is up, unless the object has none.
StopTargets(o) ==
    IF objects[o].cmd = None THEN {}
    ELSE IF kind = "native" THEN {objects[o].cmd} ELSE Up

\* "docker stop" may fail, which is only logged.
StopProcesses(o) ==
    \/ runs' = Killed(StopTargets(o)) /\ UNCHANGED misjudged
    \/ /\ kind = "docker" /\ StopTargets(o) # {}
       /\ misjudged' = misjudged \cup StopTargets(o) /\ UNCHANGED runs
StoppedObject(o) == [objects EXCEPT ![o].stopped = TRUE, ![o].cmd = None]
CloseCh(o) == closed' = closed \cup ({objects[o].ch} \ {None})

-----------------------------------------------------------------------------
(* Operations of the API *)

\* Register: the old object is stopped under m.mu and replaced.
AppRegister ==
    /\ Made < MaxObjects
    /\ objects' = Append(IF current = None THEN objects ELSE StoppedObject(current), NewObject)
    /\ current' = Made + 1
    /\ IF current = None THEN UNCHANGED <<runs, closed, misjudged>>
       ELSE StopProcesses(current) /\ CloseCh(current)
    /\ UNCHANGED <<kind, killing>>

AppUnregister ==
    /\ current # None
    /\ objects' = StoppedObject(current)
    /\ StopProcesses(current) /\ CloseCh(current)
    /\ current' = None
    /\ UNCHANGED <<kind, killing>>

\* Start, up to the release of m.mu
AppStart(r) ==
    /\ current # None /\ objects[current].cmd = None
    /\ runs[r] = Unused /\ \A q \in Runs : q < r => runs[q] # Unused
    /\ objects' = [objects EXCEPT ![current] = [NewObject EXCEPT !.ch = r]]
    /\ runs' = [runs EXCEPT ![r] = [pc |-> "spawn", obj |-> current, up |-> FALSE]]
    /\ UNCHANGED <<kind, current, closed, killing, misjudged>>

\* Stop looked the object up before: it may have been replaced since.  The
\* native process is killed after m.mu is released.
AppStop(o) ==
    /\ o \in 1 .. Made
    /\ CloseCh(o)
    /\ IF kind = "native"
       THEN /\ objects' = [objects EXCEPT ![o].stopped = TRUE]
            /\ killing' = killing \cup StopTargets(o)
            /\ UNCHANGED <<runs, misjudged>>
       ELSE /\ objects' = StoppedObject(o)
            /\ StopProcesses(o)
            /\ UNCHANGED killing
    /\ UNCHANGED <<kind, current>>

StopKill(r) ==
    /\ r \in killing
    /\ runs' = Killed({r}) /\ ClearCmd(r)
    /\ killing' = killing \ {r}
    /\ UNCHANGED <<kind, current, closed, misjudged>>

-----------------------------------------------------------------------------
(* A run: startNative / startDocker, then monitorNative / watchDocker *)

CheckSuperseded(r) ==
    /\ runs[r].pc = "spawn"
    /\ ToPC(r, IF Superseded(r) THEN "over" ELSE "cleared")
    /\ UNCHANGED <<kind, current, objects, closed, killing, misjudged>>

\* docker rm -f of a leftover container with the app's name
RemoveLeftover(r) ==
    /\ kind = "docker" /\ runs[r].pc = "cleared"
    /\ runs' = [Killed(Up) EXCEPT ![r].pc = "removed"]
    /\ UNCHANGED <<kind, current, objects, closed, killing, misjudged>>

\* The command is started, or fails; docker allows one container of the name.
Spawn(r) ==
    /\ runs[r].pc = IF kind = "docker" THEN "removed" ELSE "cleared"
    /\ \/ /\ kind = "docker" => Up = {}
          /\ runs' = [runs EXCEPT ![r].pc = "spawned", ![r].up = TRUE]
          /\ misjudged' = misjudged \ {r}
       \/ ToPC(r, "over") /\ UNCHANGED misjudged
    /\ UNCHANGED <<kind, current, objects, closed, killing>>

\* Under m.mu again: a run overtaken meanwhile ends its own process.
TakeOver(r) ==
    /\ runs[r].pc = "spawned"
    /\ IF Superseded(r)
       THEN ToPC(r, "aborting") /\ UNCHANGED objects
       ELSE ToPC(r, "live") /\ objects' = [objects EXCEPT ![runs[r].obj].cmd = r]
    /\ UNCHANGED <<kind, current, closed, killing, misjudged>>

AbortKill(r) ==
    /\ runs[r].pc = "aborting"
    /\ \/ runs' = [Killed({r}) EXCEPT ![r].pc = "over"] /\ UNCHANGED misjudged
       \/ /\ kind = "docker" /\ runs[r].up
          /\ ToPC(r, "over") /\ misjudged' = misjudged \cup {r}
    /\ UNCHANGED <<kind, current, objects, closed, killing>>

\* The process or container ends by itself.
AppExits(r) ==
    /\ runs[r].up
    /\ runs' = Killed({r})
    /\ UNCHANGED <<kind, current, objects, closed, killing, misjudged>>

\* Wait returns.  docker wait may also fail with the container still up.
MonitorWakes(r) ==
    /\ runs[r].pc = "live"
    /\ runs[r].up => kind = "docker"
    /\ misjudged' = misjudged \cup ({r} \cap Up)
    /\ IF r \in closed THEN ToPC(r, "over") /\ ClearCmd(r)
       ELSE ToPC(r, "exited") /\ UNCHANGED objects
    /\ UNCHANGED <<kind, current, closed, killing>>

\* Crash-loop bookkeeping under m.mu.
MonitorDecides(r, healthyFor) ==
    LET o == runs[r].obj
        n == IF healthyFor THEN 0 ELSE objects[o].count + 1
        live == IF objects[o].cmd = r THEN None ELSE objects[o].cmd
    IN
    /\ runs[r].pc = "exited"
    /\ IF objects[o].gave
       THEN objects' = [objects EXCEPT ![o].cmd = live] /\ ToPC(r, "over")
       ELSE /\ objects' = [objects EXCEPT ![o].cmd = live, ![o].count = n, ![o].gave = n >= MaxCrashes]
            /\ ToPC(r, IF n >= MaxCrashes THEN "over" ELSE "backoff")
    /\ UNCHANGED <<kind, current, closed, killing, misjudged>>

BackoffEnds(r) ==
    /\ runs[r].pc = "backoff"
    /\ ToPC(r, IF r \in closed THEN "over" ELSE "spawn")
    /\ UNCHANGED <<kind, current, objects, closed, killing, misjudged>>

\* The probe 500 ms after docker run: a docker command that fails counts as
\* "not running".
ProbeFails(r) ==
    /\ kind = "docker" /\ runs[r].pc \in {"live", "exited", "backoff"}
    /\ Obj(r).cmd = r /\ ClearCmd(r)
    /\ misjudged' = misjudged \cup ({r} \cap Up)
    /\ UNCHANGED <<kind, current, runs, closed, killing>>

AppNext ==
    \/ AppRegister \/ AppUnregister
    \/ \E o \in 1 .. Made : AppStop(o)
    \/ \E r \in Runs : \/ AppStart(r) \/ StopKill(r)
                       \/ CheckSuperseded(r) \/ RemoveLeftover(r) \/ Spawn(r)
                       \/ TakeOver(r) \/ AbortKill(r) \/ AppExits(r)
                       \/ MonitorWakes(r) \/ BackoffEnds(r) \/ ProbeFails(r)
                       \/ \E healthyFor \in BOOLEAN : MonitorDecides(r, healthyFor)

AppSpec == AppInit /\ [][AppNext]_appVars

-----------------------------------------------------------------------------
(* Properties *)

AppTypeOK ==
    /\ kind \in {"native", "docker"} /\ current \in 0 .. Made
    /\ objects \in Seq([stopped : BOOLEAN, ch : 0 .. MaxRuns, cmd : 0 .. MaxRuns,
                        count : 0 .. MaxCrashes, gave : BOOLEAN])
    /\ Made <= MaxObjects
    /\ runs \in [Runs -> [pc : {"unused", "spawn", "cleared", "removed", "spawned", "aborting",
                                "live", "exited", "backoff", "over"},
                          obj : 0 .. MaxObjects, up : BOOLEAN]]
    /\ closed \subseteq Runs /\ killing \subseteq Runs /\ misjudged \subseteq Runs

\* No process escapes the supervisor: one that is up is the one its object has
\* registered, the object being in force and not stopped, or somebody is about
\* to register or to end it.  So no order of starts, stops, replacements,
\* crashes and delayed restarts leaves a second process holding the port, or a
\* stopped application running (startNative's recheck, manager.go:1058).  The
\* exception is a container that a docker command, failing, did not end or
\* reported gone.
NoProcessEscapes ==
    \A r \in Up :
        \/ runs[r].pc \in {"spawned", "aborting"}
        \/ r \in killing \cup misjudged
        \/ runs[r].obj = current /\ Obj(r).cmd = r /\ ~Obj(r).stopped
=============================================================================
