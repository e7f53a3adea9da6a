---------------------------- MODULE InstallQueue ----------------------------
(***************************************************************************)
(* internal/install/queue.go: the queue that serialises package operations *)
(* of the admin API.  Submit puts the task in the map under q.mu, and only  *)
(* then sends it to the bounded channel; Stop fails the queued tasks under  *)
(* q.mu, and only then closes stopCh; one worker selects between the two    *)
(* channels.  Task n stands for the n-th call of Submit to take q.mu.       *)
(***************************************************************************)
EXTENDS Naturals, FiniteSets, Sequences

CONSTANTS
  MaxTasks,   \* bound: calls of Submit
  QueueCap,   \* capacity of q.queue (32 in the code)
  MaxKeep     \* q.maxKeep (50 in the code)

ASSUME QueueAssumption ==
  /\ QueueCap \in Nat \ {0}
  /\ MaxKeep \in Nat
  /\ MaxTasks \in Nat

Tasks == 1..MaxTasks
NoTask == 0           \* the worker holds no entry

VARIABLES
  status,     \* task.Status; "new" before Submit
  ended,      \* tasks whose EndedAt is set
  taskSeq,    \* q.taskSeq
  kept,       \* the keys of q.tasks
  sending,    \* Submit calls between their unlock and the end of their select
  queue,      \* q.queue
  stopped,    \* q.stopped
  closed,     \* q.stopCh is closed
  worker      \* where the worker is, and the entry it holds

vars == <<status, ended, taskSeq, kept, sending, queue, stopped, closed, worker>>

Statuses == {"new", "queued", "running", "done", "error"}
Terminal == {"done", "error"}

TypeOK ==
  /\ status \in [Tasks -> Statuses]
  /\ ended \subseteq Tasks
  /\ taskSeq \in 0..MaxTasks
  /\ kept \subseteq Tasks
  /\ sending \subseteq Tasks
  /\ queue \in Seq(Tasks) /\ Len(queue) <= QueueCap
  /\ stopped \in BOOLEAN /\ closed \in BOOLEAN
  /\ worker \in [at : {"select", "taken", "running", "exited"}, task : Tasks \cup {NoTask}]

Init ==
  /\ status = [t \in Tasks |-> "new"]
  /\ ended = {} /\ taskSeq = 0 /\ kept = {} /\ sending = {}
  /\ queue = <<>>
  /\ stopped = FALSE /\ closed = FALSE
  /\ worker = [at |-> "select", task |-> NoTask]

-----------------------------------------------------------------------------
(* Submit *)

\* To the first unlock.
Submit(t) ==
  /\ t = taskSeq + 1
  /\ taskSeq' = t
  /\ kept' = kept \cup {t}
  /\ \/ /\ ~stopped
        /\ status' = [status EXCEPT ![t] = "queued"]
        /\ sending' = sending \cup {t}
        /\ ended' = ended
     \/ /\ stopped
        /\ status' = [status EXCEPT ![t] = "error"]
        /\ ended' = ended \cup {t}
        /\ sending' = sending
  /\ UNCHANGED <<queue, stopped, closed, worker>>

\* Mutant: the send does not wait for room.
SendUnbounded(t) ==
  /\ t \in sending
  /\ queue' = Append(queue, t)
  /\ sending' = sending \ {t}
  /\ UNCHANGED <<status, ended, taskSeq, kept, stopped, closed, worker>>

\* The select chose the channel: it had room.
Send(t) ==
  /\ t \in sending
  /\ Len(queue) < QueueCap
  /\ queue' = Append(queue, t)
  /\ sending' = sending \ {t}
  /\ UNCHANGED <<status, ended, taskSeq, kept, stopped, closed, worker>>

\* The select chose stopCh.  EndedAt is left to Stop.
SendStopped(t) ==
  /\ t \in sending
  /\ closed
  /\ status' = [status EXCEPT ![t] = "error"]
  /\ sending' = sending \ {t}
  /\ UNCHANGED <<ended, taskSeq, kept, queue, stopped, closed, worker>>

-----------------------------------------------------------------------------
(* Stop *)

\* Mutant: Stop only raises the flag and closes the channel.
StopKeepsQueued ==
  /\ ~stopped /\ stopped' = TRUE
  /\ UNCHANGED <<status, ended, taskSeq, kept, sending, queue, closed, worker>>

\* Mutant: Stop fails the queued tasks without an end time.
StopWithoutEnd ==
  /\ ~stopped /\ stopped' = TRUE
  /\ status' = [t \in Tasks |-> IF t \in kept /\ status[t] = "queued" THEN "error" ELSE status[t]]
  /\ UNCHANGED <<ended, taskSeq, kept, sending, queue, closed, worker>>

\* To the unlock: every queued task of the map fails.
Stop ==
  LET failed == {t \in kept : status[t] = "queued"}
  IN  /\ ~stopped /\ stopped' = TRUE
      /\ status' = [t \in Tasks |-> IF t \in failed THEN "error" ELSE status[t]]
      /\ ended' = ended \cup failed
      /\ UNCHANGED <<taskSeq, kept, sending, queue, closed, worker>>

CloseStopCh ==
  /\ stopped /\ ~closed
  /\ closed' = TRUE
  /\ UNCHANGED <<status, ended, taskSeq, kept, sending, queue, stopped, worker>>

-----------------------------------------------------------------------------
(* The worker *)

Receive ==
  /\ worker.at = "select" /\ queue # <<>>
  /\ worker' = [at |-> "taken", task |-> Head(queue)]
  /\ queue' = Tail(queue)
  /\ UNCHANGED <<status, ended, taskSeq, kept, sending, stopped, closed>>

Exit ==
  /\ worker.at = "select" /\ closed
  /\ worker' = [at |-> "exited", task |-> NoTask]
  /\ UNCHANGED <<status, ended, taskSeq, kept, sending, queue, stopped, closed>>

\* Mutant: the task starts whatever became of it since it was queued.
RunTaskUnchecked ==
  /\ worker.at = "taken"
  /\ status' = [status EXCEPT ![worker.task] = "running"]
  /\ worker' = [worker EXCEPT !.at = "running"]
  /\ UNCHANGED <<ended, taskSeq, kept, sending, queue, stopped, closed>>

\* runTask, to its first unlock: a task Stop has failed is not started.
RunTask ==
  /\ worker.at = "taken"
  /\ \/ /\ status[worker.task] = "queued"
        /\ status' = [status EXCEPT ![worker.task] = "running"]
        /\ worker' = [worker EXCEPT !.at = "running"]
     \/ /\ status[worker.task] # "queued"
        /\ status' = status
        /\ worker' = [at |-> "select", task |-> NoTask]
  /\ UNCHANGED <<ended, taskSeq, kept, sending, queue, stopped, closed>>

\* The task's function returned, failed or panicked.
FinishTask(result) ==
  /\ worker.at = "running"
  /\ status' = [status EXCEPT ![worker.task] = result]
  /\ ended' = ended \cup {worker.task}
  /\ worker' = [at |-> "select", task |-> NoTask]
  /\ UNCHANGED <<taskSeq, kept, sending, queue, stopped, closed>>

-----------------------------------------------------------------------------
\* Mutant: the prune by count takes the oldest tasks, finished or not.
PruneByCountAny(old) ==
  \E gone \in SUBSET (kept \ old) :
    /\ Cardinality(gone) = Cardinality(kept \ old) - MaxKeep
    /\ kept' = (kept \ old) \ gone

\* cleanupLocked's second half, after the tasks old have gone: the oldest
\* finished tasks above MaxKeep go, as far as there are finished ones.
PruneByCount(old) ==
  LET left     == kept \ old
      finished == {t \in left : status[t] \in Terminal}
      excess   == Cardinality(left) - MaxKeep
  IN  \E gone \in SUBSET finished :
        /\ Cardinality(gone) =
             IF Cardinality(left) <= MaxKeep THEN 0
             ELSE IF excess < Cardinality(finished) THEN excess ELSE Cardinality(finished)
        /\ \A t \in gone, u \in finished \ gone : t < u
        /\ kept' = left \ gone

\* List: cleanupLocked drops finished tasks whose EndedAt is past, then the rest.
List ==
  \E old \in SUBSET {t \in kept \cap ended : status[t] \in Terminal} :
    /\ PruneByCount(old)
    /\ UNCHANGED <<status, ended, taskSeq, sending, queue, stopped, closed, worker>>

-----------------------------------------------------------------------------
WorkerStep == Receive \/ Exit \/ RunTask \/ \E result \in Terminal : FinishTask(result)

SendStep(t) == Send(t) \/ SendStopped(t)

Next ==
  \/ \E t \in Tasks : Submit(t) \/ SendStep(t)
  \/ Stop \/ CloseStopCh
  \/ WorkerStep
  \/ List

\* Goroutines run and installations come to an end; nobody need call Submit,
\* Stop or List.
Fairness ==
  /\ WF_vars(WorkerStep) /\ WF_vars(CloseStopCh)
  /\ \A t \in Tasks : SF_vars(Send(t)) /\ WF_vars(SendStopped(t))

Spec == Init /\ [][Next]_vars /\ Fairness

-----------------------------------------------------------------------------
(* Properties *)

\* The queue implements the task life cycle: tasks run one at a time, end once,
\* and none starts after Stop.
Lifecycle == INSTANCE TaskLifecycle WITH Tasks <- Tasks, status <- status, stopped <- stopped
RefinesLifecycle == Lifecycle!Spec

\* "Tasks still queued are marked as failed and never start", the ones whose
\* Submit is still waiting for room in the channel included.
StoppedLeavesNoneQueued == stopped => \A t \in Tasks : status[t] # "queued"

\* A finished task has an end time, or the prune by age would keep it for ever:
\* Submit's stopCh branch sets none and relies on Stop having done so.
FinishedHasEnd == \A t \in Tasks : status[t] \in Terminal => t \in ended

\* The dashboard can always look up a task that is queued or running, however
\* many finished ones are pruned around it.
ActiveIsKept == \A t \in Tasks : status[t] \in {"queued", "running"} => t \in kept

\* Every submitted task ends, also those that meet Stop half-way.
EveryTaskEnds == \A t \in Tasks : status[t] = "queued" ~> status[t] \in Terminal
=============================================================================
