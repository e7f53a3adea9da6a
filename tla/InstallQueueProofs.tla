------------------------- MODULE InstallQueueProofs -------------------------
(* Theorems about InstallQueue, for every number of tasks, every capacity of *)
(* the channel and every bound on the kept history: type correctness, the    *)
(* three safety invariants, and that the queue implements TaskLifecycle.     *)
EXTENDS InstallQueue, TLAPS

\* Submit numbers tasks in order: exactly the ones not yet numbered are new.
NumberedInOrder == \A t \in Tasks : status[t] = "new" <=> t > taskSeq

\* A task handed to the channel left its Submit behind, in the channel ...
QueueHandedOver ==
  \A i \in 1..Len(queue) : queue[i] \notin sending /\ status[queue[i]] # "new"

\* ... and in the worker's hands.
WorkerHandedOver ==
  worker.at \in {"taken", "running"} =>
    /\ worker.task \in Tasks \ sending
    /\ status[worker.task] # "new"

\* A Submit still at its select holds a task that waits or was failed by Stop.
SendingWaits == \A t \in sending : status[t] \in {"queued", "error"}

\* The running task is the worker's, and there is no other.
RunningIsWorkers ==
  \A t \in Tasks : status[t] = "running" <=> worker.at = "running" /\ worker.task = t

ClosedAfterStopped == closed => stopped

Handover == NumberedInOrder /\ QueueHandedOver /\ WorkerHandedOver /\ SendingWaits

\* The inductive invariant of the queue.
QueueInv ==
  /\ TypeOK /\ Handover
  /\ RunningIsWorkers /\ ClosedAfterStopped
  /\ StoppedLeavesNoneQueued /\ FinishedHasEnd /\ ActiveIsKept
-----------------------------------------------------------------------------
\* List drops finished tasks only: both rounds of cleanupLocked look at Status.
LEMMA ListDropsFinished ==
  ASSUME List
  PROVE  /\ kept' \subseteq kept
         /\ \A t \in kept \ kept' : status[t] \in Terminal
  BY DEF List, PruneByCount

\* A step keeps the variables in their types; a finished task is recorded as
\* ended, so the worker must hold one.
LEMMA TypeStep ==
  ASSUME TypeOK, WorkerHandedOver, [Next]_vars
  PROVE  TypeOK'
<1> USE QueueAssumption DEF QueueAssumption, TypeOK, Tasks, Statuses, Terminal, NoTask
<1>1. CASE UNCHANGED vars
  BY <1>1 DEF vars
<1>2. ASSUME NEW t \in Tasks, Submit(t)
      PROVE  TypeOK'
  <2>1. status' \in [Tasks -> Statuses]
    BY <1>2 DEF Submit
  <2>2. ended' \subseteq Tasks /\ kept' \subseteq Tasks /\ sending' \subseteq Tasks
    BY <1>2 DEF Submit
  <2> QED
    BY <1>2, <2>1, <2>2 DEF Submit
<1>3. ASSUME NEW t \in Tasks, Send(t)
      PROVE  TypeOK'
  BY <1>3 DEF Send
<1>4. ASSUME NEW t \in Tasks, SendStopped(t)
      PROVE  TypeOK'
  BY <1>4 DEF SendStopped
<1>5. CASE Stop
  BY <1>5 DEF Stop
<1>6. CASE CloseStopCh
  BY <1>6 DEF CloseStopCh
<1>7. CASE Receive
  BY <1>7 DEF Receive
<1>8. CASE Exit
  BY <1>8 DEF Exit
<1>9. CASE RunTask
  BY <1>9 DEF RunTask
<1>10. ASSUME NEW result \in Terminal, FinishTask(result)
       PROVE  TypeOK'
  BY <1>10 DEF FinishTask, WorkerHandedOver
<1>11. CASE List
  BY <1>11, ListDropsFinished DEF List
<1> QED
  BY <1>1, <1>2, <1>3, <1>4, <1>5, <1>6, <1>7, <1>8, <1>9, <1>10, <1>11
  DEF Next, SendStep, WorkerStep

\* Only Submit takes a number, and only the next one.
LEMMA NumberStep ==
  ASSUME QueueInv, [Next]_vars
  PROVE  NumberedInOrder'
<1> USE QueueAssumption DEF QueueAssumption, QueueInv, TypeOK, Handover, Tasks,
     Statuses, Terminal, NumberedInOrder, WorkerHandedOver, SendingWaits
<1>1. CASE UNCHANGED vars
  BY <1>1 DEF vars
<1>2. ASSUME NEW t \in Tasks, Submit(t)
      PROVE  NumberedInOrder'
  BY <1>2 DEF Submit
<1>3. ASSUME NEW t \in Tasks, Send(t)
      PROVE  NumberedInOrder'
  BY <1>3 DEF Send
<1>4. ASSUME NEW t \in Tasks, SendStopped(t)
      PROVE  NumberedInOrder'
  BY <1>4 DEF SendStopped
<1>5. CASE Stop
  BY <1>5 DEF Stop
<1>6. CASE CloseStopCh
  BY <1>6 DEF CloseStopCh
<1>7. CASE Receive
  BY <1>7 DEF Receive
<1>8. CASE Exit
  BY <1>8 DEF Exit
<1>9. CASE RunTask
  BY <1>9 DEF RunTask
<1>10. ASSUME NEW result \in Terminal, FinishTask(result)
       PROVE  NumberedInOrder'
  BY <1>10 DEF FinishTask
<1>11. CASE List
  BY <1>11, ListDropsFinished DEF List
<1> QED
  BY <1>1, <1>2, <1>3, <1>4, <1>5, <1>6, <1>7, <1>8, <1>9, <1>10, <1>11
  DEF Next, SendStep, WorkerStep

\* Whatever the channel holds stays out of Submit's hands.
LEMMA QueueStep ==
  ASSUME QueueInv, [Next]_vars
  PROVE  QueueHandedOver'
<1> USE QueueAssumption DEF QueueAssumption, QueueInv, TypeOK, Handover, Tasks,
     Statuses, Terminal, NumberedInOrder, QueueHandedOver, WorkerHandedOver, SendingWaits
<1>1. CASE UNCHANGED vars
  BY <1>1 DEF vars
<1>2. ASSUME NEW t \in Tasks, Submit(t)
      PROVE  QueueHandedOver'
  <2> SUFFICES ASSUME NEW i \in 1..Len(queue)
               PROVE  queue[i] \notin sending' /\ status'[queue[i]] # "new"
    BY <1>2 DEF Submit
  <2>1. queue[i] # t /\ queue[i] \in Tasks
    BY <1>2 DEF Submit
  <2> QED
    BY <1>2, <2>1 DEF Submit
<1>3. ASSUME NEW t \in Tasks, Send(t)
      PROVE  QueueHandedOver'
  BY <1>3 DEF Send
<1>4. ASSUME NEW t \in Tasks, SendStopped(t)
      PROVE  QueueHandedOver'
  BY <1>4 DEF SendStopped
<1>5. CASE Stop
  BY <1>5 DEF Stop
<1>6. CASE CloseStopCh
  BY <1>6 DEF CloseStopCh
<1>7. CASE Receive
  BY <1>7 DEF Receive
<1>8. CASE Exit
  BY <1>8 DEF Exit
<1>9. CASE RunTask
  BY <1>9 DEF RunTask
<1>10. ASSUME NEW result \in Terminal, FinishTask(result)
       PROVE  QueueHandedOver'
  BY <1>10 DEF FinishTask
<1>11. CASE List
  BY <1>11, ListDropsFinished DEF List
<1> QED
  BY <1>1, <1>2, <1>3, <1>4, <1>5, <1>6, <1>7, <1>8, <1>9, <1>10, <1>11
  DEF Next, SendStep, WorkerStep

\* So does what the worker holds.
LEMMA WorkerStepKeeps ==
  ASSUME QueueInv, [Next]_vars
  PROVE  WorkerHandedOver'
<1> USE QueueAssumption DEF QueueAssumption, QueueInv, TypeOK, Handover, Tasks,
     Statuses, Terminal, NumberedInOrder, QueueHandedOver, WorkerHandedOver, SendingWaits
<1>1. CASE UNCHANGED vars
  BY <1>1 DEF vars
<1>2. ASSUME NEW t \in Tasks, Submit(t)
      PROVE  WorkerHandedOver'
  BY <1>2 DEF Submit
<1>3. ASSUME NEW t \in Tasks, Send(t)
      PROVE  WorkerHandedOver'
  BY <1>3 DEF Send
<1>4. ASSUME NEW t \in Tasks, SendStopped(t)
      PROVE  WorkerHandedOver'
  BY <1>4 DEF SendStopped
<1>5. CASE Stop
  BY <1>5 DEF Stop
<1>6. CASE CloseStopCh
  BY <1>6 DEF CloseStopCh
<1>7. CASE Receive
  BY <1>7 DEF Receive
<1>8. CASE Exit
  BY <1>8 DEF Exit
<1>9. CASE RunTask
  BY <1>9 DEF RunTask
<1>10. ASSUME NEW result \in Terminal, FinishTask(result)
       PROVE  WorkerHandedOver'
  BY <1>10 DEF FinishTask
<1>11. CASE List
  BY <1>11, ListDropsFinished DEF List
<1> QED
  BY <1>1, <1>2, <1>3, <1>4, <1>5, <1>6, <1>7, <1>8, <1>9, <1>10, <1>11
  DEF Next, SendStep, WorkerStep

\* A task its Submit still holds never starts.
LEMMA SendingStep ==
  ASSUME QueueInv, [Next]_vars
  PROVE  SendingWaits'
<1> USE QueueAssumption DEF QueueAssumption, QueueInv, TypeOK, Handover, Tasks,
     Statuses, Terminal, NumberedInOrder, WorkerHandedOver, SendingWaits
<1>1. CASE UNCHANGED vars
  BY <1>1 DEF vars
<1>2. ASSUME NEW t \in Tasks, Submit(t)
      PROVE  SendingWaits'
  <2>1. CASE stopped
    BY <1>2, <2>1 DEF Submit
  <2>2. CASE ~stopped
    <3>1. status' = [status EXCEPT ![t] = "queued"] /\ sending' = sending \cup {t}
      BY <1>2, <2>2 DEF Submit
    <3>2. \A u \in sending : u \in Tasks /\ status'[u] \in {"queued", "error"}
      BY <3>1
    <3> QED
      BY <3>1, <3>2
  <2> QED
    BY <2>1, <2>2
<1>3. ASSUME NEW t \in Tasks, Send(t)
      PROVE  SendingWaits'
  BY <1>3 DEF Send
<1>4. ASSUME NEW t \in Tasks, SendStopped(t)
      PROVE  SendingWaits'
  BY <1>4 DEF SendStopped
<1>5. CASE Stop
  BY <1>5 DEF Stop
<1>6. CASE CloseStopCh
  BY <1>6 DEF CloseStopCh
<1>7. CASE Receive
  BY <1>7 DEF Receive
<1>8. CASE Exit
  BY <1>8 DEF Exit
<1>9. CASE RunTask
  BY <1>9 DEF RunTask
<1>10. ASSUME NEW result \in Terminal, FinishTask(result)
       PROVE  SendingWaits'
  BY <1>10 DEF FinishTask
<1>11. CASE List
  BY <1>11, ListDropsFinished DEF List
<1> QED
  BY <1>1, <1>2, <1>3, <1>4, <1>5, <1>6, <1>7, <1>8, <1>9, <1>10, <1>11
  DEF Next, SendStep, WorkerStep

\* The worker runs one task at a time.
LEMMA RunningStep ==
  ASSUME QueueInv, [Next]_vars
  PROVE  RunningIsWorkers'
<1> USE QueueAssumption DEF QueueAssumption, QueueInv, TypeOK, Handover, Tasks,
     Statuses, Terminal, NumberedInOrder, WorkerHandedOver, SendingWaits, RunningIsWorkers
<1>1. CASE UNCHANGED vars
  BY <1>1 DEF vars
<1>2. ASSUME NEW t \in Tasks, Submit(t)
      PROVE  RunningIsWorkers'
  BY <1>2 DEF Submit
<1>3. ASSUME NEW t \in Tasks, Send(t)
      PROVE  RunningIsWorkers'
  BY <1>3 DEF Send
<1>4. ASSUME NEW t \in Tasks, SendStopped(t)
      PROVE  RunningIsWorkers'
  BY <1>4 DEF SendStopped
<1>5. CASE Stop
  BY <1>5 DEF Stop
<1>6. CASE CloseStopCh
  BY <1>6 DEF CloseStopCh
<1>7. CASE Receive
  BY <1>7 DEF Receive
<1>8. CASE Exit
  BY <1>8 DEF Exit
<1>9. CASE RunTask
  BY <1>9 DEF RunTask
<1>10. ASSUME NEW result \in Terminal, FinishTask(result)
       PROVE  RunningIsWorkers'
  BY <1>10 DEF FinishTask
<1>11. CASE List
  BY <1>11, ListDropsFinished DEF List
<1> QED
  BY <1>1, <1>2, <1>3, <1>4, <1>5, <1>6, <1>7, <1>8, <1>9, <1>10, <1>11
  DEF Next, SendStep, WorkerStep

\* Nothing is queued once Stop has released its lock.
LEMMA StoppedStep ==
  ASSUME QueueInv, [Next]_vars
  PROVE  (StoppedLeavesNoneQueued /\ ClosedAfterStopped)'
<1> USE QueueAssumption DEF QueueAssumption, QueueInv, TypeOK, Handover, Tasks,
     Statuses, Terminal, StoppedLeavesNoneQueued, ClosedAfterStopped, ActiveIsKept, WorkerHandedOver
<1>1. CASE UNCHANGED vars
  BY <1>1 DEF vars
<1>2. ASSUME NEW t \in Tasks, Submit(t)
      PROVE  (StoppedLeavesNoneQueued /\ ClosedAfterStopped)'
  BY <1>2 DEF Submit
<1>3. ASSUME NEW t \in Tasks, Send(t)
      PROVE  (StoppedLeavesNoneQueued /\ ClosedAfterStopped)'
  BY <1>3 DEF Send
<1>4. ASSUME NEW t \in Tasks, SendStopped(t)
      PROVE  (StoppedLeavesNoneQueued /\ ClosedAfterStopped)'
  BY <1>4 DEF SendStopped
<1>5. CASE Stop
  BY <1>5 DEF Stop
<1>6. CASE CloseStopCh
  BY <1>6 DEF CloseStopCh
<1>7. CASE Receive
  BY <1>7 DEF Receive
<1>8. CASE Exit
  BY <1>8 DEF Exit
<1>9. CASE RunTask
  BY <1>9 DEF RunTask
<1>10. ASSUME NEW result \in Terminal, FinishTask(result)
       PROVE  (StoppedLeavesNoneQueued /\ ClosedAfterStopped)'
  BY <1>10 DEF FinishTask
<1>11. CASE List
  BY <1>11, ListDropsFinished DEF List
<1> QED
  BY <1>1, <1>2, <1>3, <1>4, <1>5, <1>6, <1>7, <1>8, <1>9, <1>10, <1>11
  DEF Next, SendStep, WorkerStep

\* Every way to finish sets the end time or finds it set.
LEMMA EndStep ==
  ASSUME QueueInv, [Next]_vars
  PROVE  FinishedHasEnd'
<1> USE QueueAssumption DEF QueueAssumption, QueueInv, TypeOK, Handover, Tasks,
     Statuses, Terminal, FinishedHasEnd, StoppedLeavesNoneQueued, ClosedAfterStopped, SendingWaits, WorkerHandedOver
<1>1. CASE UNCHANGED vars
  BY <1>1 DEF vars
<1>2. ASSUME NEW t \in Tasks, Submit(t)
      PROVE  FinishedHasEnd'
  BY <1>2 DEF Submit
<1>3. ASSUME NEW t \in Tasks, Send(t)
      PROVE  FinishedHasEnd'
  BY <1>3 DEF Send
<1>4. ASSUME NEW t \in Tasks, SendStopped(t)
      PROVE  FinishedHasEnd'
  BY <1>4 DEF SendStopped
<1>5. CASE Stop
  BY <1>5 DEF Stop
<1>6. CASE CloseStopCh
  BY <1>6 DEF CloseStopCh
<1>7. CASE Receive
  BY <1>7 DEF Receive
<1>8. CASE Exit
  BY <1>8 DEF Exit
<1>9. CASE RunTask
  BY <1>9 DEF RunTask
<1>10. ASSUME NEW result \in Terminal, FinishTask(result)
       PROVE  FinishedHasEnd'
  BY <1>10 DEF FinishTask
<1>11. CASE List
  BY <1>11, ListDropsFinished DEF List
<1> QED
  BY <1>1, <1>2, <1>3, <1>4, <1>5, <1>6, <1>7, <1>8, <1>9, <1>10, <1>11
  DEF Next, SendStep, WorkerStep

\* No prune reaches an unfinished task.
LEMMA KeptStep ==
  ASSUME QueueInv, [Next]_vars
  PROVE  ActiveIsKept'
<1> USE QueueAssumption DEF QueueAssumption, QueueInv, TypeOK, Handover, Tasks,
     Statuses, Terminal, ActiveIsKept, WorkerHandedOver
<1>1. CASE UNCHANGED vars
  BY <1>1 DEF vars
<1>2. ASSUME NEW t \in Tasks, Submit(t)
      PROVE  ActiveIsKept'
  BY <1>2 DEF Submit
<1>3. ASSUME NEW t \in Tasks, Send(t)
      PROVE  ActiveIsKept'
  BY <1>3 DEF Send
<1>4. ASSUME NEW t \in Tasks, SendStopped(t)
      PROVE  ActiveIsKept'
  BY <1>4 DEF SendStopped
<1>5. CASE Stop
  BY <1>5 DEF Stop
<1>6. CASE CloseStopCh
  BY <1>6 DEF CloseStopCh
<1>7. CASE Receive
  BY <1>7 DEF Receive
<1>8. CASE Exit
  BY <1>8 DEF Exit
<1>9. CASE RunTask
  BY <1>9 DEF RunTask
<1>10. ASSUME NEW result \in Terminal, FinishTask(result)
       PROVE  ActiveIsKept'
  BY <1>10 DEF FinishTask
<1>11. CASE List
  BY <1>11, ListDropsFinished DEF List
<1> QED
  BY <1>1, <1>2, <1>3, <1>4, <1>5, <1>6, <1>7, <1>8, <1>9, <1>10, <1>11
  DEF Next, SendStep, WorkerStep

-----------------------------------------------------------------------------
\* The invariant is inductive; everything below is a consequence of it.
THEOREM QueueInvariant == Spec => []QueueInv
<1>1. Init => QueueInv
  <2> SUFFICES ASSUME Init PROVE QueueInv
    OBVIOUS
  <2> USE QueueAssumption DEF QueueAssumption, Init, Tasks, NoTask
  <2>1. stopped \in BOOLEAN /\ closed \in BOOLEAN
    BY Zenon
  <2>2. TypeOK
    BY <2>1 DEF TypeOK, Statuses
  <2>3. Handover
    BY DEF Handover, NumberedInOrder, QueueHandedOver, WorkerHandedOver, SendingWaits
  <2> QED
    BY <2>2, <2>3 DEF QueueInv, RunningIsWorkers, ClosedAfterStopped,
       StoppedLeavesNoneQueued, FinishedHasEnd, ActiveIsKept, Terminal
<1>2. QueueInv /\ [Next]_vars => QueueInv'
  <2> SUFFICES ASSUME QueueInv, [Next]_vars PROVE QueueInv'
    OBVIOUS
  <2>1. TypeOK'
    BY TypeStep DEF QueueInv, Handover
  <2>2. Handover'
    BY NumberStep, QueueStep, WorkerStepKeeps, SendingStep DEF Handover
  <2> QED
    BY <2>1, <2>2, RunningStep, StoppedStep, EndStep, KeptStep DEF QueueInv
<1> QED
  BY <1>1, <1>2, PTL DEF Spec

\* The variables keep their types, and the channel its capacity.
THEOREM TypeCorrect == Spec => []TypeOK
<1>1. QueueInv => TypeOK
  BY DEF QueueInv
<1> QED
  BY <1>1, QueueInvariant, PTL

\* After Stop no task is left queued, whatever Submit was doing meanwhile.
THEOREM StopFailsQueued == Spec => []StoppedLeavesNoneQueued
<1>1. QueueInv => StoppedLeavesNoneQueued
  BY DEF QueueInv
<1> QED
  BY <1>1, QueueInvariant, PTL

\* A finished task always has the end time the prune by age needs.
THEOREM FinishedEnds == Spec => []FinishedHasEnd
<1>1. QueueInv => FinishedHasEnd
  BY DEF QueueInv
<1> QED
  BY <1>1, QueueInvariant, PTL

\* No prune of the history loses a task that is queued or running.
THEOREM ActiveNeverPruned == Spec => []ActiveIsKept
<1>1. QueueInv => ActiveIsKept
  BY DEF QueueInv
<1> QED
  BY <1>1, QueueInvariant, PTL

-----------------------------------------------------------------------------
\* A step of the queue is a step of the life cycle or leaves it alone.
LEMMA LifecycleStep ==
  ASSUME QueueInv, [Next]_vars
  PROVE  [Lifecycle!Next]_<<status, stopped>>
<1> USE QueueAssumption DEF QueueAssumption, QueueInv, TypeOK, Handover, Tasks,
     Statuses, Terminal, Lifecycle!Next, Lifecycle!Become
<1>1. CASE UNCHANGED vars
  BY <1>1 DEF vars
<1>2. ASSUME NEW t \in Tasks, Submit(t)
      PROVE  Lifecycle!Accept(t) \/ Lifecycle!Refuse(t)
  BY <1>2 DEF Submit, NumberedInOrder, Lifecycle!Accept, Lifecycle!Refuse
<1>3. ASSUME NEW t \in Tasks, Send(t)
      PROVE  UNCHANGED <<status, stopped>>
  BY <1>3 DEF Send
<1>4. ASSUME NEW t \in Tasks, SendStopped(t)
      PROVE  UNCHANGED <<status, stopped>>
  BY <1>4 DEF SendStopped, SendingWaits, ClosedAfterStopped, StoppedLeavesNoneQueued
<1>5. CASE Stop
  <2>1. Lifecycle!Stop
    BY <1>5 DEF Stop, Lifecycle!Stop, ActiveIsKept
  <2> QED
    BY <2>1
<1>6. CASE CloseStopCh \/ Receive \/ Exit \/ List
  BY <1>6 DEF CloseStopCh, Receive, Exit, List
<1>7. CASE RunTask
  <2>1. CASE status[worker.task] = "queued"
    <3>1. Lifecycle!Begin(worker.task)
      BY <1>7, <2>1 DEF RunTask, Lifecycle!Begin, RunningIsWorkers, StoppedLeavesNoneQueued,
         WorkerHandedOver
    <3> QED
      BY <1>7, <3>1 DEF RunTask, WorkerHandedOver
  <2>2. CASE status[worker.task] # "queued"
    BY <1>7, <2>2 DEF RunTask
  <2> QED
    BY <2>1, <2>2
<1>8. ASSUME NEW result \in Terminal, FinishTask(result)
      PROVE  Lifecycle!End(worker.task) /\ worker.task \in Tasks
  BY <1>8 DEF FinishTask, WorkerHandedOver, RunningIsWorkers, Lifecycle!End
<1> QED
  BY <1>1, <1>2, <1>3, <1>4, <1>5, <1>6, <1>7, <1>8 DEF Next, SendStep, WorkerStep

\* The channel, the two-phase Submit and Stop, the worker and the pruning
\* together implement the life cycle promised to the admin API.
THEOREM ImplementsLifecycle == Spec => RefinesLifecycle
<1>1. Init => Lifecycle!Init
  BY DEF Init, Lifecycle!Init
<1>2. QueueInv /\ [Next]_vars => [Lifecycle!Next]_<<status, stopped>>
  BY LifecycleStep
<1> QED
  BY <1>1, <1>2, QueueInvariant, PTL DEF Spec, RefinesLifecycle, Lifecycle!Spec
=============================================================================
