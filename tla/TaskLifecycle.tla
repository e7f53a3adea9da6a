--------------------------- MODULE TaskLifecycle ---------------------------
(***************************************************************************)
(* What internal/install promises the admin API, without channel, worker   *)
(* or retained history: a task is queued, runs alone, and ends once; Stop  *)
(* fails what is queued, and nothing starts after it.                      *)
(***************************************************************************)
CONSTANT Tasks

VARIABLES
  status,   \* the life of each task
  stopped   \* Stop was called

Statuses == {"new", "queued", "running", "done", "error"}

Init ==
  /\ status = [t \in Tasks |-> "new"]
  /\ stopped = FALSE

Become(t, from, to) ==
  /\ status[t] = from
  /\ status' = [status EXCEPT ![t] = to]
  /\ UNCHANGED stopped

Accept(t) == ~stopped /\ Become(t, "new", "queued")

Refuse(t) == stopped /\ Become(t, "new", "error")

Begin(t) ==
  /\ ~stopped
  /\ \A u \in Tasks : status[u] # "running"
  /\ Become(t, "queued", "running")

End(t) == Become(t, "running", "done") \/ Become(t, "running", "error")

Stop ==
  /\ ~stopped /\ stopped' = TRUE
  /\ status' = [t \in Tasks |-> IF status[t] = "queued" THEN "error" ELSE status[t]]

Next ==
  \/ Stop
  \/ \E t \in Tasks : Accept(t) \/ Refuse(t) \/ Begin(t) \/ End(t)

Spec == Init /\ [][Next]_<<status, stopped>>
=============================================================================
