--------------------------- MODULE TaskLifecycle ---------------------------
(***************************************************************************)
(* What the compute queue promises about a task, whatever happens to       *)
(* workers, leases and the coordinator: it becomes open, it is handed out  *)
(* at most MaxAttempts times and only while it is open, and its outcome,   *)
(* once there is one, is final.                                            *)
(***************************************************************************)
EXTENDS Naturals

CONSTANTS Tasks, MaxAttempts, Legacy

VARIABLES
    status,     \* what the durable state says of a task
    grants      \* how often the task was handed to a worker

lifecycleVars == <<status, grants>>

\* The statuses that may follow s; a task can be accepted, executed and
\* answered between two successful saves.
Successors(s) ==
    CASE s = "unknown" -> {"unknown", "open", "completed", "failed"}
      [] s = "open"    -> {"open", "completed", "failed"}
      [] OTHER         -> {s}

Init ==
    /\ status = [t \in Tasks |-> IF t \in Legacy THEN "open" ELSE "unknown"]
    /\ grants = [t \in Tasks |-> 0]

\* A durable update: any tasks move forward.
Advance ==
    /\ status' \in [Tasks -> {"unknown", "open", "completed", "failed"}]
    /\ \A t \in Tasks : status'[t] \in Successors(status[t])

\* One open task is handed to a worker in the same update.
Grant(t) ==
    /\ grants[t] < MaxAttempts
    /\ Advance
    /\ status'[t] = "open"
    /\ grants' = [grants EXCEPT ![t] = @ + 1]

Move == Advance /\ UNCHANGED grants

Next == Move \/ \E t \in Tasks : Grant(t)

Spec == Init /\ [][Next]_lifecycleVars

=============================================================================
