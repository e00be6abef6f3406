----------------------------- MODULE TaskLedger -----------------------------
(***************************************************************************)
(* What a task bookkeeper promises, without queues, payloads or workers:   *)
(* every task is unknown, pending, running or done, it is handed out only  *)
(* while pending, completed only while running, and work that was handed   *)
(* out or completed may be put back, but never silently forgotten.         *)
(***************************************************************************)
CONSTANT TaskId

VARIABLE status

Statuses == {"unknown", "pending", "running", "done"}

Init == status = [t \in TaskId |-> "unknown"]

\* A new task is announced.
Submit(t) ==
  /\ status[t] = "unknown"
  /\ status' = [status EXCEPT ![t] = "pending"]

\* A pending task is handed out.
Start(t) ==
  /\ status[t] = "pending"
  /\ status' = [status EXCEPT ![t] = "running"]

\* A running task is finished.
Complete(t) ==
  /\ status[t] = "running"
  /\ status' = [status EXCEPT ![t] = "done"]

\* Tasks that were handed out or finished are put back together.
PutBack(S) ==
  /\ \A t \in S : status[t] \in {"running", "done"}
  /\ status' = [t \in TaskId |-> IF t \in S THEN "pending" ELSE status[t]]

\* The bookkeeper starts over.
Reset == status' = [t \in TaskId |-> "unknown"]

Next ==
  \/ \E t \in TaskId : Submit(t) \/ Start(t) \/ Complete(t)
  \/ \E S \in SUBSET TaskId : PutBack(S)
  \/ Reset

Spec == Init /\ [][Next]_status
=============================================================================
