----------------------- MODULE NMonJobManager_proofs ------------------------
(***************************************************************************)
(* The table of the job monitor never claims what did not happen, for any  *)
(* set of jobs and tasks and any number of faults: proof that TypeOK and   *)
(* TableIsTrue together are inductive.                                     *)
(***************************************************************************)
EXTENDS NMonJobManager, TLAPS

Inv == TypeOK /\ TableIsTrue

\* UpdateTask keeps a job well formed and changes no other task's list.
LEMMA UpdateTaskType ==
  ASSUME NEW job \in [Task -> List], NEW t \in Task, NEW action \in {"R", "D", "S", "C"}
  PROVE  /\ UpdateTask(job, t, action) \in [Task -> List]
         /\ \A u \in Task \ {t} : UpdateTask(job, t, action)[u] = job[u]
BY DEF UpdateTask, MoveTask, CancelJob, List

\* What UpdateTask does to the task itself: R, D and S each move it from one
\* list only, and Cancel leaves it where it is.
LEMMA UpdateTaskMoves ==
  ASSUME NEW job \in [Task -> List], NEW t \in Task
  PROVE  /\ UpdateTask(job, t, "R")[t] = IF job[t] = "pending" THEN "running" ELSE job[t]
         /\ UpdateTask(job, t, "D")[t] = IF job[t] = "running" THEN "done" ELSE job[t]
         /\ UpdateTask(job, t, "S")[t] = IF job[t] = "pending" THEN "skipped" ELSE job[t]
         /\ UpdateTask(job, t, "C")[t] = job[t]
BY DEF UpdateTask, MoveTask, CancelJob, List

\* A PATCH of one task leaves the rest of the table alone.
LEMMA PatchedType ==
  ASSUME TypeOK, NEW j \in Job, NEW t \in Task, NEW action \in {"R", "D", "S", "C"}
  PROVE  /\ Patched(j, t, action) \in [Job -> [Task -> List] \cup {NoJob}]
         /\ \A i \in Job \ {j} : Patched(j, t, action)[i] = fJobs[i]
         /\ fJobs[j] = NoJob <=> Patched(j, t, action)[j] = NoJob
         /\ fJobs[j] # NoJob => /\ fJobs[j] \in [Task -> List]
                                /\ Patched(j, t, action)[j] = UpdateTask(fJobs[j], t, action)
<1>1. CASE fJobs[j] = NoJob
  BY <1>1 DEF Patched, TypeOK
<1>2. CASE fJobs[j] # NoJob
  <2>1. fJobs[j] \in [Task -> List]
    BY <1>2 DEF TypeOK
  <2>2. UpdateTask(fJobs[j], t, action) \in [Task -> List]
    BY <2>1, UpdateTaskType
  <2>3. UpdateTask(fJobs[j], t, action) # NoJob
    BY <2>2, NoJobAssumption
  <2> QED
    BY <1>2, <2>1, <2>2, <2>3 DEF Patched, TypeOK
<1> QED
  BY <1>1, <1>2

LEMMA InitInv == Init => Inv
BY MonitorAssumption, NoJobAssumption DEF Init, Inv, TypeOK, TableIsTrue, List

\* A report that reaches the server, or is lost on the way.
LEMMA ReportInv ==
  ASSUME Inv, NEW j \in Job, NEW t \in Task, TaskStarts(j, t) \/ TaskEnds(j, t)
  PROVE  Inv'
<1> DEFINE action == IF task[j][t] = "waiting" THEN "R" ELSE "D"
           now == IF task[j][t] = "waiting" THEN "running" ELSE "over"
<1>0. TypeOK /\ TableIsTrue
  BY DEF Inv
<1>1. /\ task[j][t] \in {"waiting", "running"}
      /\ task' = [task EXCEPT ![j][t] = now]
      /\ UNCHANGED script
  BY DEF TaskStarts, TaskEnds, Report
<1>2. task' \in [Job -> [Task -> {"waiting", "running", "over"}]]
  BY <1>0, <1>1 DEF TypeOK
<1>3. /\ task'[j][t] = now
      /\ \A i \in Job, u \in Task : i # j \/ u # t => task'[i][u] = task[i][u]
  BY <1>0, <1>1 DEF TypeOK
<1>4. CASE fJobs' = Patched(j, t, action) /\ UNCHANGED faults
           /\ missed' = IF fJobs[j] = NoJob THEN [missed EXCEPT ![j] = @ \cup {t}] ELSE missed
  <2>1. action \in {"R", "D", "S", "C"}
    OBVIOUS
  <2> HIDE DEF action, now
  <2>2. /\ fJobs' \in [Job -> [Task -> List] \cup {NoJob}]
        /\ \A i \in Job \ {j} : fJobs'[i] = fJobs[i]
        /\ fJobs[j] = NoJob <=> fJobs'[j] = NoJob
        /\ fJobs[j] # NoJob => /\ fJobs[j] \in [Task -> List]
                               /\ fJobs'[j] = UpdateTask(fJobs[j], t, action)
    BY <1>0, <1>4, <2>1, PatchedType
  <2>3. missed' \in [Job -> SUBSET Task] /\ \A i \in Job : missed[i] \subseteq missed'[i]
    BY <1>0, <1>4 DEF TypeOK
  <2>4. TypeOK'
    BY <1>0, <1>1, <1>2, <1>4, <2>2, <2>3 DEF TypeOK
  <2>5. ASSUME NEW i \in Job, NEW u \in Task, fJobs'[i] # NoJob
        PROVE  /\ fJobs'[i][u] = "done" => task'[i][u] = "over"
               /\ u \notin missed'[i] =>
                    /\ task'[i][u] = "over" => fJobs'[i][u] \in {"done", "skipped"}
                    /\ task'[i][u] = "running" => fJobs'[i][u] \in {"running", "skipped"}
    <3>1. CASE i # j
      BY <1>0, <1>3, <2>2, <2>3, <2>5, <3>1 DEF TableIsTrue
    <3>2. CASE i = j /\ u # t
      <4>1. fJobs'[j][u] = fJobs[j][u]
        BY <2>1, <2>2, <2>5, <3>2, UpdateTaskType
      <4> QED
        BY <1>0, <1>3, <2>2, <2>3, <2>5, <3>2, <4>1 DEF TableIsTrue
    <3>3. CASE i = j /\ u = t
      <4>1. fJobs[j] \in [Task -> List] /\ fJobs[j] # NoJob /\ fJobs'[j] = UpdateTask(fJobs[j], t, action)
        BY <2>2, <2>5, <3>3
      <4>2. missed' = missed
        BY <1>4, <4>1
      <4>3. fJobs[j][t] \in List /\ (fJobs[j][t] = "done" => task[j][t] = "over")
        BY <1>0, <4>1 DEF TableIsTrue
      <4>4. CASE task[j][t] = "waiting"
        <5>1. fJobs'[j][t] = IF fJobs[j][t] = "pending" THEN "running" ELSE fJobs[j][t]
          BY <4>1, <4>4, UpdateTaskMoves DEF action
        <5> QED
          BY <1>3, <3>3, <4>3, <4>4, <5>1 DEF now, List
      <4>5. CASE task[j][t] = "running"
        <5>1. fJobs'[j][t] = IF fJobs[j][t] = "running" THEN "done" ELSE fJobs[j][t]
          BY <4>1, <4>5, UpdateTaskMoves DEF action
        <5>2. t \notin missed[j] => fJobs[j][t] \in {"running", "skipped"}
          BY <1>0, <4>1, <4>5 DEF TableIsTrue
        <5> QED
          BY <1>3, <3>3, <4>2, <4>3, <4>5, <5>1, <5>2 DEF now
      <4> QED
        BY <1>1, <4>4, <4>5
    <3> QED
      BY <3>1, <3>2, <3>3
  <2>6. TableIsTrue'
    BY <2>5 DEF TableIsTrue
  <2> QED
    BY <2>4, <2>6 DEF Inv
<1>5. CASE Fault /\ UNCHANGED fJobs /\ missed' = [missed EXCEPT ![j] = @ \cup {t}]
  <2> HIDE DEF action
  <2>1. missed' \in [Job -> SUBSET Task] /\ t \in missed'[j] /\ \A i \in Job : missed[i] \subseteq missed'[i]
    BY <1>0, <1>5 DEF TypeOK
  <2>2. faults' \in Nat
    BY <1>0, <1>5 DEF TypeOK, Fault
  <2>3. TypeOK'
    BY <1>0, <1>1, <1>2, <1>5, <2>1, <2>2 DEF TypeOK
  <2>4. fJobs[j] # NoJob => fJobs[j][t] # "done"
    BY <1>0, <1>1 DEF TableIsTrue
  <2>5. TableIsTrue'
    BY <1>0, <1>3, <1>5, <2>1, <2>4 DEF TableIsTrue
  <2> QED
    BY <2>3, <2>5 DEF Inv
<1> QED
  BY <1>4, <1>5 DEF TaskStarts, TaskEnds, Report

\* A registration makes every task of the job pending, and those that have
\* started are known to be missed.
LEMMA PostsInv ==
  ASSUME Inv, NEW j \in Job, Posts(j), UNCHANGED task,
         script' \in [Job -> {"new", "submitted", "over"}], faults' \in Nat
  PROVE  Inv'
<1>1. /\ NewJob \in [Task -> List] /\ NewJob # NoJob
      /\ \A t \in Task : NewJob[t] = "pending"
  BY NoJobAssumption DEF NewJob, List
<1>2. TypeOK'
  BY <1>1 DEF Inv, TypeOK, Posts
<1>3. ASSUME NEW i \in Job, NEW t \in Task, fJobs'[i] # NoJob
      PROVE  /\ fJobs'[i][t] = "done" => task'[i][t] = "over"
             /\ t \notin missed'[i] =>
                  /\ task'[i][t] = "over" => fJobs'[i][t] \in {"done", "skipped"}
                  /\ task'[i][t] = "running" => fJobs'[i][t] \in {"running", "skipped"}
  <2>1. CASE i = j
    <3>1. fJobs'[j] = NewJob /\ missed'[j] = {u \in Task : task[j][u] # "waiting"}
      BY DEF Inv, TypeOK, Posts
    <3> QED
      BY <1>1, <2>1, <3>1
  <2>2. CASE i # j
    BY <1>3, <2>2 DEF Inv, TypeOK, TableIsTrue, Posts
  <2> QED
    BY <2>1, <2>2
<1> QED
  BY <1>2, <1>3 DEF Inv, TableIsTrue

\* Entries that are taken out of the table, with the rest as it was.
LEMMA RemovalInv ==
  ASSUME Inv, UNCHANGED <<script, task, missed>>, faults' \in Nat,
         fJobs' \in [Job -> [Task -> List] \cup {NoJob}],
         \A j \in Job : fJobs'[j] \in {fJobs[j], NoJob}
  PROVE  Inv'
BY DEF Inv, TypeOK, TableIsTrue

\* A request of a user: only pending tasks are skipped, nothing is cancelled.
LEMMA UserPatchInv ==
  ASSUME Inv, NEW j \in Job, NEW t \in Task, NEW action \in {"S", "C"},
         fJobs' = Patched(j, t, action), UNCHANGED <<script, task, missed, faults>>
  PROVE  Inv'
<1>0. TypeOK /\ TableIsTrue /\ action \in {"R", "D", "S", "C"}
  BY DEF Inv
<1>1. /\ fJobs' \in [Job -> [Task -> List] \cup {NoJob}]
      /\ \A i \in Job \ {j} : fJobs'[i] = fJobs[i]
      /\ fJobs[j] = NoJob <=> fJobs'[j] = NoJob
      /\ fJobs[j] # NoJob => /\ fJobs[j] \in [Task -> List]
                             /\ fJobs'[j] = UpdateTask(fJobs[j], t, action)
  BY <1>0, PatchedType
<1>2. TypeOK'
  BY <1>0, <1>1 DEF TypeOK
<1>3. ASSUME NEW i \in Job, NEW u \in Task, fJobs'[i] # NoJob
      PROVE  fJobs[i] # NoJob /\ fJobs'[i][u] \in {fJobs[i][u], "skipped"}
  <2>1. CASE i # j
    BY <1>1, <1>3, <2>1
  <2>2. CASE i = j /\ u # t
    <3>1. fJobs[j] # NoJob /\ fJobs[j] \in [Task -> List] /\ fJobs'[j] = UpdateTask(fJobs[j], t, action)
      BY <1>1, <1>3, <2>2
    <3>2. UpdateTask(fJobs[j], t, action)[u] = fJobs[j][u]
      BY <1>0, <2>2, <3>1, UpdateTaskType
    <3> QED
      BY <2>2, <3>1, <3>2
  <2>3. CASE i = j /\ u = t
    BY <1>1, <1>3, <2>3, UpdateTaskMoves
  <2> QED
    BY <2>1, <2>2, <2>3
<1>4. TableIsTrue'
  BY <1>0, <1>3 DEF TableIsTrue
<1> QED
  BY <1>2, <1>4 DEF Inv

LEMMA RequeueInv ==
  ASSUME Inv, NEW j \in Job, NEW t \in Task, Requeue(j, t)
  PROVE  Inv'
<1>1. TypeOK'
  BY DEF Inv, TypeOK, Requeue, Fault
<1>2. /\ task'[j][t] = "waiting" /\ task[j][t] = "running"
      /\ \A i \in Job, u \in Task : i # j \/ u # t => task'[i][u] = task[i][u]
  BY DEF Inv, TypeOK, Requeue
<1>3. TableIsTrue'
  BY <1>2 DEF Inv, TableIsTrue, Requeue
<1> QED
  BY <1>1, <1>3 DEF Inv

LEMMA NextInv == Inv /\ [Next]_vars => Inv'
<1> SUFFICES ASSUME Inv, [Next]_vars PROVE Inv'
  OBVIOUS
<1>0. TypeOK /\ faults \in Nat
  BY DEF Inv, TypeOK
<1>1. CASE UNCHANGED vars
  BY <1>1 DEF Inv, TypeOK, TableIsTrue, vars
<1>2. ASSUME NEW j \in Job, Submit(j) PROVE Inv'
  BY <1>2 DEF Inv, TypeOK, TableIsTrue, Submit
<1>3. ASSUME NEW j \in Job, Register(j) PROVE Inv'
  <2>1. UNCHANGED task /\ script' \in [Job -> {"new", "submitted", "over"}]
    BY <1>0, <1>3 DEF Register, TypeOK
  <2>2. CASE Posts(j) /\ UNCHANGED faults
    BY <1>0, <2>1, <2>2, PostsInv
  <2>3. CASE Fault /\ UNCHANGED <<fJobs, missed>>
    BY <1>0, <2>1, <2>3 DEF Inv, TypeOK, TableIsTrue, Fault
  <2> QED
    BY <1>3, <2>2, <2>3 DEF Register
<1>4. ASSUME NEW j \in Job, NEW t \in Task, TaskStarts(j, t) \/ TaskEnds(j, t) PROVE Inv'
  BY <1>4, ReportInv
<1>5. ASSUME NEW j \in Job, RegisterAgain(j) PROVE Inv'
  <2>1. Posts(j) /\ UNCHANGED task /\ script' = script /\ faults' \in Nat
    BY <1>0, <1>5 DEF RegisterAgain, Fault
  <2> QED
    BY <1>0, <2>1, PostsInv DEF TypeOK
<1>6. ASSUME NEW j \in Job, DeleteJob(j) PROVE Inv'
  BY <1>0, <1>6, RemovalInv DEF DeleteJob, TypeOK
<1>7. ASSUME NEW j \in Job, NEW t \in Task, Requeue(j, t) PROVE Inv'
  BY <1>7, RequeueInv
<1>8. ASSUME NEW j \in Job, NEW t \in Task, SkipTask(j, t) \/ Cancel(j, t) PROVE Inv'
  BY <1>8, UserPatchInv DEF SkipTask, Cancel
<1>9. CASE ServerRestart
  BY <1>0, <1>9, RemovalInv DEF ServerRestart, Fault, TypeOK
<1>10. ASSUME NEW names, ClearFinished(names) PROVE Inv'
  <2>1. /\ fJobs' \in [Job -> [Task -> List] \cup {NoJob}]
        /\ \A j \in Job : fJobs'[j] \in {fJobs[j], NoJob}
    BY <1>0, <1>10 DEF ClearFinished, Cleared, TypeOK
  <2> QED
    BY <1>0, <1>10, <2>1, RemovalInv DEF ClearFinished
<1> QED
  BY <1>1, <1>2, <1>3, <1>4, <1>5, <1>6, <1>7, <1>8, <1>9, <1>10 DEF Next, ScriptStep

\* The table of the job monitor is well formed and true in every reachable
\* state: nothing is shown as done that has not ended, and a task all of whose
\* reports arrived is shown as what it is.
THEOREM TableAlwaysTrue == Spec => [](TypeOK /\ TableIsTrue)
<1>1. Init => Inv
  BY InitInv
<1>2. Inv /\ [Next]_vars => Inv'
  BY NextInv
<1>3. Inv => TypeOK /\ TableIsTrue
  BY DEF Inv
<1> QED
  BY <1>1, <1>2, <1>3, PTL DEF Spec
=============================================================================
