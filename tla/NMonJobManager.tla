--------------------------- MODULE NMonJobManager ---------------------------
(***************************************************************************)
(* The job monitor: NMonJob and NMonJobManager (mon/), the "jobs" route of *)
(* macros/builtin/mon/httpNgntMon.C, and the two scripts that feed it:     *)
(* ndmspc-sbatch.sh submits a job to Slurm and then registers it,          *)
(* ndmspc-sbatch-run.sh reports the start (R) and the end (D) of a task.   *)
(*                                                                         *)
(* A script's curl waits for the server's answer and ignores it, so that   *)
(* a request is one step of the script and of the server.  A job is the    *)
(* list each of its tasks is in; return codes, the order of a list and     *)
(* requests that are not well formed are left out.                         *)
(***************************************************************************)
EXTENDS Naturals

CONSTANTS Job, Task,
          NoJob,      \* no job of that name in fJobs
          MaxFaults   \* bound on lost requests, restarts, requeues, repeats

ASSUME MonitorAssumption == MaxFaults \in Nat

VARIABLES fJobs,   \* the manager's table: for each name the lists, or NoJob
          script,  \* ndmspc-sbatch.sh of a job: new, submitted, over
          task,    \* what a task really does: waiting, running, over
          missed,  \* tasks with a report that did not reach the job's entry
          faults

vars == <<fJobs, script, task, missed, faults>>

List == {"pending", "running", "done", "skipped"}

ASSUME NoJobAssumption == NoJob \notin [Task -> List]

Init ==
  /\ fJobs = [j \in Job |-> NoJob] /\ script = [j \in Job |-> "new"]
  /\ task = [j \in Job |-> [t \in Task |-> "waiting"]]
  /\ missed = [j \in Job |-> {}] /\ faults = 0

-----------------------------------------------------------------------------
(* NMonJob and NMonJobManager *)

\* ParseMessage and AddJob: all tasks pending, whatever was there before.
NewJob == [t \in Task |-> "pending"]

MoveTask(job, t, from, to) == IF job[t] = from THEN [job EXCEPT ![t] = to] ELSE job

\* The job's fJobName is the "" of the constructor, ParseMessage only sets the
\* name of TNamed: getSlurmId is empty, and Cancel does nothing.
CancelJob(job) == job

UpdateTask_DoneFromPending(job, t, action) ==
  CASE action = "R" -> MoveTask(job, t, "pending", "running")
    [] action = "D" -> MoveTask(job, t, "pending", "done")
    [] action = "S" -> MoveTask(job, t, "pending", "skipped")
    [] action = "C" -> CancelJob(job)

UpdateTask(job, t, action) ==
  CASE action = "R" -> MoveTask(job, t, "pending", "running")
    [] action = "D" -> MoveTask(job, t, "running", "done")
    [] action = "S" -> MoveTask(job, t, "pending", "skipped")
    [] action = "C" -> CancelJob(job)

IsFinished(job) == \A t \in Task : job[t] \notin {"pending", "running"}

\* PATCH: a job that is not in the table is refused.
Patched(j, t, action) ==
  IF fJobs[j] = NoJob THEN fJobs
  ELSE [fJobs EXCEPT ![j] = UpdateTask(fJobs[j], t, action)]

\* ClearFinishedJobs, then DeleteJob of the name, if the request has one.
Cleared(names) ==
  [j \in Job |-> IF j \in names \/ (fJobs[j] # NoJob /\ IsFinished(fJobs[j]))
                 THEN NoJob ELSE fJobs[j]]

-----------------------------------------------------------------------------
(* The scripts *)

Fault == faults < MaxFaults /\ faults' = faults + 1

\* sbatch of ndmspc-sbatch.sh: from now on Slurm may run the tasks.
Submit(j) ==
  /\ script[j] = "new" /\ script' = [script EXCEPT ![j] = "submitted"]
  /\ UNCHANGED <<fJobs, task, missed, faults>>

\* The POST that follows it.
Posts(j) ==
  /\ fJobs' = [fJobs EXCEPT ![j] = NewJob]
  /\ missed' = [missed EXCEPT ![j] = {t \in Task : task[j][t] # "waiting"}]

Register(j) ==
  /\ script[j] = "submitted" /\ script' = [script EXCEPT ![j] = "over"]
  /\ \/ Posts(j) /\ UNCHANGED faults
     \/ Fault /\ UNCHANGED <<fJobs, missed>>  \* the server is not reached
  /\ UNCHANGED task

\* A report of a task: its step from one state to the next, and the PATCH.
Report(j, t, now, action) ==
  /\ task' = [task EXCEPT ![j][t] = now]
  /\ \/ /\ fJobs' = Patched(j, t, action) /\ UNCHANGED faults
        /\ missed' = IF fJobs[j] = NoJob THEN [missed EXCEPT ![j] = @ \cup {t}] ELSE missed
     \/ Fault /\ UNCHANGED fJobs /\ missed' = [missed EXCEPT ![j] = @ \cup {t}]
  /\ UNCHANGED script

TaskStarts(j, t) ==
  script[j] # "new" /\ task[j][t] = "waiting" /\ Report(j, t, "running", "R")

TaskEnds(j, t) == task[j][t] = "running" /\ Report(j, t, "over", "D")

-----------------------------------------------------------------------------
(* What else may happen *)

\* Slurm runs a task again, on another node.
Requeue(j, t) ==
  /\ task[j][t] = "running" /\ Fault
  /\ task' = [task EXCEPT ![j][t] = "waiting"]
  /\ UNCHANGED <<fJobs, script, missed>>

\* A user registers a job once more.
RegisterAgain(j) ==
  /\ script[j] = "over" /\ Fault /\ Posts(j) /\ UNCHANGED <<script, task>>

\* The table lives in the server's memory.
ServerRestart ==
  /\ Fault /\ fJobs' = [j \in Job |-> NoJob]
  /\ UNCHANGED <<script, task, missed>>

\* Requests of a user: skip a task, cancel a job, delete one, clear.
SkipTask(j, t) ==
  /\ fJobs' = Patched(j, t, "S") /\ UNCHANGED <<script, task, missed, faults>>

Cancel(j, t) ==
  /\ fJobs' = Patched(j, t, "C") /\ UNCHANGED <<script, task, missed, faults>>

DeleteJob(j) ==
  /\ fJobs' = [fJobs EXCEPT ![j] = NoJob] /\ UNCHANGED <<script, task, missed, faults>>

\* Without a name the conversion of the missing name throws behind the clear:
\* the request fails, or takes the server with it.
ClearFinished(names) ==
  /\ \/ fJobs' = Cleared(names)
     \/ names = {} /\ fJobs' = [j \in Job |-> NoJob]
  /\ UNCHANGED <<script, task, missed, faults>>

ScriptStep(j) ==
  \/ Register(j)
  \/ \E t \in Task : TaskStarts(j, t) \/ TaskEnds(j, t)

Next ==
  \E j \in Job :
    \/ Submit(j) \/ ScriptStep(j) \/ RegisterAgain(j) \/ DeleteJob(j)
    \/ \E t \in Task : Requeue(j, t) \/ SkipTask(j, t) \/ Cancel(j, t)
    \/ ServerRestart \/ ClearFinished({}) \/ ClearFinished({j})

\* The scripts go on once they are started, and Slurm runs what was submitted.
Spec == Init /\ [][Next]_vars /\ \A j \in Job : WF_vars(ScriptStep(j))

-----------------------------------------------------------------------------
(* Properties *)

TypeOK ==
  /\ fJobs \in [Job -> [Task -> List] \cup {NoJob}]
  /\ script \in [Job -> {"new", "submitted", "over"}]
  /\ task \in [Job -> [Task -> {"waiting", "running", "over"}]]
  /\ missed \in [Job -> SUBSET Task] /\ faults \in Nat

\* What the table shows of a task is what the task does: nothing is shown as
\* done that has not ended, and a task whose reports all reached the job's
\* entry is shown running while it runs and done once it has ended, unless a
\* user skipped it: through restarts of the server, repeated registrations,
\* requeued tasks and deleted jobs.
TableIsTrue ==
  \A j \in Job, t \in Task :
    fJobs[j] # NoJob =>
      /\ fJobs[j][t] = "done" => task[j][t] = "over"
      /\ t \notin missed[j] =>
           /\ task[j][t] = "over" => fJobs[j][t] \in {"done", "skipped"}
           /\ task[j][t] = "running" => fJobs[j][t] \in {"running", "skipped"}

\* A registered job ends up finished in the table, unless a report of one of
\* its tasks was missed or the job is gone from the table.
JobFinishes ==
  \A j \in Job :
    script[j] = "over" ~> (missed[j] # {} \/ fJobs[j] = NoJob \/ IsFinished(fJobs[j]))
=============================================================================
