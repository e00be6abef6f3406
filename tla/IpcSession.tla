----------------------------- MODULE IpcSession -----------------------------
(***************************************************************************)
(* A whole IPC or TCP session: the supervisor of NDimensionalExecutor and  *)
(* the workers of NDimensionalIpcRunner, interleaved.                      *)
(***************************************************************************)
EXTENDS NDimensionalExecutor

vars == <<toWorker, toSup, wpc, wdef, mem, file, faults, pc, sup, err, merged>>

supervisor == <<pc, sup, err, merged>>

Over == pc \in {"merged", "failed"}

Init == RunnerInit /\ ExecutorInit

WorkerNext(w) == (WorkerStep(w) \/ GiveUpInit(w, Over)) /\ UNCHANGED supervisor

Next ==
  \/ SupervisorStep \/ Deadline \/ UserInterrupt
  \/ \E w \in Worker : Receive(w)
  \/ \E w \in Worker : WorkerNext(w)
  \/ \E w \in Worker : WorkerFault(w) /\ UNCHANGED supervisor

\* What time brings about once a worker is silent: the supervisor gives up
\* the worker or the session.
DeadlinesOfSilent ==
  \/ \E w \in Worker : InactiveTcpWorker(w) /\ Silent(w)
  \/ GraceExpires
  \/ (InitTimeout \/ StartTimeout \/ Stall \/ FinishTimeout) /\ UNCHANGED faults

\* Both processes run.  A receive may time out although a message is on its
\* way, but not for ever; the deadline of a worker that is gone passes, although
\* the loop may poll any number of times before.
Fairness ==
  /\ WF_vars(SupervisorStep)
  /\ WF_vars(\E w \in Worker : WorkerNext(w))
  /\ SF_vars((\E w \in Worker : Receive(w)) \/ DeadlinesOfSilent)

Spec == Init /\ [][Next]_vars /\ Fairness

-----------------------------------------------------------------------------
(* Properties *)

InLoop == err = "none" /\ pc \in {"top", "dispatch", "cleanup", "receive", "idle"}

\* Messages and records have the shape the two sides expect; the counters of
\* type size_t never wrap below zero.
TypeOK ==
  /\ M!TypeOK
  /\ {sup.outstanding, sup.outstandingMessages, sup.acked} \subseteq Nat
  /\ sup.inFlight \in [Worker -> Nat] /\ sup.counts \in [Worker -> Nat]
  /\ sup.history \in [Worker -> SUBSET TaskId]
  /\ sup.vec \in Seq(Worker) /\ Range(sup.vec) \subseteq sup.registered
  /\ mem \in [Worker -> SUBSET Work]
  /\ "catchup" \notin Faults => \A w \in Worker : mem[w] \subseteq Entries
  /\ \A w \in Worker : file[w] = NoFile \/ file[w] \subseteq Work

\* The loop's counters mean what the loop's comment says: outstanding is the
\* number of tasks sent and not yet acknowledged, acked the number of tasks
\* done, through every replay of a failed worker's tasks (which ends with the
\* clean-up).
CountersAgree ==
  InLoop /\ pc # "cleanup" =>
    /\ sup.outstanding = Cardinality(M!Running(mgr))
    /\ sup.acked = Cardinality(mgr.fDone)

IsWork(m) == m.cmd \in {"TASK", "TASKB", "ACKB"} \/ (m.cmd = "ACK" /\ m.ids # << >>)

WorkIn(q) == Cardinality({i \in 1..Len(q) : IsWork(q[i])})

InTransit(w) == WorkIn(toWorker[w]) + WorkIn(toSup[w])

\* The messages that gate dispatch are those of registered workers, and for a
\* worker that is still serving they are really on their way: no removed
\* worker leaves a ghost behind that would stop dispatch for good.
NoGhostMessages ==
  InLoop => /\ sup.outstandingMessages = SumFunctionOnSet(sup.inFlight, sup.registered)
            /\ \A w \in sup.registered : wpc[w] = "loop" => sup.inFlight[w] = InTransit(w)

\* Every task that is running or done is in the replay history of exactly one
\* worker, one that is still registered, and a done task was really processed
\* there under the current definition: losing any worker replays all of its
\* work, and a late acknowledgement of a removed worker counts for nothing.
ReplayCovers ==
  InLoop =>
    /\ \A t \in M!Running(mgr) \cup mgr.fDone :
         \E w \in sup.registered :
           /\ \A v \in Worker : t \in sup.history[v] <=> v = w
           /\ t \in mgr.fDone => <<sup.def, t>> \in mem[w]
           /\ t \in M!Running(mgr) => M!GetTaskWorker(mgr, t) = w
    /\ \A w \in Worker : sup.counts[w] = Cardinality(mgr.fDone \cap sup.history[w])

\* The loop never ends in one of its own consistency errors.
NoInternalError == err \notin {"underflow", "unacknowledged"}

\* DONE says that the worker has written its results file.
DoneMeansSaved == \A w \in sup.doneWorkers : file[w] # NoFile

\* A session that ends well has merged the result of every task, once.
MergeComplete == pc = "merged" => \A e \in Entries : merged[e] = 1

\* With several definitions a merge never holds a result twice, whatever was
\* replayed, and it holds every result of the last definition.
MergeExact ==
  pc = "merged" => \A e \in Entries : merged[e] <= 1 /\ (e[1] = Len(TasksOf) => merged[e] = 1)

\* The merge skips a worker as having "processed 0 tasks" only when its results
\* file holds nothing.
SkippedWorkersAreEmpty ==
  pc = "merged" => \A w \in Worker \ Mergeable : file[w] \in {NoFile, {}}

\* The session ends, whatever happens to the workers.
SessionEnds == <>Over

\* No worker process outlives the session.
WorkersEnd == <>(\A w \in Worker : Gone(w))

\* Unless a fault happens the session ends well, whenever the workers join.
SessionSucceeds == <>(pc = "merged" \/ faults > 0)
=============================================================================
