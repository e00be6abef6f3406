# TLA+ verification of ndmspc

ndmspc processes N-dimensional spaces of bins with ROOT.  Its own core logic is
the distribution of the work: `NGnTree::Process` hands the bins of each binning
definition to a pool of threads, to forked processes or to workers that connect
over TCP, survives the loss of workers, and merges the files they leave behind.
Around it are a monitor for Slurm jobs and an HTTP and WebSocket server through
which a browser opens a tree and walks through it.  That machinery is what this
project models, checks with TLC and proves about with TLAPS.

## 1. Inventory

| Component | State | Operations | Interacts with | Hard behaviours |
|---|---|---|---|---|
| `NTaskStateManager` | pending queue and its id index, running map, done set, task-to-worker and worker-to-tasks maps, payloads | add, start, claim, assign, mark done or failed, requeue, recover a worker, remove, clear | called by the supervisor | long call sequences; two maps and an index that must not drift |
| `ExecuteParallel` | task queue, `active_tasks`, `stop_pool`, `first_exception`, two mutexes, two condition variables | enqueue, fetch, run, exception and drain, wait, join | threads share everything | lost wakeups, exceptions on either side, counter leaks |
| IPC/TCP supervisor (`StartProcessIpc`, `ExecuteCurrentBoundsProcessIpc`, `FinishProcessIpc`) | worker registry, failed and seen sets, per-worker history, in-flight counts, `outstanding`, `outstandingMessages`, `acked` | start, INIT handshake, dispatch, receive, replay, time out, stop | ZeroMQ ROUTER to the workers; task manager; `NGnTree` | crashes, false timeouts, late ACKs, late joins, partial sends, restart of task numbers |
| IPC/TCP worker (`NDimensionalIpcRunner::TaskLoop`, `WorkerLoop`) | current definition, processed entries, results file | connect, INIT, SETDEF, TASK, TASKB, STOP, interrupt, save, DONE | ZeroMQ DEALER | stop inside a batch, save after ACK, `ZMQ_LINGER=0` |
| `NGnTree::Process`, `NGnThreadData::Merge` | per-worker processed counts, merge list | loop over definitions, select files, merge | executor | stale counts, missing files |
| coordinate iteration (`Increment`, `Execute`, `SetBounds`) | bounds, current coordinates | odometer step | all executors | carry and wrap at the bounds |
| `InitTcpWorker`, `HandleBootstrap`, `ndmspc-worker` | index assignments, next index, kept READY messages, pending INITs | BOOTSTRAP, CONFIG, REJECT, READY, INIT, ACK, STOP | supervisor, ZeroMQ identities | index exhaustion, restarts under an old identity, messages of others during one worker's handshake |
| job monitor (`NMonJob`, `NMonJobManager`, `jobs` route, `ndmspc-sbatch*.sh`) | task lists per job, job table | register, start, done, skip, cancel, delete, clear | Slurm, HTTP server | lost and late reports, job replaced under its name, restart of the server |
| WebSocket client (`NWsClient`) | connection flags, outgoing queue, service thread, message buffer | connect with retries, send, disconnect, callbacks | libwebsockets thread, handler | lost wakeup, send racing a close, disconnect waiting for a queue nobody empties |
| WebSocket handler (`NWsHandler`), heartbeat thread (`NHttpServer`) | client table, heartbeat thread | connect, data, close, broadcast, heartbeat, new interval | main thread of the server, its clients | who hears of whom in which order, restart of the thread |
| HTTP server, `ngnt` routes, workspace, history | tree, navigator, workspace, point, history of requests | POST, PATCH, DELETE | ROOT `THttpServer` | repeated, refused and undone requests |
| binning, storage, navigator, parameters, utilities, hep, numcal, legacy | ROOT objects | numeric and I/O code | - | none that a model checker reaches |

What makes each modelled component correct:

* **Task manager**: no call sequence loses or duplicates a task, the index and
  the assignment maps always describe the queue and the running set, a task
  keeps its payload, dispatch is first in, first out.
* **Thread pool**: every task runs once or is dropped because of an exception;
  the first exception is the one rethrown; the pool winds down.
* **Session**: the counters that end the loop are exact through every failure;
  all work of a lost worker is replayed; nothing late or stale is counted; the
  session ends whatever happens; no worker outlives it; a merge that succeeds
  holds every entry once.

* **Joining a session**: no index is given twice, nobody who announced himself is
  forgotten, nobody replaces a registered worker, every worker is answered or ends.
* **Job monitor**: the table never shows what did not happen, and a job whose
  reports all arrived ends up finished.
* **WebSocket**: messages arrive in order and on their own connection, none that
  was accepted is lost by a `Disconnect`, every client knows who is connected,
  every call returns.
* **HTTP history**: it is a stack, and it describes the objects the server holds.

The hazards of this code, each at its line and with the properties that would
catch it, are in `PROJECT.json`.

## 2. Modules

| Module | Models | Notes |
|---|---|---|
| `TaskLedger` | - | abstract specification: a task is unknown, pending, running or done |
| `NTaskStateManager` | `core/NTaskStateManager.cxx` | one action per public method; `ImplementsLedger` maps it to `TaskLedger` |
| `NTaskStateManager_proofs` | - | TLAPS proofs |
| `ExecuteParallel` | `ExecuteParallel` in `core/NDimensionalExecutor.cxx` | main and worker threads between two lock operations |
| `NDimensionalIpcRunner` | `core/NDimensionalIpcRunner.cxx`, worker mode of `NGnTree::Process` | the workers and the connection |
| `NDimensionalExecutor` | the supervisor, definition loop and merge | uses the methods of `NTaskStateManager` through `INSTANCE` |
| `IpcSession` | both, interleaved | composition, fairness, properties |
| `MCIpcSession` | - | task counts for TLC |
| `TcpBootstrap`, `MCTcpBootstrap` | `ndmspc-worker.cxx`, worker branch of `NGnTree::Process`, `StartProcessIpc`, `InitTcpWorker`, `HandleBootstrap`, late join, `FinishProcessIpc` | who gets which index and how he joins; tasks are in the session |
| `NWsHandler` | `http/NWsHandler.cxx`, heartbeat of `http/NHttpServer.cxx` | server side of a WebSocket |
| `NWsClient` | `base/NWsClient.cxx` | caller and service thread |
| `WebSocketSession` | both, composed | fairness, properties |
| `NgntRoutes` | `macros/builtin/httpNgnt.C`, `httpNgntBase.C` | handlers as functions of the server's state |
| `NGnHttpServer` | `http/NGnHttpServer.cxx`, `http/NGnWorkspace.cxx` | requests and the history, on top of `NgntRoutes` |
| `NMonJobManager` | `mon/`, `httpNgntMon.C`, `scripts/mon/` | table, route and scripts |
| `NMonJobManager_proofs` | - | TLAPS proofs |
| `CommonLemmas` | - | lemmas about naturals, functions and queues that the proofs share |
| `ExecuteParallel_proofs`, `TcpBootstrap_proofs`, `IpcSession_proofs`, `WebSocketSession_proofs`, `NGnHttpServer_proofs` | - | TLAPS proofs |
| `MCExecuteParallel` | - | bounds for TLC |

### Task manager
The state is one record `mgr` with the fields of the class.  Each method is an
operator from record to record (`MarkDone(m, id)`, ...), used by an action of
the manager's own specification and by the supervisor.  A key missing from a map
is a sentinel (`NoPayload`, `NoWorker`, the empty set).

The supervisor calls some methods in loops (requeue a worker's history, mark the
tasks of a batch done, add and claim a batch).  The session uses closed forms of
these loops (`RequeueAll`, `MarkAllDone`, `AddAndClaim`); `LoopsMatchCalls`
checks in every reachable state of the manager that they equal the call-by-call
loops, in every order of the calls.

### Thread pool
A step is a region that keeps `queue_mutex`, or one atomic or notify operation
outside it; this is exactly where the code can be interleaved.  Notifications
nobody waits for are lost, wakeups may be spurious (bounded by `MaxSpurious`).
A task is the coordinate vector it is for; main counts through the bounds with
`Increment`.  A task may throw, and so may the enqueueing loop (`Raisers`).
`runs`, `leaked` and `failed` are history variables.

### Session
A task is its number, because `NGnTree` sets the bounds to {0}..{n-1}; an entry
is a pair of definition and task.  `sup` is the supervisor's data: the
`IpcSession` struct, the executor's members and the locals of the call.  One
pass of the main loop is the walk `top`, `dispatch`, `cleanup`, `receive`
(`idle`) of `pc`; a worker can step between any two of them.  Channels are FIFO
per worker and direction, as ZeroMQ keeps one connection in order, and may lose
a tail when a process is killed or closes with `ZMQ_LINGER=0`.

Faults are chosen from `Faults`, at most `MaxFaults` in a behaviour: `crash` (kill
-9), `interrupt` (signal at a worker), `error` (a task throws), `user` (Ctrl+C at the
supervisor), `timeout` (a live TCP worker is declared inactive), `ack` (a worker
cannot send an acknowledgement and leaves), `init` (the INIT or READY deadline passes
early), `stall` (the stall timeout passes although messages are under way), `send` (a
send of the supervisor fails, and the code looks at the result: INIT at startup and to
a late worker, SETDEF at the start of a definition, TASK and TASKB), `catchup` (the
definition sent to a late worker gets lost, a send whose result the code ignores),
`linger`, `copy` (the copy of the results file fails), `slow` (a forked child does not
exit within 1.5 s), `done` (the DONE deadline passes early). Deadlines on a peer that
is gone pass without a fault.

Abstractions worth knowing: SETDEF and SETIDS, sent back to back, are one message,
which fails as a whole; a worker that missed it takes task numbers for those of the
definition its own binning is at (`Work` holds these entries, too): the one of the
last SETDEF, or in the beginning `OwnDef`, the first or another than all the
supervisor sends, as the worker's macro has it; STOP, sent up to three times, is one;
`dispatchMessageId` is kept modulo a multiple of every possible number of workers,
which is all the code uses it for; progress reports and the text of errors are left
out (an error is its kind); an empty batch, on which the code repeats the same
iteration for ever, blocks the model.

### Joining a session
A member of `Proc` is one life of a worker process, so that a restart is another
member.  `Given` is the index of the command line, if any.  `owner` is the peer the
ROUTER socket has for `wk_<index>`: a second peer under the same identity is
refused until the first is seen to be gone.  The supervisor's `initing` is the
identity whose ACK `InitTcpWorker` waits for; what others send meanwhile is kept
(READY), answered (BOOTSTRAP) or dropped.  `Remove` is `HandleWorkerFailure`, from
which a process may come back under its old index.
A process that ended is `gone`, whatever the reason, and what is sent to it is lost.

### WebSocket
The server's events are handled one after the other by its main thread, the
heartbeat has a thread of its own, the client has two threads: the caller, between
any two accesses to shared state, and the service thread, where a callback is one
step.  `Peer` are other browsers.  `faulty` records the connections on which a
write failed, the link broke or the service loop ended, `budget` bounds faults and
what peers do.

### HTTP
The state is one record `srv`.  A handler is a function from state to state and
outcome; `ok` stands for the ROOT calls it makes.  The key of a schema holds the
file it was made for, which is how a stale schema shows.  A request is one action,
with the entry that is made before the handler, unmade when it fails, and the
DELETE handlers of all newer entries in between.

### Job monitor
A script's request and the server's handling of it are one step, because `curl`
waits for the answer and the script ignores it.  `task` is what Slurm really runs,
`missed` the tasks with a report that did not reach the job's entry.

## 3. Runs

The passing runs take from a few seconds to two and a half minutes.  `CHECK_DEADLOCK FALSE` is
set where the system really stops or waits for somebody outside the model: the
pool and the sessions end, a server without clients is quiet.  The task manager
never is.

| Run | Bounds | Shows |
|---|---|---|
| `task_manager` | 3 tasks, 2 workers, 2 payloads | consistency, FIFO, the supervisor's loops, refinement of `TaskLedger` |
| `pool` | 2 threads, bounds <<-1,3>> to <<0,4>>, 1 spurious wakeup, tasks and enqueueing may throw | every coordinate once, counter, exceptions, termination of the workers |
| `ipc_faults` | 2 children, 3 tasks, 1 fault of any kind | the session and its children end |
| `tcp_faults` | 2 late workers, 3 tasks, 2 faults of ten kinds | exact books, DONE means saved, complete merge |
| `tcp_liveness` | definitions of 2 and 1 tasks, 1 fault of twelve kinds, a lost catch-up included | the session stops every worker, those whose INIT was pending when the definition changed, too; without a fault it succeeds |
| `tcp_definitions` | definitions of 8 and 1 tasks, batches of 2, 1 fault of nine kinds | partial batches and reuse of task numbers: books, replay, no result twice |
| `tcp_bootstrap` | 3 processes, one with an index by hand, 2 worker slots, 2 faults | indices, kept READY messages, no replacement, everyone is answered |
| `websocket` | 1 other browser, 2 connections, 2 messages, 3 events or faults, 2 attempts | order, no loss, roster, calls return |
| `http_workspace` | 2 files, 2 levels, point up to 2 | history and objects agree, history is a stack |
| `job_monitor` | 2 jobs of 2 tasks, 2 faults | the table is true, jobs finish in it |

Why these bounds suffice: two workers are enough for a task to be owned by one,
replayed to the other and acknowledged late by the first; three tasks are one
more than fits in flight with `PerWorker = 1`, so that dispatch is gated while
tasks are replayed; two faults allow a second failure during the recovery from
the first (with two forked children, who cannot rejoin, the second loss ends the
session, so `ipc_faults` takes one); eight tasks are the fewest for which the
fair cap of the code lets two workers receive batches of two, and one task in the
second definition leaves a worker without any.  Two dimensions of two values have
the carry, the reset of the lower dimension and the wrap.  Three processes for
two slots give a REJECT, a process that waits during another's INIT, and one that
takes an index which was given by hand; two connections are enough for something
of the first to reach the second; two files are enough for a schema or navigator
of the wrong one.  The manager needs three tasks for a queue with a middle.
Symmetry is not used, because workers are visited in index order and the others
have liveness properties.

Two branches of `TcpBootstrap` are never taken, and the model keeps them because
the code has them: a process sends BOOTSTRAP once, so its answer is never repeated,
and `NeverReplaced` says that "already registered" does not happen.

Runs that end in a violation document where the code departs from its own
comments or documentation; the quotations are under `findings` in `PROJECT.json`.

| Run | Property | What happens |
|---|---|---|
| `pool_lost_wakeup` | `ExceptionRethrown` | notify without the mutex between main's test and its wait |
| `skipped_results` | `SkippedWorkersAreEmpty` | counts of the last definition select the files of all |

Smaller departures of the distribution code, each reproduced by changing one line
of a configuration:

* `sendCatchup` ignores whether SETDEF and SETIDS reached a late worker
  (`NDimensionalExecutor.cxx:1134-1142`, called at `1536`), who is registered and
  gets tasks all the same: with `catchup` in the faults of `TcpFaults.cfg`,
  `ReplayCovers` and `MergeComplete` fail, because the worker acknowledges other
  entries than the supervisor believes; with two definitions of two tasks and
  `OwnDef = 1`, `MergeExact` fails by an entry that is merged twice.  `TypeOK`,
  `CountersAgree`, `NoInternalError`, `NoGhostMessages` and `DoneMeansSaved` hold
  nevertheless.  The passing runs with the properties that need the catch-up leave
  this fault out, and the theorems assume it away by name (`CatchUpsSucceed`).
* When a TASK or TASKB cannot be sent, its tasks are pending again but stay in
  `outstanding` (`NDimensionalExecutor.cxx:1334`): `CountersAgree` as invariant of
  `TcpDefinitions.cfg` fails, and the loop can then only end by the stall timeout.
* The replay history covers one definition (`NDimensionalExecutor.cxx:120`) while
  a worker saves one file at the end: `MergeComplete` as invariant of
  `TcpDefinitions.cfg` fails, because a worker lost in the second definition takes
  its acknowledged tasks of the first with it.  `MergeExact` is what remains true.
* A forked child that dies between its last ACK and its save is noticed by nobody
  (`NDimensionalExecutor.cxx:1863`, `NGnThreadData.cxx:397`): `MergeComplete`
  as invariant of `IpcFaults.cfg` fails, by a crash or by `slow`.
* DONE is sent after a failed copy (`NDimensionalIpcRunner.cxx:446`): with `copy`
  in the faults of `TcpFaults.cfg`, `DoneMeansSaved` fails; with definitions of one
  and of two tasks `MergeExact` fails, too, because the other worker's file is enough
  for a merge.
* A worker whose INIT acknowledgement is late at startup is not in
  `seenWorkerIdentities` and never told to stop (`NDimensionalExecutor.cxx:524`):
  with `init` in the faults of `TcpLiveness.cfg`, `WorkersEnd` fails.
* `active_tasks++` comes before an `emplace` that may throw
  (`NDimensionalExecutor.cxx:388`): with `Raisers = {"enqueue"}` in
  `PoolLostWakeup.cfg` main waits for ever for a counter that has `leaked`.
* `first_exception` is written under two different mutexes
  (`NDimensionalExecutor.cxx:316` and `397`): without its exception for main,
  `FirstExceptionKept` fails in `Pool.cfg`.
* `RemoveTaskFromWorker` leaves a task running without a worker, although
  `NTaskStateManager.h:118` says that `GetTaskWorker` is empty only for a task
  that is not running; no caller in the repository uses it.

Behaviour of the other parts that the models show and the properties have to
allow for:

* Joining: an index is never given back, so workers that restart are rejected once
  `maxWorkers` indices were given; an index given by hand may be one the supervisor
  assigns to somebody else, who then cannot connect (`Alone` in `ReadyKept`); a
  READY under an identity that is still registered is ignored; a late worker whose
  INIT is pending when the definition changes is never registered, its ACK being
  ignored; a worker that is kept waiting behind a dead one for as long as its own
  30 s deadline gives up, and is then waited for in its turn.
* WebSocket: the two ways in which a call never returns are named `Stranded` and
  `MissedWakeup`; `Send` may use a `fWsi` that became null after its test
  (`crashed`); the static message buffer spoils the first message after a
  connection that broke inside one (`Garbled`).
* HTTP: DELETE of `open` after a reshape leaves a navigator whose tree is deleted,
  because the DELETE handler of `reshape` refuses to act without a tree
  (`nav.stale`); without history the navigator of a closed file stays as well; a
  schema is kept when another file is opened, since only an absent key is filled
  and orphaned keys are not erased (`NGnWorkspace.cxx:62-78`), and the point
  survives; the inspector's path calls a null handler, and a POST of `state`
  recurses without end (`Fatal`).
* Jobs: `sbatch` comes before the registration (`ndmspc-sbatch.sh:80`, `87`), so a
  task that starts at once is refused and stays pending in the table; a second
  registration makes every task pending again; `Cancel` does nothing, as
  `fJobName` is never set; DELETE without a name fails after the clear.

### Fairness
* Thread pool: weak fairness of main and of each worker thread, which the
  operating system's scheduler gives.  Nothing is assumed about spurious wakeups.
* Session: weak fairness of the supervisor's own steps and of the workers' steps
  (processes that are not stopped run).  Strong fairness of "receive a message or
  let the deadline of a silent peer pass": the supervisor polls, so a receive is
  enabled again and again, never continuously, and a message on the wire arrives
  after finitely many polls, as does a wall-clock deadline.  Faults are never
  forced.
* Joining: weak fairness of each process (its own steps, or the deadline for an
  answer that cannot come) and of the supervisor's own steps; strong fairness of
  receiving from each process, since ZeroMQ takes from its peers in turn while the
  supervisor goes in and out of the ACK wait.  The session need not end.
* WebSocket: weak fairness of both threads of the client and of the server's
  threads; libwebsockets reports what happens to a connection.  Nothing makes a
  fault, a heartbeat setting or a peer's action happen.
* Job monitor: a script that was started goes on and Slurm runs what was submitted.

## 4. Proofs

A theorem holds for every value of the constants that satisfies the named
assumptions of its component: any sets of tasks, threads, workers, processes and
files, any number of faults.  Every invariant of the runs of the task manager, the
thread pool, joining, WebSocket, HTTP and the job monitor is proved, and so are their
action properties and the refinement; of the session, every invariant its passing
runs check.  Where one holds only without certain faults, or only over TCP, the
theorem says so in a hypothesis.

| Component | Proved | Assumed of the constants |
|---|---|---|
| task manager | `TypeOK`, `PendingIndexExact`, `ExactlyOneBucket`, `AssignmentsAgree`, `PayloadsKept`, `LoopsMatchCalls`, `FirstInFirstOut`, `ImplementsLedger` | task ids are finitely many naturals; `NoWorker`, `NoPayload` are neither worker nor payload |
| thread pool | `TypeOK`, `ActiveCounts`, `ExactlyOnce`, `IdleAfterWait`, `ExceptionReported`, `NothingStranded`, `FirstExceptionKept` | a thread, at least one dimension, no empty bounds (the constructor refuses others) |
| joining | `TypeOK`, `IndexIsMine`, `NeverReplaced`, `ReadyKept` | at least one worker slot; the ready target is one of them |
| session | `TypeOK`, `NoInternalError`, `NoGhostMessages`: with all faults.  `CountersAgree` unless sends may fail.  `DoneMeansSaved` unless copies may fail.  `ReplayCovers`, and that no merge holds a result twice, unless catch-ups may get lost; over TCP, if copies succeed as well, also `MergeExact` and, with one definition, `MergeComplete` | finitely many workers, numbered; every definition has a task; batch size and messages per worker are positive; `NoWorker` and `NoPayload` are no worker and no number; `NoFile` is no set of entries |
| WebSocket | `TypeOK`, `InOrder`, `NothingLost`, `RosterAgrees` | finitely many peers, whose ids are not those of the client's connections |
| HTTP | `HistoryMatchesObjects`, `HistoryIsAStack` | `NoFile` is no file, at least one level |
| job monitor | `TableIsTrue` | `NoJob` is no job |

**Task manager.** None of the five state invariants is inductive alone: that a
requeue does not queue a task twice needs the partition, that recovery finds a
worker's tasks needs the agreement of the maps, that the payload is right needs the
types.  Their conjunction `Consistent` is (`ConsistentAlways`).  Each method has a
lemma "`Consistent(m)` implies `Consistent(Method(m, ...))`", stated for any record
and not for the state machine; they rest on four lemmas about the queue (append,
remove a position, tail, concatenation) and on two about unassigning and
enqueueing.  `FirstInFirstOut` and `ImplementsLedger` go call by call: what a call
does to the order of the queue, and between which buckets it moves which task.
`LoopsMatchCalls` is an induction over the calls of a loop: the closed form with
the first `i` tasks satisfies the equation that defines the loop's function, one
step of which is one call (`MarkAllDoneStep`, `RequeueAllStep`, `StateClaim`,
`StateAdd`), and two functions that satisfy it are equal (`SameUpTo`).  This is what
allows the session's model to use the closed forms.

**Thread pool.** `Inv` adds to the types: what a thread at a given place holds in its
hands (`Hands`), that a stopping pool takes no new tasks (`Stopped`), whose
exception is stored and who is about to store one (`Blame`, `Storing`), and an
account of every coordinate vector (`Account`): those before the one main is at are
queued, held, run or dropped after an exception, exactly one of them, and those from
there on are none of them.  "Before" is the order of `Increment`; `NextTask` shows
that it goes from each vector to its successor in any number of dimensions,
`FirstTask` and `LastTask` that it starts and ends at the bounds.

**Joining.** The invariant connects three places of an index: an assignment is below
`bootstrapNextIdx` and unique, a CONFIG under way carries the assignment of its
receiver, the index of a process is its assignment (`Assigned`).  `Awaited` says for
whom the supervisor waits, `Outbox` that a process says BOOTSTRAP, READY and ACK once
each and at which places, `Peers` that the router's peer is the process it should
be, `Heard` that everyone registered, kept or waited for has knocked: otherwise his
READY could arrive again.

**Session.** The proof is built in layers, each inductive relative to those before it;
a theorem takes the layers it needs.

1. *The books* (`Inv`).  That `HandleWorkerFailure` takes off the counters exactly what
   it puts back is not inductive: it needs that a running or done task is in the replay
   history of one worker only, and a registered one.  `Inv` is the types, `Joins` (a
   worker is at one stage of joining, and its READY is heard once: otherwise it would
   be on the list twice and outlive its own removal) and `Books` (the manager is sound,
   the counters count, the histories cover what runs and what is done, new tasks are
   new).  The tasks of a message that could not be sent stay in the history of the
   failed worker until the clean-up, and they stay in `outstanding` for good, because
   the code does not take them off again: with the fault `send` there is only
   `outstanding >= Cardinality(Running)`.  `Books` is proved per helper of the
   supervisor (`FailureBooks`, `SettleBooks`, `FillBooks`, `RefusedBooks`,
   `BeginBooks`), from what the loops of the task manager are proved to do.
2. *One description of every step.*  The further layers do not go through the actions
   again.  `WorkerMoves` says of any step of a worker what it reads, processes and
   sends (`Moves`); `SupervisorEffect` that any step of the supervisor is one of seven
   (`Effect`): nothing that concerns tasks, a worker joins, fails, acknowledges, is
   given a message or keeps one that could not be sent, or a definition begins.
3. *The queues* (`Queues`, `Current`).  No message of tasks is empty, and its tasks
   exist in the definition its reader will be at by then (`Under`): SETDEF comes
   before them in the queue.  This gives `TypeOK`.  Where catch-ups succeed (`CatchUpsSucceed`,
   a condition inside the layers 3 and 4, so that the rest of them holds without it),
   its hard part is that no worker processes an entry that does not exist.
4. *What is on its way is the worker's* (`Ways`).  A task in a message to or from a
   registered worker is assigned to it, in one message only; an acknowledgement on its
   way is for a task assigned to its sender.  Where catch-ups succeed, that task is in
   the worker's memory, what it has processed of the current definition is in its
   history (`Remembers`), and no two registered workers processed the same (`Shared`).
   With `Inv` this is `ReplayCovers`: a done task really was processed where the
   history says.
5. *The messages that gate dispatch* (`Letters`).  `outstandingMessages` is the number
   of the messages counted in `inFlight`, and a worker has at most as many on their way
   as are counted for it.  A message is identified by the first of its tasks, which
   layer 4 makes unique.  Hence no acknowledgement finds a counter too small, and
   `NoInternalError`.  `Exact` turns "at most" into "exactly" for a worker that still
   serves, because it answers each message of tasks with one; that is
   `NoGhostMessages`, with `SumOfTokens` for the sum over the workers.
6. *The files.*  `Saved`: a file holds all that its worker has processed, for ever.
   `Reported`: a DONE on its way, or taken, comes from a worker that has a file, if
   copies do not fail (`CopiesSucceed`); `DoneMeansSaved` is a part of it.
7. *The merge.*  `Ended`: when the loop has ended well, every task of the definition is
   done and the counts that choose the files are those of the replay histories.  With
   `Shared` of layer 4 no entry is in two files that are opened (`HoldersApart`), hence
   `NeverMergedTwice`; every entry of the last definition is in one of them
   (`LastHeld`), which is `MergeExact` and, when there is no other definition,
   `MergeComplete`.  Over forked children the last step fails (section 3): a child that
   dies before its save is not missed.

**WebSocket.** The invariant follows a message from the queue of the client over the
events of the server to the relay: numbers grow along that way (`Numbered`,
`Queued`, `Later`), and only messages of the present connection are queued.
`Caller` says what the two threads may be doing in each state of the connection.
`Latest` is the strengthening of `RosterAgrees`: the last roster on its way is the
server's table, and if there is none the client already shows it.

**HTTP.** Inside one request the history does not match the objects: an entry is made
before its handler runs, and a handler may run before the entries it voids are
removed.  `Sound(s, i)` therefore speaks of the entries below position `i`;
`Unwind` shows that the removal of the entries from `i` on, newest first and each
with its DELETE handler, ends in a state that is sound as a whole.

**Job monitor.** `TableIsTrue` needs the types only, because its second half carries
its own strengthening: it speaks of every task that missed no report, running ones
included, so that a D which arrives finds the task in the list it is moved from.

Attempts that failed said something about the model: two `CASE` expressions (the
POST of `open`, the last fragment of a message) had overlapping arms, so that their
value was a `CHOOSE` between two results; the arms now exclude each other as the
`if` and `else` of the code do.  `LoopsMatchCalls` considered one payload per task
and now considers all.  `MergeExact` turned out to be false when a copy fails and the
last definition has two tasks, which the run's one task had hidden (section 3).
`ReplayCovers` and the theorems about the merge, as long as the catch-up could not
fail, hid that nobody looks at its result.  That
a worker with a results file can be told from one without was used, but not assumed
(`NoFileAssumption`).

Only model-checked:

* liveness (`WorkersTerminate`, `SessionEnds`, `WorkersEnd`, `SessionSucceeds`,
  `Answered`, `CallsReturn`, `JobFinishes`), which is outside the prover's reach;
* the two properties that the code violates, `ExceptionRethrown` and
  `SkippedWorkersAreEmpty`.

## 5. Not modelled

* Start-up failures of the supervisor (bind, fork), malformed frames, a READY or
  SHUTDOWN that cannot be sent, a catch-up of which SETDEF arrives and SETIDS does
  not; the spawner mode of `ndmspc-worker`, which forks worker processes and waits for
  their exit codes.
* The rejected bounds of the constructor and of `SetBounds`.
* A user interrupt inside the dispatch loop is taken at the next `top` or
  `receive`; nothing the supervisor does in between can tell the difference.
* The empty batch after leaked counters (`NDimensionalExecutor.cxx:1308`), on which
  the code repeats an iteration for ever: it takes more failed sends than TLC can
  finish with, and the model blocks there.
* WebSocket: several threads that call one client, spurious wakeups of `Connect`,
  a message that `lws_write` hands over in part, a connection that ends without
  `LWS_CALLBACK_CLOSED`.
* HTTP: the key `spectra` of the workspace, which a PATCH of `map` or `spectra` may
  write (`httpNgnt.C:547-558`, `738`); that a POST of `spectra` returns before it
  builds a schema when no parameter is known (`638-642`); payloads whose types make
  the JSON library throw, static files, the text of schemas and of openapi, saved
  workspaces; that loading the `jobs` macro switches the history off for the whole
  server.
* Binning, storage, navigator and parameters: thin layers over `THnSparse`, `TAxis`,
  `TTree` and drawing, whose arithmetic and files are ROOT's and not in this
  repository.  They keep no state that several actors share.
* hep, numcal and legacy: fits, integrators and superseded classes over ROOT objects.
* `NUtils`, `NLogger`, `NHttpRequest`, `NCloudEvent`: stateless helpers, text and I/O.
* `CLI11.hpp` (two copies) is third-party code, about two fifths of the lines of the
  repository.

The reason for every component is in `PROJECT.json` under `components`.

## 6. What could come next

* `TcpBootstrap` and the session describe the start of a session at two levels of
  detail, each without the other's part.  A refinement between them would need the
  session to know processes, and not only the indices they were given.
* Of the merge of a session over forked children it is proved that it holds nothing
  twice.  What it misses should be only the entries of children without a file.
* The liveness properties rest on TLC; their proofs would start from the invariants
  above (`NoGhostMessages` is the one that keeps dispatch enabled).
