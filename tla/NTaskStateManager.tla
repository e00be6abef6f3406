-------------------------- MODULE NTaskStateManager --------------------------
(***************************************************************************)
(* NTaskStateManager (core/NTaskStateManager.cxx): the bookkeeping of task *)
(* lifecycles that the IPC/TCP supervisor uses.  The C++ object is the     *)
(* record mgr; every method is an operator from a record to the record it  *)
(* leaves behind, so that the supervisor can compose several calls into    *)
(* one step, and an action of this module that applies it.                 *)
(*                                                                         *)
(* A key missing from an unordered_map is the sentinel: NoPayload in       *)
(* fRunning and fTaskPayloads, NoWorker in fTaskToWorker, the empty set in *)
(* fWorkerToTasks (the code erases a worker's entry when it empties).      *)
(***************************************************************************)
EXTENDS Integers, Sequences, FiniteSets, Functions

CONSTANTS TaskId,       \* task identifiers (size_t, ordered)
          WorkerId,     \* worker identities
          TaskPayload,  \* coordinates carried by a task
          NoWorker, NoPayload

ASSUME ManagerConstants ==
  /\ TaskId \subseteq Nat /\ IsFiniteSet(TaskId)
  /\ NoWorker \notin WorkerId
  /\ NoPayload \notin TaskPayload

VARIABLE mgr

Entry(id, payload) == [id |-> id, payload |-> payload]

Entries == [id : TaskId, payload : TaskPayload]

\* The state after construction and after Clear().
Empty ==
  [ fPending       |-> << >>,
    fPendingIds    |-> {},
    fRunning       |-> [t \in TaskId |-> NoPayload],
    fDone          |-> {},
    fWorkerToTasks |-> [w \in WorkerId |-> {}],
    fTaskToWorker  |-> [t \in TaskId |-> NoWorker],
    fTaskPayloads  |-> [t \in TaskId |-> NoPayload] ]

-----------------------------------------------------------------------------
(* Queries *)

QueuedIds(q) == {q[i].id : i \in 1..Len(q)}

Running(m) == {t \in TaskId : m.fRunning[t] # NoPayload}

IsDone(m, id) == id \in m.fDone

HasPending(m) == m.fPending # << >>

PendingCount(m) == Len(m.fPending)

GetWorkerTasks(m, w) == m.fWorkerToTasks[w]

GetTaskWorker(m, id) == m.fTaskToWorker[id]

TaskExists(m, id) ==
  \/ id \in m.fPendingIds
  \/ id \in Running(m)
  \/ IsDone(m, id)
  \/ m.fTaskPayloads[id] # NoPayload

-----------------------------------------------------------------------------
(* Private helpers *)

\* Push a task unless its id is already indexed as pending.
EnqueuePending_NoIndex(m, id, payload) ==
  [m EXCEPT !.fPending = Append(@, Entry(id, payload))]

EnqueuePending_AtFront(m, id, payload) ==
  IF id \in m.fPendingIds
  THEN m
  ELSE [m EXCEPT !.fPending    = <<Entry(id, payload)>> \o @,
                 !.fPendingIds = @ \cup {id}]

EnqueuePending(m, id, payload) ==
  IF id \in m.fPendingIds
  THEN m
  ELSE [m EXCEPT !.fPending    = Append(@, Entry(id, payload)),
                 !.fPendingIds = @ \cup {id}]

\* Every method that takes a task off its worker drops it from both maps.
Unassign_OneWay(m, id) == [m EXCEPT !.fTaskToWorker[id] = NoWorker]

Unassign(m, id) ==
  IF m.fTaskToWorker[id] = NoWorker
  THEN m
  ELSE [m EXCEPT !.fWorkerToTasks[m.fTaskToWorker[id]] = @ \ {id},
                 !.fTaskToWorker[id] = NoWorker]

\* A dequeued task becomes a running task of worker w.
StartOn(m, w, id, payload) ==
  [m EXCEPT !.fPendingIds        = @ \ {id},
            !.fRunning[id]       = payload,
            !.fWorkerToTasks[w]  = @ \cup {id},
            !.fTaskToWorker[id]  = w]

\* The orders in which a std::set<TaskId> is iterated: exactly one, ascending.
Ascending(S) ==
  {s \in [1..Cardinality(S) -> S] :
     /\ \A i, j \in 1..Cardinality(S) : i < j => s[i] < s[j]
     /\ S = {s[i] : i \in 1..Cardinality(S)}}

Without(q, k) == [i \in 1..(Len(q) - 1) |-> IF i < k THEN q[i] ELSE q[i + 1]]

-----------------------------------------------------------------------------
(* The methods that change the object: AddPending throws when TaskExists;  *)
(* the bool methods return false, and leave the object alone, when their   *)
(* guard is false.                                                         *)

AddPending(m, id, payload) ==
  [EnqueuePending(m, id, payload) EXCEPT !.fTaskPayloads[id] = payload]

CanAssignToWorker(m, id) == HasPending(m) /\ id \in m.fPendingIds

\* k is the first queue position that holds the task.
IsFirst(q, k, id) == q[k].id = id /\ \A j \in 1..(k - 1) : q[j].id # id

AssignToWorker(m, w, k) ==
  [StartOn(m, w, m.fPending[k].id, m.fPending[k].payload)
     EXCEPT !.fPending = Without(@, k)]

ClaimNextPendingForWorker_Peek(m, w) ==
  StartOn(m, w, Head(m.fPending).id, Head(m.fPending).payload)

ClaimNextPendingForWorker(m, w) ==
  [StartOn(m, w, Head(m.fPending).id, Head(m.fPending).payload)
     EXCEPT !.fPending = Tail(@)]

MarkDone(m, id) ==
  Unassign([m EXCEPT !.fDone = @ \cup {id}, !.fRunning[id] = NoPayload], id)

MarkFailed(m, id) ==
  Unassign(EnqueuePending([m EXCEPT !.fRunning[id] = NoPayload], id, m.fRunning[id]), id)

CanRequeue(m, id) ==
  \/ id \in Running(m)
  \/ IsDone(m, id) /\ m.fTaskPayloads[id] # NoPayload

RequeueTask_KeepDone(m, id) ==
  IF id \in Running(m)
  THEN MarkFailed(m, id)
  ELSE EnqueuePending(m, id, m.fTaskPayloads[id])

RequeueTask_RunningPayload(m, id) ==
  IF id \in Running(m)
  THEN MarkFailed(m, id)
  ELSE EnqueuePending([m EXCEPT !.fDone = @ \ {id}], id, m.fRunning[id])

RequeueTask(m, id) ==
  IF id \in Running(m)
  THEN MarkFailed(m, id)
  ELSE EnqueuePending([m EXCEPT !.fDone = @ \ {id}], id, m.fTaskPayloads[id])

\* The assigned tasks of w that the recovery loop moves back to pending.
Recoverable(m, w) == (m.fWorkerToTasks[w] \cap Running(m)) \ m.fPendingIds

\* The loop visits fWorkerToTasks[w] in ascending order; s is that order
\* restricted to the tasks it enqueues.
RecoverWorkerTasks_OwnPayload(m, w, s) ==
  [m EXCEPT !.fPending = @ \o [i \in 1..Len(s) |-> Entry(s[i], m.fRunning[s[1]])],
            !.fPendingIds = @ \cup {s[i] : i \in 1..Len(s)},
            !.fRunning = [t \in TaskId |-> IF t \in m.fWorkerToTasks[w] THEN NoPayload ELSE @[t]],
            !.fTaskToWorker = [t \in TaskId |-> IF t \in m.fWorkerToTasks[w] THEN NoWorker ELSE @[t]],
            !.fWorkerToTasks[w] = {}]

RecoverWorkerTasks(m, w, s) ==
  [m EXCEPT !.fPending = @ \o [i \in 1..Len(s) |-> Entry(s[i], m.fRunning[s[i]])],
            !.fPendingIds = @ \cup {s[i] : i \in 1..Len(s)},
            !.fRunning = [t \in TaskId |-> IF t \in m.fWorkerToTasks[w] THEN NoPayload ELSE @[t]],
            !.fTaskToWorker = [t \in TaskId |-> IF t \in m.fWorkerToTasks[w] THEN NoWorker ELSE @[t]],
            !.fWorkerToTasks[w] = {}]

\* Drops the assignment only: the task stays in fRunning.
RemoveTaskFromWorker(m, w, id) ==
  [m EXCEPT !.fWorkerToTasks[w] = @ \ {id}, !.fTaskToWorker[id] = NoWorker]

-----------------------------------------------------------------------------
(* The loops in which the supervisor calls these methods, each as the state*)
(* it ends in.                                                             *)

\* The tasks of S run no longer and belong to no worker.
Release(m, S) ==
  [m EXCEPT !.fRunning       = [t \in TaskId |-> IF t \in S THEN NoPayload ELSE @[t]],
            !.fTaskToWorker  = [t \in TaskId |-> IF t \in S THEN NoWorker ELSE @[t]],
            !.fWorkerToTasks = [w \in WorkerId |-> @[w] \ S]]

\* MarkDone for every task of S, in any order.
MarkAllDone(m, S) == [Release(m, S) EXCEPT !.fDone = @ \cup S]

\* RequeueTask (or, for running tasks, MarkFailed) for the tasks of q in turn.
RequeueAll(m, q) ==
  [Release(m, Range(q)) EXCEPT
     !.fPending = @ \o [i \in 1..Len(q) |->
                          Entry(q[i], IF q[i] \in Running(m) THEN m.fRunning[q[i]] ELSE m.fTaskPayloads[q[i]])],
     !.fPendingIds = @ \cup Range(q),
     !.fDone = @ \ Range(q)]

\* n calls of ClaimNextPendingForWorker, the last of which follow an
\* AddPending of the entries of q one by one.
AddAndClaim(m, w, q, n) ==
  LET queue == m.fPending \o q
      claimed == SubSeq(queue, 1, n)
      PayloadIn(es, t) == es[CHOOSE i \in 1..Len(es) : es[i].id = t].payload
  IN [m EXCEPT
        !.fPending       = SubSeq(queue, n + 1, Len(queue)),
        !.fPendingIds    = QueuedIds(SubSeq(queue, n + 1, Len(queue))),
        !.fTaskPayloads  = [t \in TaskId |-> IF t \in QueuedIds(q) THEN PayloadIn(q, t) ELSE @[t]],
        !.fRunning       = [t \in TaskId |-> IF t \in QueuedIds(claimed) THEN PayloadIn(claimed, t) ELSE @[t]],
        !.fWorkerToTasks[w] = @ \cup QueuedIds(claimed),
        !.fTaskToWorker  = [t \in TaskId |-> IF t \in QueuedIds(claimed) THEN w ELSE @[t]]]

-----------------------------------------------------------------------------
(* The object as a state machine: any caller, any order of calls. *)

Init == mgr = Empty

DoAddPending(id, payload) ==
  ~TaskExists(mgr, id) /\ mgr' = AddPending(mgr, id, payload)

DoAssignToWorker(w, id) ==
  /\ CanAssignToWorker(mgr, id)
  /\ \E k \in 1..Len(mgr.fPending) :
       IsFirst(mgr.fPending, k, id) /\ mgr' = AssignToWorker(mgr, w, k)

DoClaimNextPending(w) ==
  HasPending(mgr) /\ mgr' = ClaimNextPendingForWorker(mgr, w)

DoMarkDone(id) == id \in Running(mgr) /\ mgr' = MarkDone(mgr, id)

DoMarkFailed(id) == id \in Running(mgr) /\ mgr' = MarkFailed(mgr, id)

DoRequeueTask(id) == CanRequeue(mgr, id) /\ mgr' = RequeueTask(mgr, id)

DoRecoverWorkerTasks(w) ==
  /\ GetWorkerTasks(mgr, w) # {}
  /\ \E s \in Ascending(Recoverable(mgr, w)) : mgr' = RecoverWorkerTasks(mgr, w, s)

DoRemoveTaskFromWorker(w, id) ==
  id \in GetWorkerTasks(mgr, w) /\ mgr' = RemoveTaskFromWorker(mgr, w, id)

Clear == mgr' = Empty

Next ==
  \/ \E id \in TaskId, payload \in TaskPayload : DoAddPending(id, payload)
  \/ \E w \in WorkerId, id \in TaskId : DoAssignToWorker(w, id)
  \/ \E w \in WorkerId : DoClaimNextPending(w)
  \/ \E id \in TaskId : DoMarkDone(id)
  \/ \E id \in TaskId : DoMarkFailed(id)
  \/ \E id \in TaskId : DoRequeueTask(id)
  \/ \E w \in WorkerId : DoRecoverWorkerTasks(w)
  \/ \E w \in WorkerId, id \in TaskId : DoRemoveTaskFromWorker(w, id)
  \/ Clear

Spec == Init /\ [][Next]_mgr

-----------------------------------------------------------------------------
(* Properties *)

\* m holds what the member declarations say.
IsManager(m) ==
  m \in [ fPending       : Seq(Entries),
          fPendingIds    : SUBSET TaskId,
          fRunning       : [TaskId -> TaskPayload \cup {NoPayload}],
          fDone          : SUBSET TaskId,
          fWorkerToTasks : [WorkerId -> SUBSET TaskId],
          fTaskToWorker  : [TaskId -> WorkerId \cup {NoWorker}],
          fTaskPayloads  : [TaskId -> TaskPayload \cup {NoPayload}] ]

Distinct(q) == \A i, j \in 1..Len(q) : q[i].id = q[j].id => i = j

IsIndexed(m) == m.fPendingIds = QueuedIds(m.fPending) /\ Distinct(m.fPending)

IsPartitioned(m) ==
  \A t \in TaskId :
    LET p == t \in m.fPendingIds
        r == t \in Running(m)
        d == t \in m.fDone
    IN /\ (m.fTaskPayloads[t] # NoPayload) <=> (p \/ r \/ d)
       /\ ~(p /\ r) /\ ~(p /\ d) /\ ~(r /\ d)

IsAssigned(m) ==
  \A t \in TaskId :
    /\ \A w \in WorkerId : t \in m.fWorkerToTasks[w] <=> m.fTaskToWorker[t] = w
    /\ m.fTaskToWorker[t] # NoWorker => t \in Running(m)

KeepsPayloads(m) ==
  /\ \A i \in 1..Len(m.fPending) : m.fPending[i].payload = m.fTaskPayloads[m.fPending[i].id]
  /\ \A t \in Running(m) : m.fRunning[t] = m.fTaskPayloads[t]

\* The object holds what its member declarations say.
TypeOK == IsManager(mgr)

\* The index fPendingIds is exactly the queue fPending, in which no task
\* occurs twice: otherwise EnqueuePending's membership test would drop a task
\* or queue it a second time.
PendingIndexExact == IsIndexed(mgr)

\* Every task ever added (and not cleared) is in exactly one of pending,
\* running and done, and nothing else is: no sequence of assignments,
\* failures, requeues and recoveries loses a task or duplicates it.
ExactlyOneBucket == IsPartitioned(mgr)

\* The two assignment maps are inverse to each other and only name running
\* tasks, so recovering a worker returns exactly what it was running.
AssignmentsAgree == IsAssigned(mgr)

\* Whichever way a task came back to the queue, it is dispatched again with
\* the payload it was added with.
PayloadsKept == KeepsPayloads(mgr)

\* Task a is queued before task b.
Ahead(q, a, b) == \E i, j \in 1..Len(q) : i < j /\ q[i].id = a /\ q[j].id = b

\* Dispatch order is first in, first out: a task that stays queued is
\* overtaken neither by another queued task nor by one queued later.
FirstInFirstOut ==
  [][ \A a, b \in TaskId :
        /\ a \in QueuedIds(mgr.fPending) \cap QueuedIds(mgr'.fPending)
        /\ b \in QueuedIds(mgr'.fPending)
        /\ Ahead(mgr.fPending, a, b) \/ b \notin QueuedIds(mgr.fPending)
        => Ahead(mgr'.fPending, a, b) ]_mgr

\* The loops, call by call.
DoneLoop(m, q) ==
  LET f[i \in 0..Len(q)] == IF i = 0 THEN m ELSE MarkDone(f[i - 1], q[i]) IN f[Len(q)]

RequeueLoop(m, q) ==
  LET f[i \in 0..Len(q)] == IF i = 0 THEN m ELSE RequeueTask(f[i - 1], q[i]) IN f[Len(q)]

ClaimLoop(m, w, q, n) ==
  LET f[i \in 0..n] ==
        IF i = 0 THEN m
        ELSE ClaimNextPendingForWorker(
               IF i <= n - Len(q) THEN f[i - 1]
               ELSE AddPending(f[i - 1], q[i - n + Len(q)].id, q[i - n + Len(q)].payload), w)
  IN f[n]

InAnyOrder(S) == Bijection(1..Cardinality(S), S)

\* The supervisor's loops over the methods end in the state the model gives
\* them, whatever the order of the calls and the mixture of running, done and
\* queued tasks.
LoopsMatchCalls ==
  /\ \A S \in SUBSET Running(mgr) : \A q \in InAnyOrder(S) : DoneLoop(mgr, q) = MarkAllDone(mgr, S)
  /\ \A S \in SUBSET {t \in TaskId : CanRequeue(mgr, t)} : \A q \in InAnyOrder(S) :
       RequeueLoop(mgr, q) = RequeueAll(mgr, q)
  /\ \A w \in WorkerId, S \in SUBSET {t \in TaskId : ~TaskExists(mgr, t)} :
       \A o \in InAnyOrder(S), payload \in [S -> TaskPayload] :
       LET q == [i \in 1..Len(o) |-> Entry(o[i], payload[o[i]])]
       IN \A k \in 0..Len(mgr.fPending) :
            ClaimLoop(mgr, w, q, k + Len(q)) = AddAndClaim(mgr, w, q, k + Len(q))

-----------------------------------------------------------------------------
(* Refinement: the manager is a task ledger. *)

StatusOf(t) ==
  CASE t \in mgr.fPendingIds -> "pending"
    [] t \in Running(mgr)    -> "running"
    [] t \in mgr.fDone       -> "done"
    [] OTHER                 -> "unknown"

Ledger == INSTANCE TaskLedger WITH status <- [t \in TaskId |-> StatusOf(t)]

\* The manager implements the abstract ledger: each call is one ledger step,
\* and RemoveTaskFromWorker is none.
ImplementsLedger == Ledger!Spec
=============================================================================
