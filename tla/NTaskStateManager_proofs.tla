----------------------- MODULE NTaskStateManager_proofs -----------------------
(***************************************************************************)
(* The manager's five consistency properties form one inductive invariant. *)
(* Each method preserves it for every record that satisfies it, which is   *)
(* what a caller composing several calls needs; the theorems about the     *)
(* state machine follow.                                                   *)
(***************************************************************************)
EXTENDS NTaskStateManager, CommonLemmas, SequenceTheorems, FiniteSetTheorems, TLAPS

Consistent(m) ==
  IsManager(m) /\ IsIndexed(m) /\ IsPartitioned(m) /\ IsAssigned(m) /\ KeepsPayloads(m)

Matches(q, pay) == \A i \in 1..Len(q) : q[i].payload = pay[q[i].id]

-----------------------------------------------------------------------------
(* The queue *)

\* Appending an entry whose id is not queued keeps the ids distinct.
LEMMA AppendQueue ==
  ASSUME NEW q \in Seq(Entries), Distinct(q), NEW e \in Entries, e.id \notin QueuedIds(q)
  PROVE  /\ Append(q, e) \in Seq(Entries)
         /\ Distinct(Append(q, e))
         /\ QueuedIds(Append(q, e)) = QueuedIds(q) \cup {e.id}
         /\ \A pay : Matches(q, pay) /\ e.payload = pay[e.id] => Matches(Append(q, e), pay)
<1>1. /\ Append(q, e) \in Seq(Entries)
      /\ Len(Append(q, e)) = Len(q) + 1
      /\ Len(q) \in Nat
      /\ \A i \in 1..Len(q) : Append(q, e)[i] = q[i]
      /\ Append(q, e)[Len(q) + 1] = e
  OBVIOUS
<1>2. Distinct(Append(q, e))
  BY <1>1 DEF Distinct, QueuedIds
<1>3. QueuedIds(Append(q, e)) = QueuedIds(q) \cup {e.id}
  BY <1>1 DEF QueuedIds
<1>4. \A pay : Matches(q, pay) /\ e.payload = pay[e.id] => Matches(Append(q, e), pay)
  BY <1>1 DEF Matches
<1> QED BY <1>1, <1>2, <1>3, <1>4

\* Dropping position k drops exactly that id.
LEMMA WithoutQueue ==
  ASSUME NEW q \in Seq(Entries), Distinct(q), NEW k \in 1..Len(q)
  PROVE  /\ Without(q, k) \in Seq(Entries)
         /\ Distinct(Without(q, k))
         /\ QueuedIds(Without(q, k)) = QueuedIds(q) \ {q[k].id}
         /\ \A pay : Matches(q, pay) => Matches(Without(q, k), pay)
<1> DEFINE r == Without(q, k)
           old(i) == IF i < k THEN i ELSE i + 1
<1>1. /\ r \in Seq(Entries)
      /\ Len(r) = Len(q) - 1
      /\ Len(q) \in Nat
      /\ \A i \in 1..Len(r) : r[i] = q[old(i)]
  <2>1. Len(q) \in Nat \ {0} /\ Len(q) - 1 \in Nat
    OBVIOUS
  <2>2. \A i \in 1..(Len(q) - 1) : q[old(i)] \in Entries
    BY <2>1
  <2> QED BY <2>1, <2>2 DEF Without
<1>2. Distinct(r)
  BY <1>1 DEF Distinct
<1>3. QueuedIds(r) = QueuedIds(q) \ {q[k].id}
  <2>1. QueuedIds(r) \subseteq QueuedIds(q) \ {q[k].id}
    BY <1>1 DEF QueuedIds, Distinct
  <2>2. ASSUME NEW j \in 1..Len(q), q[j].id # q[k].id
        PROVE  q[j].id \in QueuedIds(r)
    <3>1. CASE j < k
      BY <1>1, <3>1 DEF QueuedIds
    <3>2. CASE j > k
      <4>1. j - 1 \in 1..Len(r) /\ r[j - 1] = q[j]
        BY <1>1, <3>2
      <4> QED BY <4>1 DEF QueuedIds
    <3> QED BY <2>2, <3>1, <3>2
  <2> QED BY <2>1, <2>2 DEF QueuedIds
<1>4. \A pay : Matches(q, pay) => Matches(r, pay)
  BY <1>1 DEF Matches
<1> QED BY <1>1, <1>2, <1>3, <1>4

\* The tail of a non-empty queue is the queue without its first position.
LEMMA TailQueue ==
  ASSUME NEW q \in Seq(Entries), Distinct(q), q # << >>
  PROVE  /\ Head(q) \in Entries
         /\ Head(q).id \in QueuedIds(q)
         /\ Tail(q) \in Seq(Entries)
         /\ Distinct(Tail(q))
         /\ QueuedIds(Tail(q)) = QueuedIds(q) \ {Head(q).id}
         /\ \A pay : Matches(q, pay) => /\ Matches(Tail(q), pay)
                                        /\ Head(q).payload = pay[Head(q).id]
<1>1. /\ Tail(q) \in Seq(Entries)
      /\ Len(Tail(q)) = Len(q) - 1
      /\ Len(q) \in Nat \ {0}
      /\ Head(q) = q[1] /\ Head(q) \in Entries
      /\ \A i \in 1..Len(Tail(q)) : Tail(q)[i] = q[i + 1]
  OBVIOUS
<1>2. Distinct(Tail(q))
  BY <1>1 DEF Distinct
<1>3. QueuedIds(Tail(q)) = QueuedIds(q) \ {q[1].id}
  <2>1. QueuedIds(Tail(q)) \subseteq QueuedIds(q) \ {q[1].id}
    BY <1>1 DEF QueuedIds, Distinct
  <2>2. ASSUME NEW j \in 1..Len(q), q[j].id # q[1].id
        PROVE  q[j].id \in QueuedIds(Tail(q))
    <3>1. j - 1 \in 1..Len(Tail(q)) /\ Tail(q)[j - 1] = q[j]
      BY <1>1, <2>2
    <3> QED BY <3>1 DEF QueuedIds
  <2> QED BY <2>1, <2>2 DEF QueuedIds
<1>4. \A pay : Matches(q, pay) => Matches(Tail(q), pay) /\ Head(q).payload = pay[Head(q).id]
  BY <1>1 DEF Matches
<1>5. Head(q).id \in QueuedIds(q)
  BY <1>1 DEF QueuedIds
<1> QED BY <1>1, <1>2, <1>3, <1>4, <1>5

\* Appending distinct, not yet queued tasks keeps the ids distinct.
LEMMA ConcatQueue ==
  ASSUME NEW q \in Seq(Entries), Distinct(q), NEW r \in Seq(Entries), Distinct(r),
         QueuedIds(q) \cap QueuedIds(r) = {}
  PROVE  /\ q \o r \in Seq(Entries)
         /\ Distinct(q \o r)
         /\ QueuedIds(q \o r) = QueuedIds(q) \cup QueuedIds(r)
         /\ \A pay : Matches(q, pay) /\ Matches(r, pay) => Matches(q \o r, pay)
<1> DEFINE c == q \o r
<1>1. /\ c \in Seq(Entries)
      /\ Len(c) = Len(q) + Len(r) /\ Len(q) \in Nat /\ Len(r) \in Nat
      /\ \A i \in 1..Len(c) : c[i] = IF i <= Len(q) THEN q[i] ELSE r[i - Len(q)]
  BY ConcatProperties
<1>2. Distinct(c)
  <2> SUFFICES ASSUME NEW i \in 1..Len(c), NEW j \in 1..Len(c), c[i].id = c[j].id
               PROVE  i = j
    BY DEF Distinct
  <2>1. CASE i <= Len(q) /\ j <= Len(q)
    BY <1>1, <2>1 DEF Distinct
  <2>2. CASE i > Len(q) /\ j > Len(q)
    BY <1>1, <2>2 DEF Distinct
  <2>a. ASSUME NEW x \in 1..Len(c), NEW y \in 1..Len(c), x <= Len(q), y > Len(q)
        PROVE  c[x].id # c[y].id
    <3>1. x \in 1..Len(q) /\ c[x] = q[x] /\ y - Len(q) \in 1..Len(r) /\ c[y] = r[y - Len(q)]
      BY <1>1, <2>a
    <3>2. c[x].id \in QueuedIds(q) /\ c[y].id \in QueuedIds(r)
      BY <3>1 DEF QueuedIds
    <3> QED BY <3>2
  <2>3. CASE i <= Len(q) /\ j > Len(q)
    BY <2>a, <2>3
  <2>4. CASE i > Len(q) /\ j <= Len(q)
    BY <2>a, <2>4
  <2> QED BY <1>1, <2>1, <2>2, <2>3, <2>4
<1>3. QueuedIds(c) = QueuedIds(q) \cup QueuedIds(r)
  <2>1. QueuedIds(c) \subseteq QueuedIds(q) \cup QueuedIds(r)
    BY <1>1 DEF QueuedIds
  <2>2. ASSUME NEW i \in 1..Len(q) PROVE q[i].id \in QueuedIds(c)
    BY <1>1 DEF QueuedIds
  <2>3. ASSUME NEW i \in 1..Len(r) PROVE r[i].id \in QueuedIds(c)
    <3>1. Len(q) + i \in 1..Len(c) /\ c[Len(q) + i] = r[i]
      BY <1>1
    <3> QED BY <3>1 DEF QueuedIds
  <2>4. QueuedIds(q) \subseteq QueuedIds(c)
    BY <2>2 DEF QueuedIds
  <2>5. QueuedIds(r) \subseteq QueuedIds(c)
    BY <2>3 DEF QueuedIds
  <2> QED BY <2>1, <2>4, <2>5
<1>4. \A pay : Matches(q, pay) /\ Matches(r, pay) => Matches(c, pay)
  BY <1>1 DEF Matches
<1> QED BY <1>1, <1>2, <1>3, <1>4

-----------------------------------------------------------------------------
(* The private helpers, field by field *)

\* n is m with task id taken from its worker: the two assignment maps are all
\* that changes, and for this task only.
OnlyUnassigns(n, m, id) ==
  /\ IsManager(n)
  /\ n.fPending = m.fPending /\ n.fPendingIds = m.fPendingIds
  /\ n.fRunning = m.fRunning /\ n.fDone = m.fDone
  /\ n.fTaskPayloads = m.fTaskPayloads
  /\ n.fTaskToWorker[id] = NoWorker
  /\ \A t \in TaskId \ {id} : n.fTaskToWorker[t] = m.fTaskToWorker[t]
  /\ \A w \in WorkerId : m.fTaskToWorker[id] = w => n.fWorkerToTasks[w] = m.fWorkerToTasks[w] \ {id}
  /\ \A w \in WorkerId : m.fTaskToWorker[id] # w => n.fWorkerToTasks[w] = m.fWorkerToTasks[w]

\* Unassign touches the two assignment maps only, and at most one task.
LEMMA UnassignFields ==
  ASSUME NEW m, IsManager(m), NEW id \in TaskId
  PROVE  OnlyUnassigns(Unassign(m, id), m, id)
<1>1. CASE m.fTaskToWorker[id] = NoWorker
  BY <1>1, ManagerConstants DEF Unassign, IsManager, OnlyUnassigns
<1>2. CASE m.fTaskToWorker[id] # NoWorker
  <2>1. m.fTaskToWorker[id] \in WorkerId
    BY <1>2 DEF IsManager
  <2> QED BY <1>2, <2>1, ManagerConstants DEF Unassign, IsManager, OnlyUnassigns
<1> QED BY <1>1, <1>2

\* Unassigning the one task that stopped running restores the assignment maps.
LEMMA UnassignAssigned ==
  ASSUME NEW m, IsManager(m), NEW id \in TaskId, NEW n, OnlyUnassigns(n, m, id)
  PROVE  /\ \A t \in TaskId : \A w \in WorkerId :
              t \in m.fWorkerToTasks[w] <=> m.fTaskToWorker[t] = w
         /\ \A t \in TaskId \ {id} : m.fTaskToWorker[t] # NoWorker => t \in Running(m)
         => IsAssigned(n)
<1>1. OnlyUnassigns(n, m, id)
  OBVIOUS
<1> SUFFICES ASSUME \A t \in TaskId : \A w \in WorkerId :
                      t \in m.fWorkerToTasks[w] <=> m.fTaskToWorker[t] = w,
                    \A t \in TaskId \ {id} : m.fTaskToWorker[t] # NoWorker => t \in Running(m),
                    NEW t \in TaskId
             PROVE  /\ \A v \in WorkerId : t \in n.fWorkerToTasks[v] <=> n.fTaskToWorker[t] = v
                    /\ n.fTaskToWorker[t] # NoWorker => t \in Running(n)
  BY DEF IsAssigned
<1>2. \A v \in WorkerId : t \in n.fWorkerToTasks[v] <=> n.fTaskToWorker[t] = v
  <2> SUFFICES ASSUME NEW v \in WorkerId
               PROVE  t \in n.fWorkerToTasks[v] <=> n.fTaskToWorker[t] = v
    OBVIOUS
  <2>1. CASE t = id
    <3>1. t \notin n.fWorkerToTasks[v]
      BY <1>1, <2>1 DEF OnlyUnassigns
    <3> QED BY <1>1, <2>1, <3>1, ManagerConstants DEF OnlyUnassigns
  <2>2. CASE t # id
    BY <1>1, <2>2 DEF OnlyUnassigns
  <2> QED BY <2>1, <2>2
<1>3. n.fTaskToWorker[t] # NoWorker => t \in Running(n)
  BY <1>1 DEF Running, OnlyUnassigns
<1> QED BY <1>2, <1>3

\* Enqueueing a task that is not indexed appends it to the queue and the index.
LEMMA EnqueueFields ==
  ASSUME NEW m, IsManager(m), IsIndexed(m),
         NEW id \in TaskId, NEW payload \in TaskPayload, id \notin m.fPendingIds,
         NEW n, n = EnqueuePending(m, id, payload)
  PROVE  /\ IsManager(n) /\ IsIndexed(n)
         /\ n.fPendingIds = m.fPendingIds \cup {id}
         /\ n.fRunning = m.fRunning /\ n.fDone = m.fDone
         /\ n.fTaskPayloads = m.fTaskPayloads
         /\ n.fTaskToWorker = m.fTaskToWorker /\ n.fWorkerToTasks = m.fWorkerToTasks
         /\ \A pay : Matches(m.fPending, pay) /\ payload = pay[id] => Matches(n.fPending, pay)
<1> DEFINE e == Entry(id, payload)
<1>1. e \in Entries /\ e.id = id /\ e.payload = payload
  BY DEF Entry, Entries
<1>2. m.fPending \in Seq(Entries) /\ Distinct(m.fPending) /\ id \notin QueuedIds(m.fPending)
  BY DEF IsManager, IsIndexed
<1>3. /\ n.fPending = Append(m.fPending, e)
      /\ n.fPendingIds = m.fPendingIds \cup {id}
      /\ n.fRunning = m.fRunning /\ n.fDone = m.fDone
      /\ n.fTaskPayloads = m.fTaskPayloads
      /\ n.fTaskToWorker = m.fTaskToWorker /\ n.fWorkerToTasks = m.fWorkerToTasks
  BY DEF EnqueuePending, IsManager
<1> HIDE DEF e
<1>4. /\ Append(m.fPending, e) \in Seq(Entries)
      /\ Distinct(Append(m.fPending, e))
      /\ QueuedIds(Append(m.fPending, e)) = QueuedIds(m.fPending) \cup {e.id}
      /\ \A pay : Matches(m.fPending, pay) /\ e.payload = pay[e.id]
                 => Matches(Append(m.fPending, e), pay)
  BY <1>1, <1>2, AppendQueue
<1>5. IsManager(n)
  BY <1>3, <1>4 DEF IsManager, EnqueuePending, e
<1>6. IsIndexed(n)
  BY <1>1, <1>3, <1>4 DEF IsIndexed
<1> QED BY <1>1, <1>3, <1>4, <1>5, <1>6

-----------------------------------------------------------------------------
(* Every method preserves consistency *)

LEMMA EmptyConsistent == Consistent(Empty)
<1>1. IsManager(Empty)
  BY DEF IsManager, Empty
<1>2. IsIndexed(Empty)
  BY DEF IsIndexed, Empty, QueuedIds, Distinct
<1>3. IsPartitioned(Empty) /\ IsAssigned(Empty)
  BY ManagerConstants DEF IsPartitioned, IsAssigned, Empty, Running
<1>4. KeepsPayloads(Empty)
  BY DEF KeepsPayloads, Empty, Running
<1> QED BY <1>1, <1>2, <1>3, <1>4 DEF Consistent

LEMMA AddPendingConsistent ==
  ASSUME NEW m, Consistent(m), NEW id \in TaskId, NEW payload \in TaskPayload,
         ~TaskExists(m, id)
  PROVE  Consistent(AddPending(m, id, payload))
<1> DEFINE e == EnqueuePending(m, id, payload)
           n == AddPending(m, id, payload)
<1>1. /\ IsManager(m) /\ IsIndexed(m) /\ IsPartitioned(m) /\ IsAssigned(m) /\ KeepsPayloads(m)
      /\ id \notin m.fPendingIds /\ id \notin Running(m) /\ id \notin m.fDone
      /\ m.fTaskPayloads[id] = NoPayload
  BY DEF Consistent, TaskExists, IsDone
<1>2. /\ IsManager(e) /\ IsIndexed(e)
      /\ e.fPendingIds = m.fPendingIds \cup {id}
      /\ e.fRunning = m.fRunning /\ e.fDone = m.fDone
      /\ e.fTaskPayloads = m.fTaskPayloads
      /\ e.fTaskToWorker = m.fTaskToWorker /\ e.fWorkerToTasks = m.fWorkerToTasks
      /\ \A pay : Matches(m.fPending, pay) /\ payload = pay[id] => Matches(e.fPending, pay)
  BY <1>1, EnqueueFields
<1> HIDE DEF e
<1>3. /\ IsManager(n)
      /\ n.fPending = e.fPending /\ n.fPendingIds = e.fPendingIds
      /\ n.fRunning = e.fRunning /\ n.fDone = e.fDone
      /\ n.fTaskToWorker = e.fTaskToWorker /\ n.fWorkerToTasks = e.fWorkerToTasks
      /\ n.fTaskPayloads = [e.fTaskPayloads EXCEPT ![id] = payload]
  BY <1>2 DEF AddPending, IsManager, e
<1>4. IsIndexed(n)
  BY <1>2, <1>3 DEF IsIndexed
<1>5. IsPartitioned(n)
  BY <1>1, <1>2, <1>3, ManagerConstants DEF IsPartitioned, Running, IsManager
<1>6. IsAssigned(n)
  BY <1>1, <1>2, <1>3 DEF IsAssigned, Running
<1>7. KeepsPayloads(n)
  <2>1. Matches(m.fPending, n.fTaskPayloads)
    BY <1>1, <1>2, <1>3 DEF Matches, KeepsPayloads, IsManager, IsIndexed, QueuedIds
  <2>2. Matches(n.fPending, n.fTaskPayloads)
    BY <1>1, <1>2, <1>3, <2>1 DEF IsManager
  <2>3. \A t \in Running(n) : n.fRunning[t] = n.fTaskPayloads[t]
    BY <1>1, <1>2, <1>3 DEF KeepsPayloads, Running, IsManager
  <2> QED BY <2>2, <2>3 DEF KeepsPayloads, Matches
<1> QED BY <1>3, <1>4, <1>5, <1>6, <1>7 DEF Consistent

\* Both ways of dispatching: the task leaves the queue and runs on w.
LEMMA StartConsistent ==
  ASSUME NEW m, Consistent(m), NEW w \in WorkerId, NEW id \in m.fPendingIds,
         NEW payload, payload = m.fTaskPayloads[id],
         NEW q \in Seq(Entries), Distinct(q), QueuedIds(q) = m.fPendingIds \ {id},
         Matches(q, m.fTaskPayloads)
  PROVE  Consistent([StartOn(m, w, id, payload) EXCEPT !.fPending = q])
<1> DEFINE n == [StartOn(m, w, id, payload) EXCEPT !.fPending = q]
<1>1. /\ IsManager(m) /\ IsIndexed(m) /\ IsPartitioned(m) /\ IsAssigned(m) /\ KeepsPayloads(m)
      /\ id \in TaskId
  BY DEF Consistent, IsManager
<1>2. payload \in TaskPayload
  BY <1>1 DEF IsPartitioned, IsManager
<1>3. /\ n.fPending = q
      /\ n.fPendingIds = m.fPendingIds \ {id}
      /\ n.fRunning = [m.fRunning EXCEPT ![id] = payload]
      /\ n.fDone = m.fDone /\ n.fTaskPayloads = m.fTaskPayloads
      /\ n.fWorkerToTasks = [m.fWorkerToTasks EXCEPT ![w] = @ \cup {id}]
      /\ n.fTaskToWorker = [m.fTaskToWorker EXCEPT ![id] = w]
  BY <1>1 DEF StartOn, IsManager
<1>4. IsManager(n)
  BY <1>1, <1>2 DEF StartOn, IsManager
<1> HIDE DEF n
<1>5. IsIndexed(n)
  BY <1>3 DEF IsIndexed
<1>6. IsPartitioned(n)
  BY <1>1, <1>2, <1>3, ManagerConstants DEF IsPartitioned, Running, IsManager
<1>7. IsAssigned(n)
  <2>1. m.fTaskToWorker[id] = NoWorker
    BY <1>1 DEF IsAssigned, IsPartitioned
  <2> SUFFICES ASSUME NEW t \in TaskId
               PROVE  /\ \A v \in WorkerId : t \in n.fWorkerToTasks[v] <=> n.fTaskToWorker[t] = v
                      /\ n.fTaskToWorker[t] # NoWorker => t \in Running(n)
    BY DEF IsAssigned
  <2>2. CASE t = id
    BY <1>1, <1>2, <1>3, <2>1, <2>2, ManagerConstants DEF IsAssigned, Running, IsManager
  <2>3. CASE t # id
    BY <1>1, <1>3, <2>3 DEF IsAssigned, Running, IsManager
  <2> QED BY <2>2, <2>3
<1>8. KeepsPayloads(n)
  <2>1. \A t \in Running(n) : n.fRunning[t] = n.fTaskPayloads[t]
    BY <1>1, <1>3 DEF KeepsPayloads, Running, IsManager
  <2> QED BY <1>3, <2>1 DEF KeepsPayloads, Matches
<1> QED BY <1>4, <1>5, <1>6, <1>7, <1>8 DEF Consistent, n

LEMMA ClaimConsistent ==
  ASSUME NEW m, Consistent(m), NEW w \in WorkerId, HasPending(m)
  PROVE  /\ Head(m.fPending).id \in m.fPendingIds
         /\ Consistent(ClaimNextPendingForWorker(m, w))
<1>1. /\ m.fPending \in Seq(Entries) /\ Distinct(m.fPending) /\ m.fPending # << >>
      /\ m.fPendingIds = QueuedIds(m.fPending)
      /\ Matches(m.fPending, m.fTaskPayloads)
  BY DEF Consistent, IsManager, IsIndexed, HasPending, KeepsPayloads, Matches
<1>2. /\ Head(m.fPending) \in Entries
      /\ Head(m.fPending).id \in m.fPendingIds
      /\ Tail(m.fPending) \in Seq(Entries)
      /\ Distinct(Tail(m.fPending))
      /\ QueuedIds(Tail(m.fPending)) = m.fPendingIds \ {Head(m.fPending).id}
      /\ Matches(Tail(m.fPending), m.fTaskPayloads)
      /\ Head(m.fPending).payload = m.fTaskPayloads[Head(m.fPending).id]
  BY <1>1, TailQueue
<1>3. ClaimNextPendingForWorker(m, w)
        = [StartOn(m, w, Head(m.fPending).id, Head(m.fPending).payload)
             EXCEPT !.fPending = Tail(m.fPending)]
  BY DEF ClaimNextPendingForWorker, StartOn, Consistent, IsManager
<1> DEFINE h == Head(m.fPending)
           q == Tail(m.fPending)
<1>4. /\ h.id \in m.fPendingIds /\ h.payload = m.fTaskPayloads[h.id]
      /\ q \in Seq(Entries) /\ Distinct(q) /\ QueuedIds(q) = m.fPendingIds \ {h.id}
      /\ Matches(q, m.fTaskPayloads)
  BY <1>2
<1> HIDE DEF h, q
<1>5. Consistent([StartOn(m, w, h.id, h.payload) EXCEPT !.fPending = q])
  BY <1>4, StartConsistent
<1> QED BY <1>2, <1>3, <1>5 DEF h, q

LEMMA AssignConsistent ==
  ASSUME NEW m, Consistent(m), NEW w \in WorkerId, NEW k \in 1..Len(m.fPending)
  PROVE  /\ m.fPending[k].id \in m.fPendingIds
         /\ Consistent(AssignToWorker(m, w, k))
<1> DEFINE q == Without(m.fPending, k)
<1>1. /\ m.fPending \in Seq(Entries) /\ Distinct(m.fPending)
      /\ m.fPendingIds = QueuedIds(m.fPending)
      /\ Matches(m.fPending, m.fTaskPayloads)
  BY DEF Consistent, IsManager, IsIndexed, KeepsPayloads, Matches
<1>2. /\ q \in Seq(Entries) /\ Distinct(q)
      /\ QueuedIds(q) = m.fPendingIds \ {m.fPending[k].id}
      /\ Matches(q, m.fTaskPayloads)
  BY <1>1, WithoutQueue
<1>3. /\ m.fPending[k].id \in m.fPendingIds
      /\ m.fPending[k].payload = m.fTaskPayloads[m.fPending[k].id]
  BY <1>1 DEF QueuedIds, Matches
<1>4. AssignToWorker(m, w, k)
        = [StartOn(m, w, m.fPending[k].id, m.fPending[k].payload) EXCEPT !.fPending = q]
  BY DEF AssignToWorker, StartOn, Consistent, IsManager
<1> DEFINE e == m.fPending[k]
<1>5. e \in Entries
  BY <1>1
<1>6. /\ q \in Seq(Entries) /\ Distinct(q) /\ QueuedIds(q) = m.fPendingIds \ {e.id}
      /\ Matches(q, m.fTaskPayloads) /\ e.id \in m.fPendingIds /\ e.payload = m.fTaskPayloads[e.id]
      /\ e \in Entries
  BY <1>2, <1>3, <1>5
<1>7. AssignToWorker(m, w, k) = [StartOn(m, w, e.id, e.payload) EXCEPT !.fPending = q]
  BY <1>4
<1> HIDE DEF q, e
<1>8. Consistent([StartOn(m, w, e.id, e.payload) EXCEPT !.fPending = q])
  BY <1>6, StartConsistent
<1> QED BY <1>3, <1>7, <1>8

LEMMA MarkDoneConsistent ==
  ASSUME NEW m, Consistent(m), NEW id \in Running(m)
  PROVE  Consistent(MarkDone(m, id))
<1> DEFINE d == [m EXCEPT !.fDone = @ \cup {id}, !.fRunning[id] = NoPayload]
           n == MarkDone(m, id)
<1>1. /\ IsManager(m) /\ IsIndexed(m) /\ IsPartitioned(m) /\ IsAssigned(m) /\ KeepsPayloads(m)
      /\ id \in TaskId
  BY DEF Consistent, Running
<1>2. /\ IsManager(d)
      /\ d.fPending = m.fPending /\ d.fPendingIds = m.fPendingIds
      /\ d.fRunning = [m.fRunning EXCEPT ![id] = NoPayload]
      /\ d.fDone = m.fDone \cup {id} /\ d.fTaskPayloads = m.fTaskPayloads
      /\ d.fTaskToWorker = m.fTaskToWorker /\ d.fWorkerToTasks = m.fWorkerToTasks
  BY <1>1 DEF IsManager
<1>3. n = Unassign(d, id)
  BY DEF MarkDone
<1> HIDE DEF d, n
<1>4. OnlyUnassigns(n, d, id)
  <2>1. IsManager(d) /\ id \in TaskId
    BY <1>1, <1>2
  <2> QED BY <1>3, <2>1, UnassignFields
<1>5. IsIndexed(n)
  BY <1>1, <1>2, <1>4 DEF IsIndexed, OnlyUnassigns
<1>6. IsPartitioned(n)
  BY <1>1, <1>2, <1>4 DEF IsPartitioned, Running, IsManager, OnlyUnassigns
<1>7. IsAssigned(n)
  <2>1. /\ \A t \in TaskId : \A w \in WorkerId :
             t \in d.fWorkerToTasks[w] <=> d.fTaskToWorker[t] = w
        /\ \A t \in TaskId \ {id} : d.fTaskToWorker[t] # NoWorker => t \in Running(d)
    BY <1>1, <1>2 DEF IsAssigned, Running, IsManager
  <2> QED BY <1>1, <1>2, <1>4, <2>1, UnassignAssigned
<1>8. KeepsPayloads(n)
  BY <1>1, <1>2, <1>4 DEF KeepsPayloads, Running, IsManager, OnlyUnassigns
<1> QED BY <1>4, <1>5, <1>6, <1>7, <1>8 DEF Consistent, OnlyUnassigns, n

LEMMA MarkFailedConsistent ==
  ASSUME NEW m, Consistent(m), NEW id \in Running(m)
  PROVE  Consistent(MarkFailed(m, id))
<1> DEFINE c == [m EXCEPT !.fRunning[id] = NoPayload]
           e == EnqueuePending(c, id, m.fRunning[id])
           n == MarkFailed(m, id)
<1>1. /\ IsManager(m) /\ IsIndexed(m) /\ IsPartitioned(m) /\ IsAssigned(m) /\ KeepsPayloads(m)
      /\ id \in TaskId /\ id \notin m.fPendingIds
      /\ m.fRunning[id] \in TaskPayload
      /\ m.fRunning[id] = m.fTaskPayloads[id]
  BY DEF Consistent, Running, IsPartitioned, IsManager, KeepsPayloads
<1>2. /\ IsManager(c) /\ IsIndexed(c)
      /\ c.fPending = m.fPending /\ c.fPendingIds = m.fPendingIds
      /\ c.fRunning = [m.fRunning EXCEPT ![id] = NoPayload]
      /\ c.fDone = m.fDone /\ c.fTaskPayloads = m.fTaskPayloads
      /\ c.fTaskToWorker = m.fTaskToWorker /\ c.fWorkerToTasks = m.fWorkerToTasks
  BY <1>1 DEF IsManager, IsIndexed
<1>3. n = Unassign(e, id)
  BY DEF MarkFailed
<1> HIDE DEF c, n
<1>4. /\ IsManager(e) /\ IsIndexed(e)
      /\ e.fPendingIds = c.fPendingIds \cup {id}
      /\ e.fRunning = c.fRunning /\ e.fDone = c.fDone
      /\ e.fTaskPayloads = c.fTaskPayloads
      /\ e.fTaskToWorker = c.fTaskToWorker /\ e.fWorkerToTasks = c.fWorkerToTasks
      /\ \A pay : Matches(c.fPending, pay) /\ m.fRunning[id] = pay[id] => Matches(e.fPending, pay)
  BY <1>1, <1>2, EnqueueFields
<1> HIDE DEF e
<1>5. OnlyUnassigns(n, e, id)
  <2>1. IsManager(e) /\ id \in TaskId
    BY <1>1, <1>4
  <2> QED BY <1>3, <2>1, UnassignFields
<1>6. IsIndexed(n)
  BY <1>4, <1>5 DEF IsIndexed, OnlyUnassigns
<1>7. IsPartitioned(n)
  BY <1>1, <1>2, <1>4, <1>5 DEF IsPartitioned, Running, IsManager, OnlyUnassigns
<1>8. IsAssigned(n)
  <2>1. \A t \in TaskId : \A w \in WorkerId :
          t \in e.fWorkerToTasks[w] <=> e.fTaskToWorker[t] = w
    BY <1>1, <1>2, <1>4 DEF IsAssigned
  <2>2. \A t \in TaskId \ {id} : e.fTaskToWorker[t] # NoWorker => t \in Running(e)
    BY <1>1, <1>2, <1>4 DEF IsAssigned, Running, IsManager
  <2>3. IsManager(e) /\ id \in TaskId
    BY <1>1, <1>4
  <2> QED BY <1>5, <2>1, <2>2, <2>3, UnassignAssigned
<1>9. KeepsPayloads(n)
  <2>1. Matches(n.fPending, n.fTaskPayloads)
    BY <1>1, <1>2, <1>4, <1>5 DEF Matches, KeepsPayloads, OnlyUnassigns
  <2>2. \A t \in Running(n) : n.fRunning[t] = n.fTaskPayloads[t]
    BY <1>1, <1>2, <1>4, <1>5 DEF KeepsPayloads, Running, IsManager, OnlyUnassigns
  <2> QED BY <2>1, <2>2 DEF KeepsPayloads, Matches
<1> QED BY <1>5, <1>6, <1>7, <1>8, <1>9 DEF Consistent, OnlyUnassigns, n

LEMMA RequeueConsistent ==
  ASSUME NEW m, Consistent(m), NEW id \in TaskId, CanRequeue(m, id)
  PROVE  Consistent(RequeueTask(m, id))
<1>1. CASE id \in Running(m)
  BY <1>1, MarkFailedConsistent DEF RequeueTask
<1>2. CASE id \notin Running(m)
  <2> DEFINE c == [m EXCEPT !.fDone = @ \ {id}]
             n == RequeueTask(m, id)
  <2>1. /\ IsManager(m) /\ IsIndexed(m) /\ IsPartitioned(m) /\ IsAssigned(m) /\ KeepsPayloads(m)
        /\ id \in m.fDone /\ id \notin m.fPendingIds
        /\ m.fTaskPayloads[id] \in TaskPayload
    BY <1>2 DEF Consistent, CanRequeue, IsDone, IsPartitioned, IsManager
  <2>2. /\ IsManager(c) /\ IsIndexed(c)
        /\ c.fPending = m.fPending /\ c.fPendingIds = m.fPendingIds
        /\ c.fRunning = m.fRunning /\ c.fDone = m.fDone \ {id}
        /\ c.fTaskPayloads = m.fTaskPayloads
        /\ c.fTaskToWorker = m.fTaskToWorker /\ c.fWorkerToTasks = m.fWorkerToTasks
    BY <2>1 DEF IsManager, IsIndexed
  <2>3. n = EnqueuePending(c, id, m.fTaskPayloads[id])
    BY <1>2 DEF RequeueTask
  <2> HIDE DEF c, n
  <2>4. /\ IsManager(n) /\ IsIndexed(n)
        /\ n.fPendingIds = c.fPendingIds \cup {id}
        /\ n.fRunning = c.fRunning /\ n.fDone = c.fDone
        /\ n.fTaskPayloads = c.fTaskPayloads
        /\ n.fTaskToWorker = c.fTaskToWorker /\ n.fWorkerToTasks = c.fWorkerToTasks
        /\ \A pay : Matches(c.fPending, pay) /\ m.fTaskPayloads[id] = pay[id]
                   => Matches(n.fPending, pay)
    BY <2>1, <2>2, <2>3, EnqueueFields
  <2>5. IsPartitioned(n)
    BY <2>1, <2>2, <2>4 DEF IsPartitioned, Running
  <2>6. IsAssigned(n)
    BY <2>1, <2>2, <2>4 DEF IsAssigned, Running
  <2>7. KeepsPayloads(n)
    <3>1. Matches(n.fPending, n.fTaskPayloads)
      BY <2>1, <2>2, <2>4 DEF Matches, KeepsPayloads
    <3>2. \A t \in Running(n) : n.fRunning[t] = n.fTaskPayloads[t]
      BY <2>1, <2>2, <2>4 DEF KeepsPayloads, Running
    <3> QED BY <3>1, <3>2 DEF KeepsPayloads, Matches
  <2> QED BY <2>4, <2>5, <2>6, <2>7 DEF Consistent, n
<1> QED BY <1>1, <1>2

LEMMA RecoverConsistent ==
  ASSUME NEW m, Consistent(m), NEW w \in WorkerId, NEW s \in Ascending(Recoverable(m, w))
  PROVE  Consistent(RecoverWorkerTasks(m, w, s))
<1> DEFINE S == m.fWorkerToTasks[w]
           q == [i \in 1..Len(s) |-> Entry(s[i], m.fRunning[s[i]])]
           n == RecoverWorkerTasks(m, w, s)
<1>1. /\ IsManager(m) /\ IsIndexed(m) /\ IsPartitioned(m) /\ IsAssigned(m) /\ KeepsPayloads(m)
      /\ S \subseteq TaskId
  BY DEF Consistent, IsManager
<1>2. \A t \in S : /\ t \in Running(m) /\ t \notin m.fPendingIds /\ t \notin m.fDone
                   /\ m.fRunning[t] \in TaskPayload /\ m.fRunning[t] = m.fTaskPayloads[t]
  <2>1. \A t \in S : t \in Running(m)
    BY <1>1, ManagerConstants DEF IsAssigned
  <2> QED BY <1>1, <2>1 DEF IsPartitioned, Running, IsManager, KeepsPayloads
<1>3. Recoverable(m, w) = S
  BY <1>2 DEF Recoverable
<1>4. /\ s \in Seq(S)
      /\ S = {s[i] : i \in 1..Len(s)}
      /\ \A i, j \in 1..Len(s) : s[i] = s[j] => i = j
  <2>1. Cardinality(S) \in Nat
    BY <1>1, ManagerConstants, FS_Subset, FS_CardinalityType
  <2>2. /\ s \in [1..Cardinality(S) -> S]
        /\ \A i, j \in 1..Cardinality(S) : i < j => s[i] < s[j]
        /\ S = {s[i] : i \in 1..Cardinality(S)}
    BY <1>3 DEF Ascending
  <2>3. s \in Seq(S) /\ Len(s) = Cardinality(S)
    BY <2>1, <2>2
  <2>4. \A i, j \in 1..Cardinality(S) : s[i] = s[j] => i = j
    <3> SUFFICES ASSUME NEW i \in 1..Cardinality(S), NEW j \in 1..Cardinality(S), i < j
                 PROVE  s[i] # s[j]
      BY <2>1
    <3>1. s[i] < s[j] /\ s[i] \in Nat /\ s[j] \in Nat
      BY <1>1, <2>2, ManagerConstants
    <3> QED BY <3>1
  <2> QED BY <2>2, <2>3, <2>4
<1>5. /\ q \in Seq(Entries) /\ Len(q) = Len(s)
      /\ \A i \in 1..Len(s) : q[i].id = s[i] /\ q[i].payload = m.fTaskPayloads[s[i]]
  <2>1. \A i \in 1..Len(s) : s[i] \in S
    BY <1>4
  <2>2. \A i \in 1..Len(s) : Entry(s[i], m.fRunning[s[i]]) \in Entries
    BY <1>1, <1>2, <2>1 DEF Entry, Entries
  <2>3. q \in Seq(Entries) /\ Len(q) = Len(s)
    BY <1>4, <2>2
  <2> QED BY <1>2, <2>1, <2>3 DEF Entry
<1>6. n.fPending = m.fPending \o q /\ n.fPendingIds = m.fPendingIds \cup S
  BY <1>1, <1>4 DEF RecoverWorkerTasks, IsManager
<1>7. /\ n.fRunning = [t \in TaskId |-> IF t \in S THEN NoPayload ELSE m.fRunning[t]]
      /\ n.fTaskToWorker = [t \in TaskId |-> IF t \in S THEN NoWorker ELSE m.fTaskToWorker[t]]
      /\ n.fWorkerToTasks = [m.fWorkerToTasks EXCEPT ![w] = {}]
      /\ n.fDone = m.fDone /\ n.fTaskPayloads = m.fTaskPayloads
  BY <1>1 DEF RecoverWorkerTasks, IsManager
<1> HIDE DEF q
<1>8. /\ Distinct(q) /\ QueuedIds(q) = S /\ Matches(q, m.fTaskPayloads)
  BY <1>4, <1>5 DEF Distinct, QueuedIds, Matches
<1>9. /\ m.fPending \o q \in Seq(Entries)
      /\ Distinct(m.fPending \o q)
      /\ QueuedIds(m.fPending \o q) = m.fPendingIds \cup S
      /\ Matches(m.fPending \o q, m.fTaskPayloads)
  <2>1. /\ m.fPending \in Seq(Entries) /\ Distinct(m.fPending)
        /\ QueuedIds(m.fPending) = m.fPendingIds
        /\ QueuedIds(m.fPending) \cap QueuedIds(q) = {}
        /\ Matches(m.fPending, m.fTaskPayloads)
    BY <1>1, <1>2, <1>8 DEF IsManager, IsIndexed, KeepsPayloads, Matches
  <2> QED BY <1>5, <1>8, <2>1, ConcatQueue
<1>10. IsManager(n)
  BY <1>1, <1>4, <1>6, <1>9 DEF IsManager, RecoverWorkerTasks, q
<1> HIDE DEF n, S
<1>11. IsIndexed(n)
  BY <1>6, <1>9 DEF IsIndexed
<1>12. IsPartitioned(n)
  BY <1>1, <1>2, <1>6, <1>7, ManagerConstants DEF IsPartitioned, Running, IsManager
<1>13. IsAssigned(n)
  BY <1>1, <1>2, <1>7, ManagerConstants DEF IsAssigned, Running, IsManager, S
<1>14. KeepsPayloads(n)
  BY <1>1, <1>6, <1>7, <1>9 DEF KeepsPayloads, Matches, Running, IsManager
<1> QED BY <1>10, <1>11, <1>12, <1>13, <1>14 DEF Consistent, n

LEMMA RemoveConsistent ==
  ASSUME NEW m, Consistent(m), NEW w \in WorkerId, NEW id \in GetWorkerTasks(m, w)
  PROVE  Consistent(RemoveTaskFromWorker(m, w, id))
<1> DEFINE n == RemoveTaskFromWorker(m, w, id)
<1>1. /\ IsManager(m) /\ IsIndexed(m) /\ IsPartitioned(m) /\ IsAssigned(m) /\ KeepsPayloads(m)
      /\ id \in m.fWorkerToTasks[w] /\ id \in TaskId
  BY DEF Consistent, IsManager, GetWorkerTasks
<1>2. /\ IsManager(n)
      /\ n.fPending = m.fPending /\ n.fPendingIds = m.fPendingIds
      /\ n.fRunning = m.fRunning /\ n.fDone = m.fDone
      /\ n.fTaskPayloads = m.fTaskPayloads
      /\ n.fWorkerToTasks = [m.fWorkerToTasks EXCEPT ![w] = @ \ {id}]
      /\ n.fTaskToWorker = [m.fTaskToWorker EXCEPT ![id] = NoWorker]
  BY <1>1 DEF RemoveTaskFromWorker, IsManager
<1> HIDE DEF n
<1>3. IsIndexed(n) /\ IsPartitioned(n) /\ KeepsPayloads(n)
  BY <1>1, <1>2 DEF IsIndexed, IsPartitioned, KeepsPayloads, Running
<1>4. IsAssigned(n)
  BY <1>1, <1>2, ManagerConstants DEF IsAssigned, Running, IsManager
<1> QED BY <1>2, <1>3, <1>4 DEF Consistent, n

-----------------------------------------------------------------------------
(* The state machine *)

\* The five consistency properties of the manager hold together in every
\* reachable state, whatever sequence of calls its user makes.
THEOREM ConsistentAlways == Spec => []Consistent(mgr)
<1>1. Init => Consistent(mgr)
  BY EmptyConsistent DEF Init
<1>2. Consistent(mgr) /\ [Next]_mgr => Consistent(mgr)'
  <2> SUFFICES ASSUME Consistent(mgr), [Next]_mgr
               PROVE  Consistent(mgr')
    OBVIOUS
  <2>1. ASSUME NEW id \in TaskId, NEW payload \in TaskPayload, DoAddPending(id, payload)
        PROVE  Consistent(mgr')
    BY <2>1, AddPendingConsistent DEF DoAddPending
  <2>2. ASSUME NEW w \in WorkerId, NEW id \in TaskId, DoAssignToWorker(w, id)
        PROVE  Consistent(mgr')
    BY <2>2, AssignConsistent DEF DoAssignToWorker
  <2>3. ASSUME NEW w \in WorkerId, DoClaimNextPending(w)
        PROVE  Consistent(mgr')
    BY <2>3, ClaimConsistent DEF DoClaimNextPending
  <2>4. ASSUME NEW id \in TaskId, DoMarkDone(id)
        PROVE  Consistent(mgr')
    BY <2>4, MarkDoneConsistent DEF DoMarkDone
  <2>5. ASSUME NEW id \in TaskId, DoMarkFailed(id)
        PROVE  Consistent(mgr')
    BY <2>5, MarkFailedConsistent DEF DoMarkFailed
  <2>6. ASSUME NEW id \in TaskId, DoRequeueTask(id)
        PROVE  Consistent(mgr')
    BY <2>6, RequeueConsistent DEF DoRequeueTask
  <2>7. ASSUME NEW w \in WorkerId, DoRecoverWorkerTasks(w)
        PROVE  Consistent(mgr')
    BY <2>7, RecoverConsistent DEF DoRecoverWorkerTasks
  <2>8. ASSUME NEW w \in WorkerId, NEW id \in TaskId, DoRemoveTaskFromWorker(w, id)
        PROVE  Consistent(mgr')
    BY <2>8, RemoveConsistent DEF DoRemoveTaskFromWorker
  <2>9. CASE Clear
    BY <2>9, EmptyConsistent DEF Clear
  <2>10. CASE UNCHANGED mgr
    BY <2>10
  <2> QED
    BY <2>1, <2>2, <2>3, <2>4, <2>5, <2>6, <2>7, <2>8, <2>9, <2>10 DEF Next
<1> QED BY <1>1, <1>2, PTL DEF Spec

\* The object always has the type its declarations give it.
THEOREM TypeCorrect == Spec => []TypeOK
<1>1. Consistent(mgr) => TypeOK
  BY DEF Consistent, TypeOK
<1> QED BY <1>1, ConsistentAlways, PTL

\* The pending index never drifts from the queue it indexes.
THEOREM IndexNeverDrifts == Spec => []PendingIndexExact
<1>1. Consistent(mgr) => PendingIndexExact
  BY DEF Consistent, PendingIndexExact
<1> QED BY <1>1, ConsistentAlways, PTL

\* No sequence of calls loses or duplicates a task.
THEOREM NoTaskLost == Spec => []ExactlyOneBucket
<1>1. Consistent(mgr) => ExactlyOneBucket
  BY DEF Consistent, ExactlyOneBucket
<1> QED BY <1>1, ConsistentAlways, PTL

\* The two assignment maps never disagree.
THEOREM AssignmentsAlwaysAgree == Spec => []AssignmentsAgree
<1>1. Consistent(mgr) => AssignmentsAgree
  BY DEF Consistent, AssignmentsAgree
<1> QED BY <1>1, ConsistentAlways, PTL

\* A replayed task carries the coordinates it was added with.
THEOREM PayloadsAlwaysKept == Spec => []PayloadsKept
<1>1. Consistent(mgr) => PayloadsKept
  BY DEF Consistent, PayloadsKept
<1> QED BY <1>1, ConsistentAlways, PTL

-----------------------------------------------------------------------------
(* Dispatch order *)

\* What FirstInFirstOut says of one step that takes the queue from q to r.
KeepsOrder(q, r) ==
  \A a, b \in TaskId :
    /\ a \in QueuedIds(q) \cap QueuedIds(r)
    /\ b \in QueuedIds(r)
    /\ Ahead(q, a, b) \/ b \notin QueuedIds(q)
    => Ahead(r, a, b)

\* A queue that only grows at its back keeps the order.
LEMMA GrowKeepsOrder ==
  ASSUME NEW q \in Seq(Entries), NEW r \in Seq(Entries), Len(q) <= Len(r),
         \A i \in 1..Len(q) : r[i] = q[i]
  PROVE  KeepsOrder(q, r)
<1> SUFFICES ASSUME NEW a \in QueuedIds(q), NEW b \in QueuedIds(r),
                    Ahead(q, a, b) \/ b \notin QueuedIds(q)
             PROVE  Ahead(r, a, b)
  BY DEF KeepsOrder
<1>0. Len(q) \in Nat /\ Len(r) \in Nat
  OBVIOUS
<1>1. CASE Ahead(q, a, b)
  BY <1>0, <1>1 DEF Ahead
<1>2. CASE b \notin QueuedIds(q)
  <2>1. PICK i \in 1..Len(q) : q[i].id = a
    BY DEF QueuedIds
  <2>2. PICK j \in 1..Len(r) : r[j].id = b
    BY DEF QueuedIds
  <2>3. j \notin 1..Len(q)
    BY <1>2, <2>2 DEF QueuedIds
  <2>4. i \in 1..Len(r) /\ i < j /\ r[i].id = a
    BY <1>0, <2>1, <2>2, <2>3
  <2> QED BY <2>2, <2>4 DEF Ahead
<1> QED BY <1>1, <1>2

\* A queue from which one position is taken keeps the order of the others.
LEMMA TakeKeepsOrder ==
  ASSUME NEW q \in Seq(Entries), Distinct(q), NEW k \in 1..Len(q),
         NEW r \in Seq(Entries), Len(r) = Len(q) - 1,
         \A i \in 1..Len(r) : r[i] = q[IF i < k THEN i ELSE i + 1]
  PROVE  KeepsOrder(q, r)
<1>0. Len(q) \in Nat /\ Len(r) \in Nat
  OBVIOUS
<1>1. QueuedIds(r) \subseteq QueuedIds(q) \ {q[k].id}
  <2> SUFFICES ASSUME NEW i \in 1..Len(r)
               PROVE  r[i].id \in QueuedIds(q) /\ r[i].id # q[k].id
    BY DEF QueuedIds
  <2> DEFINE j == IF i < k THEN i ELSE i + 1
  <2>1. j \in 1..Len(q) /\ j # k /\ r[i] = q[j]
    BY <1>0
  <2> HIDE DEF j
  <2> QED BY <2>1 DEF QueuedIds, Distinct
<1> SUFFICES ASSUME NEW a \in QueuedIds(r), NEW b \in QueuedIds(r), Ahead(q, a, b)
             PROVE  Ahead(r, a, b)
  BY <1>1 DEF KeepsOrder
<1>2. PICK i \in 1..Len(q), j \in 1..Len(q) : i < j /\ q[i].id = a /\ q[j].id = b
  BY DEF Ahead
<1>3. i # k /\ j # k
  BY <1>1, <1>2
<1> DEFINE new(x) == IF x < k THEN x ELSE x - 1
<1>4. ASSUME NEW x \in 1..Len(q), x # k
      PROVE  new(x) \in 1..Len(r) /\ r[new(x)] = q[x]
  <2>1. new(x) \in 1..Len(r)
    BY <1>0, <1>4
  <2>2. (IF new(x) < k THEN new(x) ELSE new(x) + 1) = x
    BY <1>0, <1>4
  <2> HIDE DEF new
  <2> QED BY <2>1, <2>2
<1>5. new(i) < new(j)
  BY <1>2, <1>3
<1> HIDE DEF new
<1> QED BY <1>2, <1>3, <1>4, <1>5 DEF Ahead

-----------------------------------------------------------------------------
(* What each method leaves in the queue, its index, fRunning and fDone *)

\* n is m with these four members.
Holds(n, queue, ids, running, done) ==
  /\ n.fPending = queue /\ n.fPendingIds = ids
  /\ n.fRunning = running /\ n.fDone = done

\* Unassign leaves all four alone.
LEMMA UnassignHolds ==
  ASSUME NEW m, IsManager(m), NEW id \in TaskId
  PROVE  Holds(Unassign(m, id), m.fPending, m.fPendingIds, m.fRunning, m.fDone)
BY UnassignFields DEF Holds, OnlyUnassigns

LEMMA AddPendingHolds ==
  ASSUME NEW m, Consistent(m), NEW id \in TaskId, NEW payload \in TaskPayload,
         ~TaskExists(m, id)
  PROVE  Holds(AddPending(m, id, payload), Append(m.fPending, Entry(id, payload)),
               m.fPendingIds \cup {id}, m.fRunning, m.fDone)
BY DEF AddPending, EnqueuePending, TaskExists, Consistent, IsManager, Holds

LEMMA StartHolds ==
  ASSUME NEW m, Consistent(m), NEW w \in WorkerId, NEW id \in TaskId, NEW payload, NEW q
  PROVE  Holds([StartOn(m, w, id, payload) EXCEPT !.fPending = q], q, m.fPendingIds \ {id},
               [m.fRunning EXCEPT ![id] = payload], m.fDone)
BY DEF StartOn, Consistent, IsManager, Holds

LEMMA MarkDoneHolds ==
  ASSUME NEW m, Consistent(m), NEW id \in Running(m)
  PROVE  Holds(MarkDone(m, id), m.fPending, m.fPendingIds,
               [m.fRunning EXCEPT ![id] = NoPayload], m.fDone \cup {id})
<1> DEFINE d == [m EXCEPT !.fDone = @ \cup {id}, !.fRunning[id] = NoPayload]
<1>1. IsManager(m) /\ id \in TaskId
  BY DEF Consistent, Running
<1>2. /\ IsManager(d)
      /\ d.fPending = m.fPending /\ d.fPendingIds = m.fPendingIds
      /\ d.fRunning = [m.fRunning EXCEPT ![id] = NoPayload] /\ d.fDone = m.fDone \cup {id}
  BY <1>1 DEF IsManager
<1>3. MarkDone(m, id) = Unassign(d, id)
  BY DEF MarkDone
<1> HIDE DEF d
<1>4. Holds(Unassign(d, id), d.fPending, d.fPendingIds, d.fRunning, d.fDone)
  BY <1>1, <1>2, UnassignHolds
<1> QED BY <1>2, <1>3, <1>4

LEMMA MarkFailedHolds ==
  ASSUME NEW m, Consistent(m), NEW id \in Running(m)
  PROVE  Holds(MarkFailed(m, id), Append(m.fPending, Entry(id, m.fRunning[id])),
               m.fPendingIds \cup {id}, [m.fRunning EXCEPT ![id] = NoPayload], m.fDone)
<1> DEFINE c == [m EXCEPT !.fRunning[id] = NoPayload]
           e == EnqueuePending(c, id, m.fRunning[id])
<1>1. /\ IsManager(m) /\ IsIndexed(m) /\ id \in TaskId /\ id \notin m.fPendingIds
      /\ m.fRunning[id] \in TaskPayload
  BY DEF Consistent, Running, IsPartitioned, IsManager
<1>2. /\ IsManager(c) /\ IsIndexed(c)
      /\ c.fPending = m.fPending /\ c.fPendingIds = m.fPendingIds
      /\ c.fRunning = [m.fRunning EXCEPT ![id] = NoPayload] /\ c.fDone = m.fDone
  BY <1>1 DEF IsManager, IsIndexed
<1>3. MarkFailed(m, id) = Unassign(e, id)
  BY DEF MarkFailed
<1> HIDE DEF c
<1>4. IsManager(e) /\ e.fRunning = c.fRunning /\ e.fDone = c.fDone
  BY <1>1, <1>2, EnqueueFields
<1>5. /\ e.fPending = Append(c.fPending, Entry(id, m.fRunning[id]))
      /\ e.fPendingIds = c.fPendingIds \cup {id}
  BY <1>1, <1>2 DEF EnqueuePending, IsManager
<1> HIDE DEF e
<1>6. Holds(Unassign(e, id), e.fPending, e.fPendingIds, e.fRunning, e.fDone)
  BY <1>1, <1>4, UnassignHolds
<1> QED BY <1>2, <1>3, <1>4, <1>5, <1>6

\* Putting a finished task back: it leaves fDone for the queue.
LEMMA RequeueDoneHolds ==
  ASSUME NEW m, Consistent(m), NEW id \in TaskId, CanRequeue(m, id), id \notin Running(m)
  PROVE  Holds(RequeueTask(m, id), Append(m.fPending, Entry(id, m.fTaskPayloads[id])),
               m.fPendingIds \cup {id}, m.fRunning, m.fDone \ {id})
<1>1. IsManager(m) /\ id \notin m.fPendingIds
  BY DEF Consistent, CanRequeue, IsDone, IsPartitioned
<1> QED BY <1>1 DEF RequeueTask, EnqueuePending, IsManager, Holds

\* Recovering a worker queues its tasks behind the others.
LEMMA RecoverHolds ==
  ASSUME NEW m, Consistent(m), NEW w \in WorkerId, NEW s \in Ascending(Recoverable(m, w))
  PROVE  LET S == m.fWorkerToTasks[w]
         IN  /\ S \subseteq Running(m)
             /\ \E q \in Seq(Entries) :
                  Holds(RecoverWorkerTasks(m, w, s), m.fPending \o q, m.fPendingIds \cup S,
                        [t \in TaskId |-> IF t \in S THEN NoPayload ELSE m.fRunning[t]], m.fDone)
<1> DEFINE S == m.fWorkerToTasks[w]
           q == [i \in 1..Len(s) |-> Entry(s[i], m.fRunning[s[i]])]
<1>1. IsManager(m) /\ IsPartitioned(m) /\ IsAssigned(m) /\ S \subseteq TaskId
  BY DEF Consistent, IsManager
<1>2. S \subseteq Running(m) /\ S \cap m.fPendingIds = {}
  <2>1. \A t \in S : t \in Running(m)
    BY <1>1, ManagerConstants DEF IsAssigned
  <2> QED BY <1>1, <2>1 DEF IsPartitioned
<1>3. Recoverable(m, w) = S
  BY <1>2 DEF Recoverable
<1>4. Cardinality(S) \in Nat
  BY <1>1, ManagerConstants, FS_Subset, FS_CardinalityType
<1>5. s \in [1..Cardinality(S) -> S] /\ S = {s[i] : i \in 1..Cardinality(S)}
  BY <1>3 DEF Ascending
<1>6. s \in Seq(S) /\ Len(s) = Cardinality(S)
  BY <1>4, <1>5
<1>7. \A i \in 1..Len(s) : Entry(s[i], m.fRunning[s[i]]) \in Entries
  <2> SUFFICES ASSUME NEW i \in 1..Len(s) PROVE Entry(s[i], m.fRunning[s[i]]) \in Entries
    OBVIOUS
  <2>1. s[i] \in TaskId /\ m.fRunning[s[i]] \in TaskPayload
    BY <1>1, <1>2, <1>6 DEF Running, IsManager
  <2> QED BY <2>1 DEF Entry, Entries
<1>8. q \in Seq(Entries)
  BY <1>6, <1>7
<1>9. Holds(RecoverWorkerTasks(m, w, s), m.fPending \o q, m.fPendingIds \cup S,
            [t \in TaskId |-> IF t \in S THEN NoPayload ELSE m.fRunning[t]], m.fDone)
  BY <1>1, <1>5, <1>6 DEF RecoverWorkerTasks, IsManager, Holds
<1> HIDE DEF q, S
<1> QED BY <1>2, <1>8, <1>9 DEF S

-----------------------------------------------------------------------------
(* The order of dispatch and the ledger *)

\* No method reorders the queue: it grows at the back or loses one position.
LEMMA CallKeepsOrder ==
  ASSUME Consistent(mgr), Next
  PROVE  KeepsOrder(mgr.fPending, mgr'.fPending)
<1> DEFINE q == mgr.fPending
           r == mgr'.fPending
<1>0. q \in Seq(Entries) /\ Distinct(q) /\ Len(q) \in Nat
  BY DEF Consistent, IsManager, IsIndexed
<1>a. ASSUME NEW e \in Entries, r = Append(q, e) PROVE KeepsOrder(q, r)
  <2>1. /\ r \in Seq(Entries) /\ Len(q) <= Len(r)
        /\ \A i \in 1..Len(q) : r[i] = q[i]
    BY <1>0, <1>a
  <2> HIDE DEF q, r
  <2> QED BY <1>0, <2>1, GrowKeepsOrder
<1>b. ASSUME r = q PROVE KeepsOrder(q, r)
  <2>1. q \in Seq(Entries) /\ Len(q) <= Len(q) /\ \A i \in 1..Len(q) : q[i] = q[i]
    BY <1>0
  <2> HIDE DEF q, r
  <2> QED BY <1>b, <2>1, GrowKeepsOrder
<1>f. ASSUME NEW id \in Running(mgr), mgr' = MarkFailed(mgr, id) PROVE KeepsOrder(q, r)
  <2>1. Entry(id, mgr.fRunning[id]) \in Entries
    BY DEF Consistent, IsManager, Running, Entry, Entries
  <2>2. r = Append(q, Entry(id, mgr.fRunning[id]))
    BY <1>f, MarkFailedHolds DEF Holds
  <2> QED BY <1>a, <2>1, <2>2
<1>1. ASSUME NEW id \in TaskId, NEW payload \in TaskPayload, DoAddPending(id, payload)
      PROVE  KeepsOrder(q, r)
  <2>1. r = Append(q, Entry(id, payload)) /\ Entry(id, payload) \in Entries
    BY <1>1, AddPendingHolds DEF DoAddPending, Holds, Entry, Entries
  <2> QED BY <1>a, <2>1
<1>2. ASSUME NEW w \in WorkerId, NEW id \in TaskId, DoAssignToWorker(w, id)
      PROVE  KeepsOrder(q, r)
  <2>1. PICK k \in 1..Len(q) : mgr' = AssignToWorker(mgr, w, k)
    BY <1>2 DEF DoAssignToWorker
  <2>2. r = Without(q, k)
    BY <2>1 DEF AssignToWorker, StartOn, Consistent, IsManager
  <2>3. r \in Seq(Entries)
    BY <1>0, <2>2, WithoutQueue
  <2>4. Len(r) = Len(q) - 1 /\ \A i \in 1..Len(r) : r[i] = q[IF i < k THEN i ELSE i + 1]
    BY <1>0, <2>2 DEF Without
  <2> HIDE DEF q, r
  <2> QED BY <1>0, <2>3, <2>4, TakeKeepsOrder
<1>3. ASSUME NEW w \in WorkerId, DoClaimNextPending(w)
      PROVE  KeepsOrder(q, r)
  <2>1. q # << >> /\ r = Tail(q)
    BY <1>3 DEF DoClaimNextPending, HasPending, ClaimNextPendingForWorker, StartOn, Consistent, IsManager
  <2>2. /\ r \in Seq(Entries) /\ 1 \in 1..Len(q) /\ Len(r) = Len(q) - 1
        /\ \A i \in 1..Len(r) : r[i] = q[IF i < 1 THEN i ELSE i + 1]
    BY <1>0, <2>1
  <2> HIDE DEF q, r
  <2> QED BY <1>0, <2>2, TakeKeepsOrder
<1>4. ASSUME NEW id \in TaskId, DoMarkDone(id)
      PROVE  KeepsOrder(q, r)
  BY <1>4, <1>b, MarkDoneHolds DEF DoMarkDone, Holds
<1>5. ASSUME NEW id \in TaskId, DoMarkFailed(id)
      PROVE  KeepsOrder(q, r)
  BY <1>5, <1>f DEF DoMarkFailed
<1>6. ASSUME NEW id \in TaskId, DoRequeueTask(id)
      PROVE  KeepsOrder(q, r)
  <2>1. CASE id \in Running(mgr)
    BY <1>6, <1>f, <2>1 DEF DoRequeueTask, RequeueTask
  <2>2. CASE id \notin Running(mgr)
    <3>1. r = Append(q, Entry(id, mgr.fTaskPayloads[id]))
      BY <1>6, <2>2, RequeueDoneHolds DEF DoRequeueTask, Holds
    <3>2. Entry(id, mgr.fTaskPayloads[id]) \in Entries
      BY <1>6, <2>2 DEF DoRequeueTask, CanRequeue, Consistent, IsManager, Entry, Entries
    <3> QED BY <1>a, <3>1, <3>2
  <2> QED BY <2>1, <2>2
<1>7. ASSUME NEW w \in WorkerId, DoRecoverWorkerTasks(w)
      PROVE  KeepsOrder(q, r)
  <2>1. PICK s \in Ascending(Recoverable(mgr, w)) : mgr' = RecoverWorkerTasks(mgr, w, s)
    BY <1>7 DEF DoRecoverWorkerTasks
  <2>2. PICK x \in Seq(Entries) :
          Holds(RecoverWorkerTasks(mgr, w, s), mgr.fPending \o x, mgr.fPendingIds \cup mgr.fWorkerToTasks[w],
                [t \in TaskId |-> IF t \in mgr.fWorkerToTasks[w] THEN NoPayload ELSE mgr.fRunning[t]],
                mgr.fDone)
    BY RecoverHolds
  <2>3. /\ r \in Seq(Entries) /\ Len(q) <= Len(r)
        /\ \A i \in 1..Len(q) : r[i] = q[i]
    <3>1. r = q \o x
      BY <2>1, <2>2 DEF Holds
    <3> QED BY <1>0, <3>1
  <2> HIDE DEF q, r
  <2> QED BY <1>0, <2>3, GrowKeepsOrder
<1>8. ASSUME NEW w \in WorkerId, NEW id \in TaskId, DoRemoveTaskFromWorker(w, id)
      PROVE  KeepsOrder(q, r)
  BY <1>8, <1>b DEF DoRemoveTaskFromWorker, RemoveTaskFromWorker, Consistent, IsManager
<1>9. CASE Clear
  BY <1>9 DEF Clear, Empty, KeepsOrder, QueuedIds
<1> QED BY <1>1, <1>2, <1>3, <1>4, <1>5, <1>6, <1>7, <1>8, <1>9 DEF Next

\* No sequence of calls lets a task overtake one that stays queued before it:
\* failed, requeued and recovered tasks all go to the back of fPending.
THEOREM FirstInFirstOutAlways == Spec => FirstInFirstOut
<1>1. Consistent(mgr) /\ [Next]_mgr =>
        [ \A a, b \in TaskId :
            /\ a \in QueuedIds(mgr.fPending) \cap QueuedIds(mgr'.fPending)
            /\ b \in QueuedIds(mgr'.fPending)
            /\ Ahead(mgr.fPending, a, b) \/ b \notin QueuedIds(mgr.fPending)
            => Ahead(mgr'.fPending, a, b) ]_mgr
  BY CallKeepsOrder DEF KeepsOrder
<1> QED BY <1>1, ConsistentAlways, PTL DEF Spec, FirstInFirstOut

\* The status the refinement mapping gives a task, as a function of the record.
Bucket(m, t) ==
  CASE t \in m.fPendingIds -> "pending"
    [] t \in Running(m)    -> "running"
    [] t \in m.fDone       -> "done"
    [] OTHER               -> "unknown"

\* The buckets of a consistent record exclude each other.
LEMMA BucketFacts ==
  ASSUME NEW m, Consistent(m), NEW t \in TaskId
  PROVE  /\ t \in m.fPendingIds => Bucket(m, t) = "pending"
         /\ t \in Running(m) => Bucket(m, t) = "running"
         /\ t \in m.fDone => Bucket(m, t) = "done"
         /\ ~TaskExists(m, t) => Bucket(m, t) = "unknown"
         /\ \/ t \in m.fPendingIds \/ t \in Running(m) \/ t \in m.fDone
            \/ ~TaskExists(m, t)
<1>1. /\ ~(t \in m.fPendingIds /\ t \in Running(m))
      /\ ~(t \in m.fPendingIds /\ t \in m.fDone)
      /\ ~(t \in Running(m) /\ t \in m.fDone)
      /\ m.fTaskPayloads[t] # NoPayload <=> t \in m.fPendingIds \/ t \in Running(m) \/ t \in m.fDone
  BY DEF Consistent, IsPartitioned
<1> QED BY <1>1 DEF Bucket, TaskExists, IsDone

\* A task whose membership in the index, fRunning and fDone did not change
\* keeps its bucket.
LEMMA SameBucket ==
  ASSUME NEW m, NEW n, NEW t \in TaskId,
         t \in n.fPendingIds <=> t \in m.fPendingIds,
         n.fRunning[t] = m.fRunning[t],
         t \in n.fDone <=> t \in m.fDone
  PROVE  Bucket(n, t) = Bucket(m, t)
BY DEF Bucket, Running

\* The call took exactly the tasks of S into the bucket to.
Moved(m, n, S, to) == \A t \in TaskId : Bucket(n, t) = IF t \in S THEN to ELSE Bucket(m, t)

\* Each call moves one task, the tasks of one worker, or nothing.
LEMMA CallMoves ==
  ASSUME Consistent(mgr), Consistent(mgr'), Next
  PROVE  \/ \E t \in TaskId : Bucket(mgr, t) = "unknown" /\ Moved(mgr, mgr', {t}, "pending")
         \/ \E t \in TaskId : Bucket(mgr, t) = "pending" /\ Moved(mgr, mgr', {t}, "running")
         \/ \E t \in TaskId : Bucket(mgr, t) = "running" /\ Moved(mgr, mgr', {t}, "done")
         \/ \E S \in SUBSET TaskId : /\ \A t \in S : Bucket(mgr, t) \in {"running", "done"}
                                     /\ Moved(mgr, mgr', S, "pending")
         \/ Moved(mgr, mgr', {}, "pending")
         \/ \A t \in TaskId : Bucket(mgr', t) = "unknown"
<1> DEFINE Goal ==
             \/ \E t \in TaskId : Bucket(mgr, t) = "unknown" /\ Moved(mgr, mgr', {t}, "pending")
             \/ \E t \in TaskId : Bucket(mgr, t) = "pending" /\ Moved(mgr, mgr', {t}, "running")
             \/ \E t \in TaskId : Bucket(mgr, t) = "running" /\ Moved(mgr, mgr', {t}, "done")
             \/ \E S \in SUBSET TaskId : /\ \A t \in S : Bucket(mgr, t) \in {"running", "done"}
                                         /\ Moved(mgr, mgr', S, "pending")
             \/ Moved(mgr, mgr', {}, "pending")
             \/ \A t \in TaskId : Bucket(mgr', t) = "unknown"
<1>0. IsManager(mgr) /\ IsManager(mgr')
  BY DEF Consistent
<1>a. ASSUME NEW w \in WorkerId, NEW id \in mgr.fPendingIds, NEW payload, NEW q,
             mgr' = [StartOn(mgr, w, id, payload) EXCEPT !.fPending = q],
             payload # NoPayload
      PROVE  Goal
  <2>1. id \in TaskId
    BY <1>0 DEF IsManager
  <2>2. Holds(mgr', q, mgr.fPendingIds \ {id}, [mgr.fRunning EXCEPT ![id] = payload], mgr.fDone)
    BY <1>a, <2>1, StartHolds
  <2>3. id \in Running(mgr')
    BY <1>0, <1>a, <2>1, <2>2 DEF Holds, Running, IsManager
  <2>4. Bucket(mgr, id) = "pending" /\ Bucket(mgr', id) = "running"
    BY <2>1, <2>3, BucketFacts
  <2>5. \A t \in TaskId \ {id} : Bucket(mgr', t) = Bucket(mgr, t)
    BY <1>0, <2>2, SameBucket DEF Holds, IsManager
  <2> QED BY <2>1, <2>4, <2>5 DEF Moved
<1>f. ASSUME NEW id \in Running(mgr), mgr' = MarkFailed(mgr, id)
      PROVE  Goal
  <2>1. id \in TaskId
    BY DEF Running
  <2>2. /\ mgr'.fPendingIds = mgr.fPendingIds \cup {id}
        /\ mgr'.fRunning = [mgr.fRunning EXCEPT ![id] = NoPayload]
        /\ mgr'.fDone = mgr.fDone
    BY <1>f, MarkFailedHolds DEF Holds
  <2>3. Bucket(mgr, id) = "running" /\ Bucket(mgr', id) = "pending"
    BY <2>1, <2>2, BucketFacts
  <2>4. \A t \in TaskId \ {id} : Bucket(mgr', t) = Bucket(mgr, t)
    BY <1>0, <2>2, SameBucket DEF IsManager
  <2>5. {id} \in SUBSET TaskId /\ Moved(mgr, mgr', {id}, "pending")
    BY <2>1, <2>3, <2>4 DEF Moved
  <2> QED BY <2>3, <2>5
<1> HIDE DEF Goal
<1>1. ASSUME NEW id \in TaskId, NEW payload \in TaskPayload, DoAddPending(id, payload)
      PROVE  Goal
  <2>1. ~TaskExists(mgr, id)
    BY <1>1 DEF DoAddPending
  <2>2. /\ mgr'.fPendingIds = mgr.fPendingIds \cup {id}
        /\ mgr'.fRunning = mgr.fRunning /\ mgr'.fDone = mgr.fDone
    BY <1>1, AddPendingHolds DEF DoAddPending, Holds
  <2>3. Bucket(mgr, id) = "unknown" /\ Bucket(mgr', id) = "pending"
    BY <2>1, <2>2, BucketFacts
  <2>4. \A t \in TaskId \ {id} : Bucket(mgr', t) = Bucket(mgr, t)
    BY <2>2, SameBucket
  <2> QED BY <2>3, <2>4 DEF Moved, Goal
<1>2. ASSUME NEW w \in WorkerId, NEW id \in TaskId, DoAssignToWorker(w, id)
      PROVE  Goal
  <2>1. PICK k \in 1..Len(mgr.fPending) : mgr' = AssignToWorker(mgr, w, k)
    BY <1>2 DEF DoAssignToWorker
  <2> DEFINE e == mgr.fPending[k]
  <2>2. e \in Entries /\ e.id \in mgr.fPendingIds
    BY <1>0, AssignConsistent DEF IsManager
  <2>3. e.payload # NoPayload
    BY <2>2, ManagerConstants DEF Entries
  <2>4. mgr' = [StartOn(mgr, w, e.id, e.payload) EXCEPT !.fPending = Without(mgr.fPending, k)]
    BY <1>0, <2>1 DEF AssignToWorker, StartOn, IsManager
  <2> HIDE DEF e
  <2> QED BY <1>a, <2>2, <2>3, <2>4
<1>3. ASSUME NEW w \in WorkerId, DoClaimNextPending(w)
      PROVE  Goal
  <2> DEFINE e == Head(mgr.fPending)
  <2>1. HasPending(mgr) /\ mgr' = ClaimNextPendingForWorker(mgr, w)
    BY <1>3 DEF DoClaimNextPending
  <2>2. e \in Entries /\ e.id \in mgr.fPendingIds
    BY <1>0, <2>1, ClaimConsistent DEF IsManager, HasPending
  <2>3. e.payload # NoPayload
    BY <2>2, ManagerConstants DEF Entries
  <2>4. mgr' = [StartOn(mgr, w, e.id, e.payload) EXCEPT !.fPending = Tail(mgr.fPending)]
    BY <1>0, <2>1 DEF ClaimNextPendingForWorker, StartOn, IsManager
  <2> HIDE DEF e
  <2> QED BY <1>a, <2>2, <2>3, <2>4
<1>4. ASSUME NEW id \in TaskId, DoMarkDone(id)
      PROVE  Goal
  <2>1. id \in Running(mgr)
    BY <1>4 DEF DoMarkDone
  <2>2. /\ mgr'.fPendingIds = mgr.fPendingIds
        /\ mgr'.fRunning = [mgr.fRunning EXCEPT ![id] = NoPayload]
        /\ mgr'.fDone = mgr.fDone \cup {id}
    BY <1>4, <2>1, MarkDoneHolds DEF DoMarkDone, Holds
  <2>3. Bucket(mgr, id) = "running" /\ Bucket(mgr', id) = "done"
    BY <2>1, <2>2, BucketFacts
  <2>4. \A t \in TaskId \ {id} : Bucket(mgr', t) = Bucket(mgr, t)
    BY <1>0, <2>2, SameBucket DEF IsManager
  <2> QED BY <2>3, <2>4 DEF Moved, Goal
<1>5. ASSUME NEW id \in TaskId, DoMarkFailed(id)
      PROVE  Goal
  BY <1>5, <1>f DEF DoMarkFailed
<1>6. ASSUME NEW id \in TaskId, DoRequeueTask(id)
      PROVE  Goal
  <2>1. CASE id \in Running(mgr)
    BY <1>6, <1>f, <2>1 DEF DoRequeueTask, RequeueTask
  <2>2. CASE id \notin Running(mgr)
    <3>1. id \in mgr.fDone
      BY <1>6, <2>2 DEF DoRequeueTask, CanRequeue, IsDone
    <3>2. /\ mgr'.fPendingIds = mgr.fPendingIds \cup {id}
          /\ mgr'.fRunning = mgr.fRunning /\ mgr'.fDone = mgr.fDone \ {id}
      BY <1>6, <2>2, RequeueDoneHolds DEF DoRequeueTask, Holds
    <3>3. Bucket(mgr, id) = "done" /\ Bucket(mgr', id) = "pending"
      BY <3>1, <3>2, BucketFacts
    <3>4. \A t \in TaskId \ {id} : Bucket(mgr', t) = Bucket(mgr, t)
      BY <3>2, SameBucket
    <3>5. {id} \in SUBSET TaskId /\ Moved(mgr, mgr', {id}, "pending")
      BY <3>3, <3>4 DEF Moved
    <3> QED BY <3>3, <3>5 DEF Goal
  <2> QED BY <2>1, <2>2
<1>7. ASSUME NEW w \in WorkerId, DoRecoverWorkerTasks(w)
      PROVE  Goal
  <2> DEFINE S == mgr.fWorkerToTasks[w]
             run == [t \in TaskId |-> IF t \in S THEN NoPayload ELSE mgr.fRunning[t]]
  <2>1. PICK s \in Ascending(Recoverable(mgr, w)) : mgr' = RecoverWorkerTasks(mgr, w, s)
    BY <1>7 DEF DoRecoverWorkerTasks
  <2>2. /\ S \subseteq Running(mgr)
        /\ \E q \in Seq(Entries) :
             Holds(RecoverWorkerTasks(mgr, w, s), mgr.fPending \o q, mgr.fPendingIds \cup S, run, mgr.fDone)
    BY RecoverHolds
  <2>3. /\ mgr'.fPendingIds = mgr.fPendingIds \cup S
        /\ mgr'.fRunning = run /\ mgr'.fDone = mgr.fDone
    BY <2>1, <2>2 DEF Holds
  <2>4. S \in SUBSET TaskId
    BY <2>2 DEF Running
  <2>5. \A t \in S : Bucket(mgr, t) = "running" /\ Bucket(mgr', t) = "pending"
    BY <2>2, <2>3, <2>4, BucketFacts
  <2>6. \A t \in TaskId \ S : Bucket(mgr', t) = Bucket(mgr, t)
    BY <2>3, SameBucket
  <2>7. Moved(mgr, mgr', S, "pending")
    BY <2>5, <2>6 DEF Moved
  <2> QED BY <2>4, <2>5, <2>7 DEF Goal
<1>8. ASSUME NEW w \in WorkerId, NEW id \in TaskId, DoRemoveTaskFromWorker(w, id)
      PROVE  Goal
  <2>1. /\ mgr'.fPendingIds = mgr.fPendingIds
        /\ mgr'.fRunning = mgr.fRunning /\ mgr'.fDone = mgr.fDone
    BY <1>0, <1>8 DEF DoRemoveTaskFromWorker, RemoveTaskFromWorker, IsManager
  <2>2. \A t \in TaskId : Bucket(mgr', t) = Bucket(mgr, t)
    BY <2>1, SameBucket
  <2> QED BY <2>2 DEF Moved, Goal
<1>9. CASE Clear
  <2>1. \A t \in TaskId : Bucket(mgr', t) = "unknown"
    BY <1>9 DEF Clear, Empty, Bucket, Running
  <2> QED BY <2>1
<1> QED BY <1>1, <1>2, <1>3, <1>4, <1>5, <1>6, <1>7, <1>8, <1>9 DEF Next, Goal

\* The bookkeeping of the supervisor is a task ledger: every call is one step
\* of the abstract specification, and dropping an assignment is none.
THEOREM LedgerImplemented == Spec => ImplementsLedger
<1> DEFINE st == [t \in TaskId |-> StatusOf(t)]
<1>0. /\ \A t \in TaskId : StatusOf(t) = Bucket(mgr, t)
      /\ \A t \in TaskId : StatusOf(t)' = Bucket(mgr', t)
  BY DEF StatusOf, Bucket, Running
<1>1. Init => Ledger!Init
  <2> SUFFICES ASSUME Init PROVE \A t \in TaskId : StatusOf(t) = "unknown"
    BY DEF Ledger!Init
  <2> QED BY DEF Init, Empty, StatusOf, Running
<1>2. Consistent(mgr) /\ Consistent(mgr)' /\ [Next]_mgr => [Ledger!Next]_st
  <2> SUFFICES ASSUME Consistent(mgr), Consistent(mgr'), [Next]_mgr PROVE [Ledger!Next]_st
    OBVIOUS
  <2>0. /\ st = [t \in TaskId |-> Bucket(mgr, t)]
        /\ st' = [t \in TaskId |-> Bucket(mgr', t)]
    BY <1>0
  <2>u. CASE UNCHANGED mgr
    BY <2>0, <2>u
  <2>1. ASSUME NEW x \in TaskId, Bucket(mgr, x) = "unknown", Moved(mgr, mgr', {x}, "pending")
        PROVE  Ledger!Submit(x)
    BY <2>0, <2>1 DEF Ledger!Submit, Moved
  <2>2. ASSUME NEW x \in TaskId, Bucket(mgr, x) = "pending", Moved(mgr, mgr', {x}, "running")
        PROVE  Ledger!Start(x)
    BY <2>0, <2>2 DEF Ledger!Start, Moved
  <2>3. ASSUME NEW x \in TaskId, Bucket(mgr, x) = "running", Moved(mgr, mgr', {x}, "done")
        PROVE  Ledger!Complete(x)
    BY <2>0, <2>3 DEF Ledger!Complete, Moved
  <2>4. ASSUME NEW S \in SUBSET TaskId, \A x \in S : Bucket(mgr, x) \in {"running", "done"},
               Moved(mgr, mgr', S, "pending")
        PROVE  Ledger!PutBack(S)
    BY <2>0, <2>4 DEF Ledger!PutBack, Moved
  <2>5. ASSUME Moved(mgr, mgr', {}, "pending") PROVE UNCHANGED st
    BY <2>0, <2>5 DEF Moved
  <2>6. ASSUME \A x \in TaskId : Bucket(mgr', x) = "unknown" PROVE Ledger!Reset
    BY <2>0, <2>6 DEF Ledger!Reset
  <2> HIDE DEF st
  <2>7. CASE Next
    BY <2>1, <2>2, <2>3, <2>4, <2>5, <2>6, <2>7, CallMoves DEF Ledger!Next
  <2> QED BY <2>7, <2>u
<1> QED BY <1>1, <1>2, ConsistentAlways, PTL DEF Spec, ImplementsLedger, Ledger!Spec

-----------------------------------------------------------------------------
(* The supervisor's loops *)

\* A manager is its seven members.
LEMMA SameManager ==
  ASSUME NEW m, IsManager(m), NEW n, IsManager(n),
         m.fPending = n.fPending, m.fPendingIds = n.fPendingIds, m.fRunning = n.fRunning,
         m.fDone = n.fDone, m.fWorkerToTasks = n.fWorkerToTasks,
         m.fTaskToWorker = n.fTaskToWorker, m.fTaskPayloads = n.fTaskPayloads
  PROVE  m = n
BY DEF IsManager

LEMMA MemberTypes ==
  ASSUME NEW m, IsManager(m)
  PROVE  /\ m.fPending \in Seq(Entries) /\ m.fPendingIds \in SUBSET TaskId
         /\ m.fRunning \in [TaskId -> TaskPayload \cup {NoPayload}]
         /\ m.fDone \in SUBSET TaskId
         /\ m.fWorkerToTasks \in [WorkerId -> SUBSET TaskId]
         /\ m.fTaskToWorker \in [TaskId -> WorkerId \cup {NoWorker}]
         /\ m.fTaskPayloads \in [TaskId -> TaskPayload \cup {NoPayload}]
BY DEF IsManager

\* The tasks of the first i calls.
Calls(q, i) == {q[j] : j \in 1..i}

LEMMA OneMoreCall ==
  ASSUME NEW S, NEW L \in Nat, NEW q \in [1..L -> S], \A i, j \in 1..L : q[i] = q[j] => i = j,
         NEW i \in 0..L, i < L
  PROVE  /\ q[i + 1] \in S /\ q[i + 1] \notin Calls(q, i)
         /\ Calls(q, i + 1) = Calls(q, i) \cup {q[i + 1]}
         /\ Calls(q, i) \subseteq S /\ Calls(q, 0) = {} /\ Calls(q, L) = Range(q)
<1>1. i + 1 \in 1..L /\ \A j \in 1..i : j \in 1..L /\ j # i + 1
  OBVIOUS
<1>2. \A j \in 1..(i + 1) : j \in 1..i \/ j = i + 1
  OBVIOUS
<1>3. \A j \in 1..i : j \in 1..(i + 1)
  OBVIOUS
<1>4. i + 1 \in 1..(i + 1)
  OBVIOUS
<1> QED BY <1>1, <1>2, <1>3, <1>4 DEF Calls, Range

\* What Release does to each member.
LEMMA ReleaseFields ==
  ASSUME NEW m, IsManager(m), NEW S, NEW n, n = Release(m, S)
  PROVE  /\ IsManager(n)
         /\ n.fPending = m.fPending /\ n.fPendingIds = m.fPendingIds
         /\ n.fDone = m.fDone /\ n.fTaskPayloads = m.fTaskPayloads
         /\ \A t \in TaskId : n.fRunning[t] = IF t \in S THEN NoPayload ELSE m.fRunning[t]
         /\ \A t \in TaskId : n.fTaskToWorker[t] = IF t \in S THEN NoWorker ELSE m.fTaskToWorker[t]
         /\ \A w \in WorkerId : n.fWorkerToTasks[w] = m.fWorkerToTasks[w] \ S
<1> DEFINE r == [t \in TaskId |-> IF t \in S THEN NoPayload ELSE m.fRunning[t]]
           a == [t \in TaskId |-> IF t \in S THEN NoWorker ELSE m.fTaskToWorker[t]]
           b == [w \in WorkerId |-> m.fWorkerToTasks[w] \ S]
<1>1. n = [m EXCEPT !.fRunning = r, !.fTaskToWorker = a, !.fWorkerToTasks = b]
  BY DEF Release, IsManager
<1>2. r \in [TaskId -> TaskPayload \cup {NoPayload}]
  BY DEF IsManager
<1>3. a \in [TaskId -> WorkerId \cup {NoWorker}]
  BY DEF IsManager
<1>4. b \in [WorkerId -> SUBSET TaskId]
  BY DEF IsManager
<1> HIDE DEF r, a, b
<1>5. /\ IsManager(n)
      /\ n.fPending = m.fPending /\ n.fPendingIds = m.fPendingIds
      /\ n.fDone = m.fDone /\ n.fTaskPayloads = m.fTaskPayloads
      /\ n.fRunning = r /\ n.fTaskToWorker = a /\ n.fWorkerToTasks = b
  BY <1>1, <1>2, <1>3, <1>4 DEF IsManager
<1> QED BY <1>5 DEF r, a, b

LEMMA ReleaseNone ==
  ASSUME NEW m, IsManager(m), NEW S, S = {}, NEW k, k = Release(m, S)
  PROVE  k.fRunning = m.fRunning /\ k.fTaskToWorker = m.fTaskToWorker /\ k.fWorkerToTasks = m.fWorkerToTasks
BY DEF Release, IsManager

\* Releasing one more task is taking it off its worker.
LEMMA ReleaseOneMore ==
  ASSUME NEW m, Consistent(m), NEW S, NEW x \in TaskId, x \notin S,
         NEW k, k = Release(m, S), NEW n, IsManager(n),
         n.fRunning = [k.fRunning EXCEPT ![x] = NoPayload],
         n.fTaskToWorker = k.fTaskToWorker, n.fWorkerToTasks = k.fWorkerToTasks,
         NEW u, u = Unassign(n, x), NEW T, T = S \cup {x}, NEW r, r = Release(m, T)
  PROVE  /\ IsManager(u)
         /\ u.fPending = n.fPending /\ u.fPendingIds = n.fPendingIds
         /\ u.fDone = n.fDone /\ u.fTaskPayloads = n.fTaskPayloads
         /\ u.fRunning = r.fRunning
         /\ u.fTaskToWorker = r.fTaskToWorker
         /\ u.fWorkerToTasks = r.fWorkerToTasks
<1>1. IsManager(m) /\ IsAssigned(m)
  BY DEF Consistent
<1>2. /\ IsManager(k)
      /\ \A t \in TaskId : k.fRunning[t] = IF t \in S THEN NoPayload ELSE m.fRunning[t]
      /\ \A t \in TaskId : k.fTaskToWorker[t] = IF t \in S THEN NoWorker ELSE m.fTaskToWorker[t]
      /\ \A w \in WorkerId : k.fWorkerToTasks[w] = m.fWorkerToTasks[w] \ S
  BY <1>1, ReleaseFields
<1>3. /\ IsManager(r)
      /\ \A t \in TaskId : r.fRunning[t] = IF t \in T THEN NoPayload ELSE m.fRunning[t]
      /\ \A t \in TaskId : r.fTaskToWorker[t] = IF t \in T THEN NoWorker ELSE m.fTaskToWorker[t]
      /\ \A w \in WorkerId : r.fWorkerToTasks[w] = m.fWorkerToTasks[w] \ T
  BY <1>1, ReleaseFields
<1>4. /\ n.fTaskToWorker = k.fTaskToWorker /\ n.fWorkerToTasks = k.fWorkerToTasks
      /\ n.fRunning = [k.fRunning EXCEPT ![x] = NoPayload]
      /\ \A t \in TaskId : n.fRunning[t] = IF t = x THEN NoPayload ELSE k.fRunning[t]
  <2>1. k.fRunning \in [TaskId -> TaskPayload \cup {NoPayload}]
    BY <1>2, MemberTypes
  <2> QED BY <2>1
<1>5. OnlyUnassigns(u, n, x)
  BY UnassignFields
<1>6. IsManager(u) /\ n.fTaskToWorker[x] = m.fTaskToWorker[x]
  BY <1>2, <1>4, <1>5 DEF OnlyUnassigns
<1>a. u.fRunning \in [TaskId -> TaskPayload \cup {NoPayload}]
      /\ r.fRunning \in [TaskId -> TaskPayload \cup {NoPayload}]
  BY ONLY <1>3, <1>6, MemberTypes
<1>b. u.fTaskToWorker \in [TaskId -> WorkerId \cup {NoWorker}]
      /\ r.fTaskToWorker \in [TaskId -> WorkerId \cup {NoWorker}]
  BY ONLY <1>3, <1>6, MemberTypes
<1>c. u.fWorkerToTasks \in [WorkerId -> SUBSET TaskId]
      /\ r.fWorkerToTasks \in [WorkerId -> SUBSET TaskId]
  BY ONLY <1>3, <1>6, MemberTypes
<1>7. u.fRunning = r.fRunning
  <2>1. ASSUME NEW t \in TaskId PROVE u.fRunning[t] = r.fRunning[t]
    <3>1. u.fRunning = n.fRunning
      BY <1>5 DEF OnlyUnassigns
    <3>2. n.fRunning[t] = IF t = x THEN NoPayload ELSE k.fRunning[t]
      BY <1>4
    <3>3. k.fRunning[t] = IF t \in S THEN NoPayload ELSE m.fRunning[t]
      BY <1>2
    <3>4. r.fRunning[t] = IF t \in T THEN NoPayload ELSE m.fRunning[t]
      BY <1>3
    <3>5. t \in T <=> t \in S \/ t = x
      OBVIOUS
    <3> QED BY <3>1, <3>2, <3>3, <3>4, <3>5
  <2> QED BY ONLY <1>a, <2>1, SameFunction
<1>8. u.fTaskToWorker = r.fTaskToWorker
  <2>1. ASSUME NEW t \in TaskId PROVE u.fTaskToWorker[t] = r.fTaskToWorker[t]
    <3>1. u.fTaskToWorker[t] = IF t = x THEN NoWorker ELSE n.fTaskToWorker[t]
      BY <1>5 DEF OnlyUnassigns
    <3>2. n.fTaskToWorker[t] = IF t \in S THEN NoWorker ELSE m.fTaskToWorker[t]
      BY <1>2, <1>4
    <3>3. r.fTaskToWorker[t] = IF t \in T THEN NoWorker ELSE m.fTaskToWorker[t]
      BY <1>3
    <3>4. t \in T <=> t \in S \/ t = x
      OBVIOUS
    <3> QED BY <3>1, <3>2, <3>3, <3>4
  <2> QED BY ONLY <1>b, <2>1, SameFunction
<1>9. u.fWorkerToTasks = r.fWorkerToTasks
  <2>1. ASSUME NEW w \in WorkerId PROVE u.fWorkerToTasks[w] = r.fWorkerToTasks[w]
    <3>1. n.fWorkerToTasks[w] = m.fWorkerToTasks[w] \ S
      BY <1>2, <1>4
    <3>2. r.fWorkerToTasks[w] = m.fWorkerToTasks[w] \ T
      BY <1>3
    <3>3. m.fWorkerToTasks[w] \ T = (m.fWorkerToTasks[w] \ S) \ {x}
      OBVIOUS
    <3>4. CASE m.fTaskToWorker[x] = w
      <4>1. u.fWorkerToTasks[w] = n.fWorkerToTasks[w] \ {x}
        BY <1>5, <1>6, <3>4 DEF OnlyUnassigns
      <4> QED BY <3>1, <3>2, <3>3, <4>1
    <3>5. CASE m.fTaskToWorker[x] # w
      <4>1. u.fWorkerToTasks[w] = n.fWorkerToTasks[w]
        BY <1>5, <1>6, <3>5 DEF OnlyUnassigns
      <4>2. x \notin m.fWorkerToTasks[w]
        BY <1>1, <3>5 DEF IsAssigned
      <4> QED BY <3>1, <3>2, <3>3, <4>1, <4>2
    <3> QED BY <3>4, <3>5
  <2> QED BY ONLY <1>c, <2>1, SameFunction
<1> QED BY <1>5, <1>6, <1>7, <1>8, <1>9 DEF OnlyUnassigns

LEMMA MarkAllDoneFields ==
  ASSUME NEW m, IsManager(m), NEW S \in SUBSET TaskId, NEW k, k = Release(m, S),
         NEW n, n = MarkAllDone(m, S)
  PROVE  /\ IsManager(n)
         /\ n.fPending = m.fPending /\ n.fPendingIds = m.fPendingIds
         /\ n.fDone = m.fDone \cup S /\ n.fTaskPayloads = m.fTaskPayloads
         /\ n.fRunning = k.fRunning /\ n.fTaskToWorker = k.fTaskToWorker
         /\ n.fWorkerToTasks = k.fWorkerToTasks
<1>1. /\ IsManager(k)
      /\ k.fPending = m.fPending /\ k.fPendingIds = m.fPendingIds
      /\ k.fDone = m.fDone /\ k.fTaskPayloads = m.fTaskPayloads
  BY ReleaseFields
<1> DEFINE D == k.fDone \cup S
<1>2. n = [k EXCEPT !.fDone = D] /\ D \in SUBSET TaskId /\ D = k.fDone \cup S
  BY <1>1, MemberTypes DEF MarkAllDone
<1> HIDE DEF D
<1>3. IsManager(n)
  BY <1>1, <1>2 DEF IsManager
<1>4. /\ n.fPending = k.fPending /\ n.fPendingIds = k.fPendingIds
      /\ n.fDone = D /\ n.fTaskPayloads = k.fTaskPayloads
      /\ n.fRunning = k.fRunning /\ n.fTaskToWorker = k.fTaskToWorker
      /\ n.fWorkerToTasks = k.fWorkerToTasks
  BY <1>1, <1>2 DEF IsManager
<1> QED BY <1>1, <1>2, <1>3, <1>4

\* One more call of MarkDone.
LEMMA MarkAllDoneStep ==
  ASSUME NEW m, Consistent(m), NEW S \in SUBSET TaskId, NEW x \in TaskId, x \notin S,
         NEW T, T = S \cup {x}
  PROVE  MarkDone(MarkAllDone(m, S), x) = MarkAllDone(m, T)
<1> DEFINE k == Release(m, S)
           n == MarkAllDone(m, S)
           d == [n EXCEPT !.fDone = @ \cup {x}, !.fRunning[x] = NoPayload]
           u == Unassign(d, x)
           r == Release(m, T)
           g == MarkAllDone(m, T)
<1>0. IsManager(m) /\ T \in SUBSET TaskId
  BY DEF Consistent
<1>1. /\ IsManager(n)
      /\ n.fPending = m.fPending /\ n.fPendingIds = m.fPendingIds
      /\ n.fDone = m.fDone \cup S /\ n.fTaskPayloads = m.fTaskPayloads
      /\ n.fRunning = k.fRunning /\ n.fTaskToWorker = k.fTaskToWorker
      /\ n.fWorkerToTasks = k.fWorkerToTasks
  BY <1>0, MarkAllDoneFields
<1>2. /\ IsManager(g)
      /\ g.fPending = m.fPending /\ g.fPendingIds = m.fPendingIds
      /\ g.fDone = m.fDone \cup T /\ g.fTaskPayloads = m.fTaskPayloads
      /\ g.fRunning = r.fRunning /\ g.fTaskToWorker = r.fTaskToWorker
      /\ g.fWorkerToTasks = r.fWorkerToTasks
  BY <1>0, MarkAllDoneFields
<1>3. MarkDone(n, x) = u
  BY DEF MarkDone
<1> HIDE DEF n, g
<1>4. /\ IsManager(d)
      /\ d.fPending = n.fPending /\ d.fPendingIds = n.fPendingIds
      /\ d.fDone = n.fDone \cup {x} /\ d.fTaskPayloads = n.fTaskPayloads
      /\ d.fRunning = [n.fRunning EXCEPT ![x] = NoPayload]
      /\ d.fTaskToWorker = n.fTaskToWorker /\ d.fWorkerToTasks = n.fWorkerToTasks
  BY <1>1 DEF IsManager
<1> HIDE DEF d
<1>5. /\ d.fRunning = [k.fRunning EXCEPT ![x] = NoPayload]
      /\ d.fTaskToWorker = k.fTaskToWorker /\ d.fWorkerToTasks = k.fWorkerToTasks
  BY <1>1, <1>4
<1>6. /\ IsManager(u)
      /\ u.fPending = d.fPending /\ u.fPendingIds = d.fPendingIds
      /\ u.fDone = d.fDone /\ u.fTaskPayloads = d.fTaskPayloads
      /\ u.fRunning = r.fRunning
      /\ u.fTaskToWorker = r.fTaskToWorker
      /\ u.fWorkerToTasks = r.fWorkerToTasks
  BY <1>4, <1>5, ReleaseOneMore
<1> HIDE DEF u, k, r
<1>7. u.fDone = g.fDone
  BY <1>1, <1>2, <1>4, <1>6
<1>8. /\ IsManager(u) /\ IsManager(g)
      /\ u.fPending = g.fPending /\ u.fPendingIds = g.fPendingIds /\ u.fRunning = g.fRunning
      /\ u.fWorkerToTasks = g.fWorkerToTasks /\ u.fTaskToWorker = g.fTaskToWorker
      /\ u.fTaskPayloads = g.fTaskPayloads
  BY ONLY <1>1, <1>2, <1>4, <1>6
<1>9. u = g
  BY ONLY <1>7, <1>8, SameManager
<1> QED BY <1>3, <1>9 DEF n, g

LEMMA MarkNoneDone ==
  ASSUME NEW m, IsManager(m), NEW S, S = {}
  PROVE  MarkAllDone(m, S) = m
<1> DEFINE k == Release(m, S)
           n == MarkAllDone(m, S)
<1>0. S \in SUBSET TaskId
  OBVIOUS
<1>1. /\ IsManager(n)
      /\ n.fPending = m.fPending /\ n.fPendingIds = m.fPendingIds
      /\ n.fDone = m.fDone \cup S /\ n.fTaskPayloads = m.fTaskPayloads
      /\ n.fRunning = k.fRunning /\ n.fTaskToWorker = k.fTaskToWorker
      /\ n.fWorkerToTasks = k.fWorkerToTasks
  BY ONLY <1>0, IsManager(m), MarkAllDoneFields
<1>2. k.fRunning = m.fRunning /\ k.fTaskToWorker = m.fTaskToWorker /\ k.fWorkerToTasks = m.fWorkerToTasks
  BY ReleaseNone
<1> HIDE DEF k, n
<1>3. n.fDone = m.fDone
  BY <1>1
<1>4. n = m
  BY <1>1, <1>2, <1>3, SameManager
<1> QED BY <1>4 DEF n

\* The loop of MarkDone calls: the closed form satisfies its equation, and
\* two functions that do are the same.
LEMMA DoneLoopMatches ==
  ASSUME NEW m, Consistent(m), NEW L \in Nat, NEW q \in [1..L -> TaskId],
         \A i, j \in 1..L : q[i] = q[j] => i = j
  PROVE  DoneLoop(m, q) = MarkAllDone(m, Range(q))
<1> DEFINE Is(f) == f = [i \in 0..L |-> IF i = 0 THEN m ELSE MarkDone(f[i - 1], q[i])]
           f == CHOOSE f : Is(f)
           g == [i \in 0..L |-> MarkAllDone(m, Calls(q, i))]
<1>0. IsManager(m) /\ Calls(q, 0) = {} /\ Calls(q, L) = Range(q) /\ Len(q) = L
  BY DEF Consistent, Calls, Range
<1>1. ASSUME NEW i \in 0..L, i < L
      PROVE  MarkAllDone(m, Calls(q, i + 1)) = MarkDone(MarkAllDone(m, Calls(q, i)), q[i + 1])
  <2>1. /\ q[i + 1] \in TaskId /\ q[i + 1] \notin Calls(q, i)
        /\ Calls(q, i + 1) = Calls(q, i) \cup {q[i + 1]} /\ Calls(q, i) \in SUBSET TaskId
    BY <1>1, OneMoreCall
  <2> QED BY <2>1, MarkAllDoneStep
<1>2. \A i \in 0..L : g[i] = IF i = 0 THEN m ELSE MarkDone(g[i - 1], q[i])
  <2> SUFFICES ASSUME NEW i \in 0..L PROVE g[i] = IF i = 0 THEN m ELSE MarkDone(g[i - 1], q[i])
    OBVIOUS
  <2>1. CASE i = 0
    BY <1>0, <2>1, MarkNoneDone
  <2>2. CASE i # 0
    <3>1. i - 1 \in 0..L /\ i - 1 < L /\ (i - 1) + 1 = i
      BY <2>2
    <3>2. MarkAllDone(m, Calls(q, i)) = MarkDone(MarkAllDone(m, Calls(q, i - 1)), q[i])
      BY <1>1, <3>1
    <3> QED BY <2>2, <3>1, <3>2
  <2> QED BY <2>1, <2>2
<1>3. Is(g)
  <2>1. g = [i \in 0..L |-> g[i]]
    OBVIOUS
  <2> HIDE DEF g
  <2>2. g = [i \in 0..L |-> IF i = 0 THEN m ELSE MarkDone(g[i - 1], q[i])]
    BY <1>2, <2>1
  <2> QED BY <2>2
<1>4. DoneLoop(m, q) = f[L]
  BY <1>0 DEF DoneLoop
<1>5. Is(f)
  <2> HIDE DEF Is, g
  <2> QED BY <1>3
<1>6. \A i \in 0..L : f[i] = IF i = 0 THEN m ELSE MarkDone(f[i - 1], q[i])
  <2> HIDE DEF f
  <2> QED BY <1>5
<1>7. g[L] = MarkAllDone(m, Range(q))
  BY <1>0
<1> HIDE DEF f, g
<1>8. f[0] = g[0]
  BY <1>2, <1>6
<1>9. \A i \in 0..L : i < L /\ f[i] = g[i] => f[i + 1] = g[i + 1]
  <2> SUFFICES ASSUME NEW i \in 0..L, i < L, f[i] = g[i] PROVE f[i + 1] = g[i + 1]
    OBVIOUS
  <2>1. i + 1 \in 0..L /\ i + 1 # 0 /\ (i + 1) - 1 = i
    OBVIOUS
  <2> QED BY <1>2, <1>6, <2>1
<1>10. f[L] = g[L]
  <2>1. L \in Nat
    OBVIOUS
  <2>2. \A i \in 0..L : f[i] = g[i]
    BY ONLY <1>8, <1>9, <2>1, SameUpTo
  <2> QED BY <2>2
<1> QED BY <1>4, <1>7, <1>10

\* The entries that go back to the queue.
PayloadOf(m, t) == IF t \in Running(m) THEN m.fRunning[t] ELSE m.fTaskPayloads[t]
Back(m, p) == [i \in 1..Len(p) |-> Entry(p[i], PayloadOf(m, p[i]))]
AllCanRequeue(m, p) == \A i \in 1..Len(p) : CanRequeue(m, p[i])

LEMMA PayloadOfType ==
  ASSUME NEW m, IsManager(m), NEW x \in TaskId, CanRequeue(m, x)
  PROVE  PayloadOf(m, x) \in TaskPayload
<1>1. m.fRunning[x] \in TaskPayload \cup {NoPayload} /\ m.fTaskPayloads[x] \in TaskPayload \cup {NoPayload}
  BY MemberTypes
<1> QED BY <1>1 DEF PayloadOf, CanRequeue, Running

LEMMA BackFacts ==
  ASSUME NEW m, IsManager(m), NEW p \in Seq(TaskId), AllCanRequeue(m, p)
  PROVE  /\ Back(m, p) \in Seq(Entries)
         /\ m.fPending \o Back(m, p) \in Seq(Entries)
         /\ Range(p) \in SUBSET TaskId
<1>1. ASSUME NEW i \in 1..Len(p) PROVE Entry(p[i], PayloadOf(m, p[i])) \in Entries /\ p[i] \in TaskId
  <2>1. p[i] \in TaskId /\ CanRequeue(m, p[i])
    BY DEF AllCanRequeue
  <2>2. PayloadOf(m, p[i]) \in TaskPayload
    BY <2>1, PayloadOfType
  <2> QED BY <2>1, <2>2 DEF Entry, Entries
<1>2. Back(m, p) \in Seq(Entries)
  BY <1>1, IsASeq DEF Back
<1>3. m.fPending \in Seq(Entries)
  BY MemberTypes
<1>4. m.fPending \o Back(m, p) \in Seq(Entries)
  BY <1>2, <1>3, ConcatProperties
<1>5. Range(p) \in SUBSET TaskId
  BY <1>1 DEF Range
<1> QED BY <1>2, <1>4, <1>5

\* o is p with x appended, and so are the entries that go back for them.
BackGrows(m, p, o, x, e) ==
  /\ o \in Seq(TaskId) /\ AllCanRequeue(m, o) /\ e \in Entries
  /\ Range(o) = Range(p) \cup {x}
  /\ m.fPending \o Back(m, o) = Append(m.fPending \o Back(m, p), e)

LEMMA BackAppend ==
  ASSUME NEW m, IsManager(m), NEW p \in Seq(TaskId), AllCanRequeue(m, p),
         NEW x \in TaskId, CanRequeue(m, x), NEW o, o = Append(p, x), NEW e, e = Entry(x, PayloadOf(m, x))
  PROVE  BackGrows(m, p, o, x, e)
<1>1. /\ o \in Seq(TaskId) /\ Len(o) = Len(p) + 1 /\ Len(p) \in Nat
      /\ \A i \in 1..Len(p) : o[i] = p[i]
      /\ o[Len(p) + 1] = x
  OBVIOUS
<1>2. \A i \in 1..Len(o) : i \in 1..Len(p) \/ i = Len(p) + 1
  BY <1>1
<1>3. AllCanRequeue(m, o)
  BY <1>1, <1>2 DEF AllCanRequeue
<1>4. Range(o) = Range(p) \cup {x}
  <2>1. DOMAIN o = 1..Len(o) /\ DOMAIN p = 1..Len(p)
    BY <1>1
  <2>2. \A i \in 1..Len(p) : i \in 1..Len(o)
    BY <1>1
  <2>3. Len(p) + 1 \in 1..Len(o)
    BY <1>1
  <2> QED BY <1>1, <1>2, <2>1, <2>2, <2>3 DEF Range
<1>5. e \in Entries
  BY PayloadOfType DEF Entry, Entries
<1> DEFINE b == Back(m, p)
           c == Back(m, o)
           h == m.fPending
<1>6. b \in Seq(Entries) /\ c \in Seq(Entries) /\ h \in Seq(Entries)
  BY <1>1, <1>3, BackFacts, MemberTypes
<1>7. /\ Len(b) = Len(p) /\ Len(c) = Len(p) + 1
      /\ \A i \in 1..Len(p) : c[i] = b[i]
      /\ c[Len(p) + 1] = e
  <2>1. DOMAIN b = 1..Len(p) /\ DOMAIN c = 1..(Len(p) + 1)
    BY <1>1 DEF Back
  <2>2. Len(b) = Len(p) /\ Len(c) = Len(p) + 1
    BY <1>1, <1>6, <2>1, LenProperties
  <2>3. \A i \in 1..Len(p) : i \in 1..Len(o)
    BY <1>1
  <2>4. Len(p) + 1 \in 1..Len(o)
    BY <1>1
  <2> QED BY <1>1, <2>2, <2>3, <2>4 DEF Back
<1> HIDE DEF b, c, h
<1>8. c = Append(b, e)
  <2>1. /\ Append(b, e) \in Seq(Entries) /\ Len(Append(b, e)) = Len(b) + 1
        /\ \A i \in 1..Len(b) : Append(b, e)[i] = b[i]
        /\ Append(b, e)[Len(b) + 1] = e
    BY <1>5, <1>6
  <2>2. \A i \in 1..Len(c) : c[i] = Append(b, e)[i]
    BY <1>1, <1>7, <2>1
  <2> QED BY <1>6, <1>7, <2>1, <2>2, SameSeq
<1>9. h \o Append(b, e) = Append(h \o b, e)
  BY <1>5, <1>6, AppendIsConcat, ConcatAssociative, ConcatProperties
<1> QED BY <1>1, <1>3, <1>4, <1>5, <1>8, <1>9 DEF b, c, h, BackGrows

LEMMA RequeueAllFields ==
  ASSUME NEW m, IsManager(m), NEW p \in Seq(TaskId), AllCanRequeue(m, p),
         NEW k, k = Release(m, Range(p)), NEW n, n = RequeueAll(m, p)
  PROVE  /\ IsManager(n)
         /\ n.fPending = m.fPending \o Back(m, p) /\ n.fPendingIds = m.fPendingIds \cup Range(p)
         /\ n.fDone = m.fDone \ Range(p) /\ n.fTaskPayloads = m.fTaskPayloads
         /\ n.fRunning = k.fRunning /\ n.fTaskToWorker = k.fTaskToWorker
         /\ n.fWorkerToTasks = k.fWorkerToTasks
<1> DEFINE S == Range(p)
           c == m.fPending \o Back(m, p)
<1>1. /\ IsManager(k)
      /\ k.fPending = m.fPending /\ k.fPendingIds = m.fPendingIds
      /\ k.fDone = m.fDone /\ k.fTaskPayloads = m.fTaskPayloads
  BY ReleaseFields
<1>2. n = [k EXCEPT !.fPending = @ \o Back(m, p), !.fPendingIds = @ \cup S, !.fDone = @ \ S]
  BY DEF RequeueAll, Back, PayloadOf
<1>3. n = [k EXCEPT !.fPending = c, !.fPendingIds = k.fPendingIds \cup S, !.fDone = k.fDone \ S]
  <2> DEFINE b == Back(m, p)
  <2>1. n = [k EXCEPT !.fPending = @ \o b, !.fPendingIds = @ \cup S, !.fDone = @ \ S]
    BY <1>2
  <2>2. c = k.fPending \o b
    BY <1>1
  <2> HIDE DEF b, S, c
  <2> QED BY <2>1, <2>2
<1>4. c \in Seq(Entries) /\ S \in SUBSET TaskId
  BY BackFacts
<1> HIDE DEF S, c
<1> DEFINE a == k.fPendingIds \cup S
           d == k.fDone \ S
<1>5. a \in SUBSET TaskId /\ d \in SUBSET TaskId /\ a = m.fPendingIds \cup S /\ d = m.fDone \ S
  BY <1>1, <1>4, MemberTypes
<1>6. n = [k EXCEPT !.fPending = c, !.fPendingIds = a, !.fDone = d]
  BY <1>3
<1> HIDE DEF a, d
<1>7. /\ IsManager(n)
      /\ n.fPending = c /\ n.fPendingIds = a /\ n.fDone = d /\ n.fTaskPayloads = k.fTaskPayloads
      /\ n.fRunning = k.fRunning /\ n.fTaskToWorker = k.fTaskToWorker
      /\ n.fWorkerToTasks = k.fWorkerToTasks
  BY <1>1, <1>4, <1>5, <1>6 DEF IsManager
<1> QED BY <1>1, <1>5, <1>7 DEF S, c

\* One more call of RequeueTask.
LEMMA RequeueAllStep ==
  ASSUME NEW m, Consistent(m), NEW p \in Seq(TaskId), AllCanRequeue(m, p),
         NEW x \in TaskId, CanRequeue(m, x), x \notin Range(p)
  PROVE  RequeueTask(RequeueAll(m, p), x) = RequeueAll(m, Append(p, x))
<1> DEFINE S == Range(p)
           o == Append(p, x)
           T == Range(o)
           k == Release(m, S)
           r == Release(m, T)
           n == RequeueAll(m, p)
           g == RequeueAll(m, o)
           e == Entry(x, PayloadOf(m, x))
           b == m.fPending \o Back(m, p)
           c == m.fPending \o Back(m, o)
<1>0. IsManager(m) /\ IsPartitioned(m) /\ IsAssigned(m)
  BY DEF Consistent
<1>1. o \in Seq(TaskId) /\ AllCanRequeue(m, o) /\ e \in Entries /\ T = S \cup {x} /\ c = Append(b, e)
  <2>1. /\ o = Append(p, x) /\ e = Entry(x, PayloadOf(m, x))
        /\ IsManager(m) /\ p \in Seq(TaskId) /\ AllCanRequeue(m, p)
        /\ x \in TaskId /\ CanRequeue(m, x)
    BY <1>0
  <2> HIDE DEF o, e
  <2>2. BackGrows(m, p, o, x, e)
    BY ONLY <2>1, BackAppend
  <2> QED BY ONLY <2>2 DEF BackGrows
<1>2. b \in Seq(Entries) /\ S \in SUBSET TaskId
  BY <1>0, BackFacts
<1> HIDE DEF o
<1>3. /\ IsManager(n)
      /\ n.fPending = b /\ n.fPendingIds = m.fPendingIds \cup S
      /\ n.fDone = m.fDone \ S /\ n.fTaskPayloads = m.fTaskPayloads
      /\ n.fRunning = k.fRunning /\ n.fTaskToWorker = k.fTaskToWorker
      /\ n.fWorkerToTasks = k.fWorkerToTasks
  BY <1>0, RequeueAllFields
<1>4. /\ IsManager(g)
      /\ g.fPending = c /\ g.fPendingIds = m.fPendingIds \cup T
      /\ g.fDone = m.fDone \ T /\ g.fTaskPayloads = m.fTaskPayloads
      /\ g.fRunning = r.fRunning /\ g.fTaskToWorker = r.fTaskToWorker
      /\ g.fWorkerToTasks = r.fWorkerToTasks
  <2>1. o \in Seq(TaskId) /\ AllCanRequeue(m, o) /\ IsManager(m)
    BY <1>0, <1>1
  <2> QED BY ONLY <2>1, RequeueAllFields
<1>5. k.fRunning[x] = m.fRunning[x] /\ k.fTaskToWorker[x] = m.fTaskToWorker[x]
  BY <1>0, ReleaseFields
<1>6. x \notin m.fPendingIds /\ (x \in Running(m) => x \notin m.fDone)
      /\ (x \notin Running(m) => m.fTaskToWorker[x] = NoWorker /\ m.fRunning[x] = NoPayload)
  BY <1>0 DEF IsPartitioned, IsAssigned, CanRequeue, IsDone, Running
<1> HIDE DEF S, T, n, g, b, c, e, k, r
<1>7. PayloadOf(m, x) \in TaskPayload
  BY <1>0, PayloadOfType
<1>8. (x \in Running(n) <=> x \in Running(m)) /\ x \notin n.fPendingIds
  BY <1>3, <1>5, <1>6 DEF Running, S
<1>9. \E d : /\ IsManager(d)
             /\ d.fPending = Append(n.fPending, e) /\ d.fPendingIds = n.fPendingIds \cup {x}
             /\ d.fDone = n.fDone \ {x} /\ d.fTaskPayloads = n.fTaskPayloads
             /\ d.fRunning = [n.fRunning EXCEPT ![x] = NoPayload]
             /\ d.fTaskToWorker = n.fTaskToWorker
             /\ d.fWorkerToTasks = n.fWorkerToTasks
             /\ RequeueTask(n, x) = Unassign(d, x)
  <2>0. Append(n.fPending, e) \in Seq(Entries)
    BY <1>1, <1>2, <1>3
  <2>1. CASE x \in Running(m)
    <3> DEFINE d == [n EXCEPT !.fRunning[x] = NoPayload, !.fPending = Append(@, e), !.fPendingIds = @ \cup {x}]
    <3>1. n.fRunning[x] = PayloadOf(m, x)
      BY <1>3, <1>5, <2>1 DEF PayloadOf
    <3>2. RequeueTask(n, x) = Unassign(EnqueuePending([n EXCEPT !.fRunning[x] = NoPayload], x, PayloadOf(m, x)), x)
      BY <1>8, <2>1, <3>1 DEF RequeueTask, MarkFailed
    <3>3. EnqueuePending([n EXCEPT !.fRunning[x] = NoPayload], x, PayloadOf(m, x)) = d
      BY <1>3, <1>8 DEF EnqueuePending, IsManager, e
    <3>4. n.fDone \ {x} = n.fDone
      BY <1>3, <1>6, <2>1
    <3>5. /\ IsManager(d)
          /\ d.fPending = Append(n.fPending, e) /\ d.fPendingIds = n.fPendingIds \cup {x}
          /\ d.fDone = n.fDone /\ d.fTaskPayloads = n.fTaskPayloads
          /\ d.fRunning = [n.fRunning EXCEPT ![x] = NoPayload]
          /\ d.fTaskToWorker = n.fTaskToWorker /\ d.fWorkerToTasks = n.fWorkerToTasks
      BY <1>3, <2>0 DEF IsManager
    <3> HIDE DEF d
    <3> QED BY <3>2, <3>3, <3>4, <3>5
  <2>2. CASE x \notin Running(m)
    <3> DEFINE d == [n EXCEPT !.fDone = @ \ {x}, !.fPending = Append(@, e), !.fPendingIds = @ \cup {x}]
    <3>1. n.fTaskPayloads[x] = PayloadOf(m, x)
      BY <1>3, <2>2 DEF PayloadOf
    <3>2. RequeueTask(n, x) = EnqueuePending([n EXCEPT !.fDone = @ \ {x}], x, PayloadOf(m, x))
      BY <1>8, <2>2, <3>1 DEF RequeueTask
    <3>3. EnqueuePending([n EXCEPT !.fDone = @ \ {x}], x, PayloadOf(m, x)) = d
      BY <1>3, <1>8 DEF EnqueuePending, IsManager, e
    <3>4. /\ IsManager(d)
          /\ d.fPending = Append(n.fPending, e) /\ d.fPendingIds = n.fPendingIds \cup {x}
          /\ d.fDone = n.fDone \ {x} /\ d.fTaskPayloads = n.fTaskPayloads
          /\ d.fRunning = n.fRunning
          /\ d.fTaskToWorker = n.fTaskToWorker /\ d.fWorkerToTasks = n.fWorkerToTasks
      BY <1>3, <2>0 DEF IsManager
    <3> HIDE DEF d
    <3>5. [n.fRunning EXCEPT ![x] = NoPayload] = n.fRunning
      <4>1. n.fRunning \in [TaskId -> TaskPayload \cup {NoPayload}] /\ n.fRunning[x] = NoPayload
        BY <1>3, <1>5, <1>6, <2>2, MemberTypes
      <4> QED BY <4>1
    <3>6. Unassign(d, x) = d
      BY <1>3, <1>5, <1>6, <2>2, <3>4 DEF Unassign
    <3> QED BY <3>2, <3>3, <3>4, <3>5, <3>6
  <2> QED BY <2>1, <2>2
<1>10. PICK d : /\ IsManager(d)
                /\ d.fPending = Append(n.fPending, e) /\ d.fPendingIds = n.fPendingIds \cup {x}
                /\ d.fDone = n.fDone \ {x} /\ d.fTaskPayloads = n.fTaskPayloads
                /\ d.fRunning = [n.fRunning EXCEPT ![x] = NoPayload]
                /\ d.fTaskToWorker = n.fTaskToWorker
                /\ d.fWorkerToTasks = n.fWorkerToTasks
                /\ RequeueTask(n, x) = Unassign(d, x)
  BY <1>9
<1> DEFINE u == Unassign(d, x)
<1>11. /\ IsManager(u)
       /\ u.fPending = d.fPending /\ u.fPendingIds = d.fPendingIds
       /\ u.fDone = d.fDone /\ u.fTaskPayloads = d.fTaskPayloads
       /\ u.fRunning = r.fRunning
       /\ u.fTaskToWorker = r.fTaskToWorker
       /\ u.fWorkerToTasks = r.fWorkerToTasks
  <2>1. /\ Consistent(m) /\ x \in TaskId /\ x \notin S /\ T = S \cup {x}
        /\ k = Release(m, S) /\ r = Release(m, T) /\ u = Unassign(d, x)
    BY <1>1 DEF k, r, S
  <2>2. /\ d.fRunning = [k.fRunning EXCEPT ![x] = NoPayload]
        /\ d.fTaskToWorker = k.fTaskToWorker /\ d.fWorkerToTasks = k.fWorkerToTasks
    BY <1>3, <1>10
  <2>3. IsManager(d)
    BY <1>10
  <2> HIDE DEF u
  <2> QED BY ONLY <2>1, <2>2, <2>3, ReleaseOneMore
<1> HIDE DEF u
<1>12. u.fPending = g.fPending
  BY <1>1, <1>3, <1>4, <1>10, <1>11
<1>13. u.fPendingIds = g.fPendingIds /\ u.fDone = g.fDone
  BY <1>1, <1>3, <1>4, <1>10, <1>11
<1>14. u.fTaskPayloads = g.fTaskPayloads
  BY <1>3, <1>4, <1>10, <1>11
<1>15. u = g
  BY <1>4, <1>11, <1>12, <1>13, <1>14, SameManager
<1> QED BY <1>10, <1>15 DEF u, n, g, o

LEMMA RequeueNone ==
  ASSUME NEW m, IsManager(m), NEW p, p = << >>
  PROVE  RequeueAll(m, p) = m
<1> DEFINE S == Range(p)
           k == Release(m, S)
           n == RequeueAll(m, p)
<1>0. p \in Seq(TaskId) /\ AllCanRequeue(m, p) /\ S = {}
  BY DEF AllCanRequeue, Range
<1>1. /\ IsManager(n)
      /\ n.fPending = m.fPending \o Back(m, p) /\ n.fPendingIds = m.fPendingIds \cup S
      /\ n.fDone = m.fDone \ S /\ n.fTaskPayloads = m.fTaskPayloads
      /\ n.fRunning = k.fRunning /\ n.fTaskToWorker = k.fTaskToWorker
      /\ n.fWorkerToTasks = k.fWorkerToTasks
  <2>1. p \in Seq(TaskId) /\ AllCanRequeue(m, p) /\ IsManager(m)
    BY <1>0
  <2> QED BY ONLY <2>1, RequeueAllFields
<1> HIDE DEF S
<1>2. k.fRunning = m.fRunning /\ k.fTaskToWorker = m.fTaskToWorker /\ k.fWorkerToTasks = m.fWorkerToTasks
  BY <1>0, ReleaseNone
<1> HIDE DEF k, n
<1>3. m.fPending \o Back(m, p) = m.fPending
  <2>1. Len(p) = 0 /\ m.fPending \in Seq(Entries) /\ Back(m, p) \in Seq(Entries)
    BY <1>0, MemberTypes, BackFacts
  <2>2. Back(m, p) = << >>
    <3>1. DOMAIN Back(m, p) = 1..0
      BY <2>1 DEF Back
    <3>2. Len(Back(m, p)) = 0
      BY <2>1, <3>1, LenProperties
    <3> QED BY <2>1, <3>2
  <2> QED BY <2>1, <2>2, ConcatEmptySeq
<1>4. n.fDone = m.fDone /\ n.fPendingIds = m.fPendingIds /\ n.fPending = m.fPending
  BY <1>0, <1>1, <1>3
<1>5. n = m
  BY <1>1, <1>2, <1>4, SameManager
<1> QED BY <1>5 DEF n

\* The loop of RequeueTask calls.
LEMMA RequeueLoopMatches ==
  ASSUME NEW m, Consistent(m), NEW L \in Nat, NEW q \in [1..L -> TaskId],
         \A i, j \in 1..L : q[i] = q[j] => i = j,
         \A i \in 1..L : CanRequeue(m, q[i])
  PROVE  RequeueLoop(m, q) = RequeueAll(m, q)
<1> DEFINE Is(f) == f = [i \in 0..L |-> IF i = 0 THEN m ELSE RequeueTask(f[i - 1], q[i])]
           f == CHOOSE f : Is(f)
           First(i) == SubSeq(q, 1, i)
           g == [i \in 0..L |-> RequeueAll(m, First(i))]
<1>0. IsManager(m) /\ Len(q) = L /\ q \in Seq(TaskId)
  BY DEF Consistent
<1>a. ASSUME NEW i \in 0..L
      PROVE  /\ First(i) \in Seq(TaskId) /\ Len(First(i)) = i
             /\ \A j \in 1..i : First(i)[j] = q[j] /\ j \in 1..L
             /\ AllCanRequeue(m, First(i))
  <2>1. i \in 0..Len(q)
    BY <1>0
  <2>2. /\ First(i) \in Seq(TaskId) /\ Len(First(i)) = i
        /\ \A j \in 1..i : First(i)[j] = q[j] /\ j \in 1..L
    BY <1>0, <2>1, Prefix
  <2> HIDE DEF First
  <2> QED BY <2>2 DEF AllCanRequeue
<1>b. First(0) = << >> /\ First(L) = q
  <2>1. 0 \in 0..L /\ L \in 0..L
    OBVIOUS
  <2>2. First(0) \in Seq(TaskId) /\ Len(First(0)) = 0
    BY <1>a, <2>1
  <2>3. First(L) = q
    BY <1>0, <2>1, PrefixOfPrefix
  <2> QED BY <2>2, <2>3
<1> HIDE DEF First
<1>1. ASSUME NEW i \in 0..L, i < L
      PROVE  RequeueAll(m, First(i + 1)) = RequeueTask(RequeueAll(m, First(i)), q[i + 1])
  <2>1. i + 1 \in 0..L /\ i + 1 \in 1..L /\ q[i + 1] \in TaskId /\ CanRequeue(m, q[i + 1])
    BY <1>1
  <2> DEFINE p == First(i)
             x == q[i + 1]
  <2>2. /\ p \in Seq(TaskId) /\ Len(p) = i /\ (\A j \in 1..i : p[j] = q[j] /\ j \in 1..L) /\ AllCanRequeue(m, p)
    BY <1>a
  <2>3. First(i + 1) \in Seq(TaskId) /\ Len(First(i + 1)) = i + 1 /\ \A j \in 1..(i + 1) : First(i + 1)[j] = q[j]
    BY <1>a, <2>1
  <2> HIDE DEF p
  <2>4. First(i + 1) = Append(p, x)
    <3>1. /\ Append(p, x) \in Seq(TaskId) /\ Len(Append(p, x)) = i + 1
          /\ \A j \in 1..i : Append(p, x)[j] = p[j]
          /\ Append(p, x)[i + 1] = x
      BY <2>1, <2>2
    <3>2. \A j \in 1..(i + 1) : First(i + 1)[j] = Append(p, x)[j]
      BY <2>2, <2>3, <3>1
    <3> QED BY <2>3, <3>1, <3>2, SameSeq
  <2>5. x \notin Range(p)
    <3>1. \A j \in 1..i : p[j] # x
      BY <2>1, <2>2
    <3>2. DOMAIN p = 1..i
      BY <2>2
    <3> QED BY <3>1, <3>2 DEF Range
  <2>6. x \in TaskId /\ CanRequeue(m, x) /\ Consistent(m)
    BY <2>1
  <2> HIDE DEF x
  <2>7. RequeueTask(RequeueAll(m, p), x) = RequeueAll(m, Append(p, x))
    BY ONLY <2>2, <2>5, <2>6, RequeueAllStep
  <2> QED BY <2>4, <2>7 DEF p, x
<1>2. \A i \in 0..L : g[i] = IF i = 0 THEN m ELSE RequeueTask(g[i - 1], q[i])
  <2> SUFFICES ASSUME NEW i \in 0..L PROVE g[i] = IF i = 0 THEN m ELSE RequeueTask(g[i - 1], q[i])
    OBVIOUS
  <2>1. CASE i = 0
    BY <1>0, <1>b, <2>1, RequeueNone
  <2>2. CASE i # 0
    <3>1. i - 1 \in 0..L /\ i - 1 < L /\ (i - 1) + 1 = i
      BY <2>2
    <3>2. RequeueAll(m, First(i)) = RequeueTask(RequeueAll(m, First(i - 1)), q[i])
      BY <1>1, <3>1
    <3> QED BY <2>2, <3>1, <3>2
  <2> QED BY <2>1, <2>2
<1>3. Is(g)
  <2>1. g = [i \in 0..L |-> g[i]]
    OBVIOUS
  <2> HIDE DEF g
  <2>2. g = [i \in 0..L |-> IF i = 0 THEN m ELSE RequeueTask(g[i - 1], q[i])]
    BY <1>2, <2>1
  <2> QED BY <2>2
<1>4. RequeueLoop(m, q) = f[L]
  BY <1>0 DEF RequeueLoop
<1>5. Is(f)
  <2> HIDE DEF Is, g
  <2> QED BY <1>3
<1>6. \A i \in 0..L : f[i] = IF i = 0 THEN m ELSE RequeueTask(f[i - 1], q[i])
  <2> HIDE DEF f
  <2> QED BY <1>5
<1>7. g[L] = RequeueAll(m, q)
  BY <1>0, <1>b
<1> HIDE DEF f, g
<1>8. f[0] = g[0]
  BY <1>2, <1>6
<1>9. \A i \in 0..L : i < L /\ f[i] = g[i] => f[i + 1] = g[i + 1]
  <2> SUFFICES ASSUME NEW i \in 0..L, i < L, f[i] = g[i] PROVE f[i + 1] = g[i + 1]
    OBVIOUS
  <2>1. i + 1 \in 0..L /\ i + 1 # 0 /\ (i + 1) - 1 = i
    OBVIOUS
  <2> QED BY <1>2, <1>6, <2>1
<1>10. f[L] = g[L]
  <2>1. L \in Nat
    OBVIOUS
  <2>2. \A i \in 0..L : f[i] = g[i]
    BY ONLY <1>8, <1>9, <2>1, SameUpTo
  <2> QED BY <2>2
<1> QED BY <1>4, <1>7, <1>10

\* The payload map after the entries es have been written into it.
PayIn(es, t) == es[CHOOSE i \in 1..Len(es) : es[i].id = t].payload
Fill(es, old) == [t \in TaskId |-> IF t \in QueuedIds(es) THEN PayIn(es, t) ELSE old[t]]
Owned(es, w, old) == [t \in TaskId |-> IF t \in QueuedIds(es) THEN w ELSE old[t]]
Owns(es, w, old) == [old EXCEPT ![w] = @ \cup QueuedIds(es)]

\* m after the entries p were added, and of the queue with them the part c
\* was claimed by w and the part r is left.
Claimed(m, w, p, c, r) ==
  [m EXCEPT !.fPending       = r,
            !.fPendingIds    = QueuedIds(r),
            !.fTaskPayloads  = Fill(p, m.fTaskPayloads),
            !.fRunning       = Fill(c, m.fRunning),
            !.fWorkerToTasks = Owns(c, w, m.fWorkerToTasks),
            !.fTaskToWorker  = Owned(c, w, m.fTaskToWorker)]

LEMMA QueuedIdsType ==
  ASSUME NEW es \in Seq(Entries)
  PROVE  /\ QueuedIds(es) \in SUBSET TaskId
         /\ \A i \in 1..Len(es) : es[i].id \in QueuedIds(es) /\ es[i].payload \in TaskPayload
<1>1. ASSUME NEW i \in 1..Len(es) PROVE es[i].id \in TaskId /\ es[i].payload \in TaskPayload
  <2>1. es[i] \in Entries
    OBVIOUS
  <2> QED BY <2>1 DEF Entries
<1> QED BY <1>1 DEF QueuedIds

LEMMA PayInFacts ==
  ASSUME NEW es \in Seq(Entries), Distinct(es), NEW i \in 1..Len(es)
  PROVE  PayIn(es, es[i].id) = es[i].payload
<1> DEFINE j == CHOOSE j \in 1..Len(es) : es[j].id = es[i].id
<1>1. j \in 1..Len(es) /\ es[j].id = es[i].id
  OBVIOUS
<1>2. j = i
  BY <1>1 DEF Distinct
<1> QED BY <1>2 DEF PayIn

LEMMA FillType ==
  ASSUME NEW es \in Seq(Entries), Distinct(es), NEW old \in [TaskId -> TaskPayload \cup {NoPayload}]
  PROVE  Fill(es, old) \in [TaskId -> TaskPayload \cup {NoPayload}]
<1>1. ASSUME NEW t \in QueuedIds(es) PROVE PayIn(es, t) \in TaskPayload
  <2>1. PICK i \in 1..Len(es) : es[i].id = t
    BY <1>1 DEF QueuedIds
  <2> QED BY <2>1, PayInFacts, QueuedIdsType
<1> QED BY <1>1 DEF Fill

\* Writing fs is writing es and then e.
FillsMore(es, e, fs) ==
  /\ fs \in Seq(Entries) /\ Distinct(fs)
  /\ \A old \in [TaskId -> TaskPayload \cup {NoPayload}] :
       Fill(fs, old) = [Fill(es, old) EXCEPT ![e.id] = e.payload]

LEMMA FillAppend ==
  ASSUME NEW es \in Seq(Entries), Distinct(es), NEW e \in Entries, e.id \notin QueuedIds(es),
         NEW fs, fs = Append(es, e)
  PROVE  FillsMore(es, e, fs)
<1>1. fs \in Seq(Entries) /\ Distinct(fs) /\ QueuedIds(fs) = QueuedIds(es) \cup {e.id}
  BY AppendQueue
<1>2. /\ Len(fs) = Len(es) + 1 /\ Len(es) \in Nat
      /\ \A i \in 1..Len(es) : fs[i] = es[i] /\ i \in 1..Len(fs)
      /\ fs[Len(es) + 1] = e /\ Len(es) + 1 \in 1..Len(fs)
  OBVIOUS
<1>3. PayIn(fs, e.id) = e.payload
  BY <1>1, <1>2, PayInFacts
<1>4. ASSUME NEW t \in QueuedIds(es) PROVE PayIn(fs, t) = PayIn(es, t)
  <2>1. PICK i \in 1..Len(es) : es[i].id = t
    BY <1>4 DEF QueuedIds
  <2>2. PayIn(es, t) = es[i].payload
    BY <2>1, PayInFacts
  <2>3. PayIn(fs, fs[i].id) = fs[i].payload
    BY <1>1, <1>2, PayInFacts
  <2> QED BY <1>2, <2>1, <2>2, <2>3
<1>5. e.id \in TaskId
  BY DEF Entries
<1> SUFFICES ASSUME NEW old \in [TaskId -> TaskPayload \cup {NoPayload}]
             PROVE  Fill(fs, old) = [Fill(es, old) EXCEPT ![e.id] = e.payload]
  BY <1>1 DEF FillsMore
<1> DEFINE A == Fill(fs, old)
           B == [Fill(es, old) EXCEPT ![e.id] = e.payload]
<1>6. ASSUME NEW t \in TaskId PROVE A[t] = B[t]
  BY <1>1, <1>3, <1>4, <1>5 DEF Fill
<1>7. A = [t \in TaskId |-> A[t]] /\ B = [t \in TaskId |-> B[t]]
  BY DEF Fill
<1> HIDE DEF A, B
<1>8. A = B
  BY <1>6, <1>7
<1> QED BY <1>8 DEF A, B

LEMMA ClaimedFields ==
  ASSUME NEW m, IsManager(m), NEW w \in WorkerId,
         NEW p \in Seq(Entries), Distinct(p), NEW c \in Seq(Entries), Distinct(c), NEW r \in Seq(Entries),
         NEW n, n = Claimed(m, w, p, c, r)
  PROVE  /\ IsManager(n)
         /\ n.fPending = r /\ n.fPendingIds = QueuedIds(r) /\ n.fDone = m.fDone
         /\ n.fTaskPayloads = Fill(p, m.fTaskPayloads)
         /\ n.fRunning = Fill(c, m.fRunning)
         /\ n.fWorkerToTasks = Owns(c, w, m.fWorkerToTasks)
         /\ n.fTaskToWorker = Owned(c, w, m.fTaskToWorker)
<1> DEFINE ids == QueuedIds(r)
           pay == Fill(p, m.fTaskPayloads)
           run == Fill(c, m.fRunning)
           own == Owns(c, w, m.fWorkerToTasks)
           by == Owned(c, w, m.fTaskToWorker)
<1>1. ids \in SUBSET TaskId /\ QueuedIds(c) \in SUBSET TaskId
  BY QueuedIdsType
<1>2. /\ m.fRunning \in [TaskId -> TaskPayload \cup {NoPayload}]
      /\ m.fWorkerToTasks \in [WorkerId -> SUBSET TaskId]
      /\ m.fTaskToWorker \in [TaskId -> WorkerId \cup {NoWorker}]
      /\ m.fTaskPayloads \in [TaskId -> TaskPayload \cup {NoPayload}]
  BY MemberTypes
<1>3. pay \in [TaskId -> TaskPayload \cup {NoPayload}] /\ run \in [TaskId -> TaskPayload \cup {NoPayload}]
  BY <1>2, FillType
<1>4. own \in [WorkerId -> SUBSET TaskId]
  BY <1>1, <1>2 DEF Owns
<1>5. by \in [TaskId -> WorkerId \cup {NoWorker}]
  BY <1>2 DEF Owned
<1>6. n = [m EXCEPT !.fPending = r, !.fPendingIds = ids, !.fTaskPayloads = pay, !.fRunning = run,
                    !.fWorkerToTasks = own, !.fTaskToWorker = by]
  BY DEF Claimed
<1> HIDE DEF ids, pay, run, own, by
<1>7. /\ IsManager(n)
      /\ n.fPending = r /\ n.fPendingIds = ids /\ n.fDone = m.fDone
      /\ n.fTaskPayloads = pay /\ n.fRunning = run
      /\ n.fWorkerToTasks = own /\ n.fTaskToWorker = by
  BY <1>1, <1>3, <1>4, <1>5, <1>6 DEF IsManager
<1> QED BY <1>7 DEF ids, pay, run, own, by

\* d is the queue c with e at its end; s is the queue r without e at its front.
Grows(c, e, d) == e \in Entries /\ e.id \notin QueuedIds(c) /\ d = Append(c, e)
Takes(r, e, s) == r # << >> /\ e = Head(r) /\ s = Tail(r)

\* A call of AddPending.
LEMMA ClaimedAdd ==
  ASSUME NEW m, IsManager(m), NEW w \in WorkerId,
         NEW p \in Seq(Entries), Distinct(p), NEW c \in Seq(Entries), Distinct(c),
         NEW r \in Seq(Entries), Distinct(r),
         NEW e, NEW o, Grows(p, e, o), NEW s, Grows(r, e, s)
  PROVE  AddPending(Claimed(m, w, p, c, r), e.id, e.payload) = Claimed(m, w, o, c, s)
<1> USE DEF Grows
<1> DEFINE n == Claimed(m, w, p, c, r)
           g == Claimed(m, w, o, c, s)
           u == AddPending(n, e.id, e.payload)
<1>1. /\ IsManager(n)
      /\ n.fPending = r /\ n.fPendingIds = QueuedIds(r) /\ n.fDone = m.fDone
      /\ n.fTaskPayloads = Fill(p, m.fTaskPayloads)
      /\ n.fRunning = Fill(c, m.fRunning)
      /\ n.fWorkerToTasks = Owns(c, w, m.fWorkerToTasks)
      /\ n.fTaskToWorker = Owned(c, w, m.fTaskToWorker)
  BY ClaimedFields
<1>2. m.fTaskPayloads \in [TaskId -> TaskPayload \cup {NoPayload}]
  BY MemberTypes
<1>3. /\ o \in Seq(Entries) /\ Distinct(o)
      /\ Fill(o, m.fTaskPayloads) = [Fill(p, m.fTaskPayloads) EXCEPT ![e.id] = e.payload]
  <2>1. FillsMore(p, e, o)
    BY FillAppend
  <2> QED BY <1>2, <2>1 DEF FillsMore
<1>4. s \in Seq(Entries) /\ QueuedIds(s) = QueuedIds(r) \cup {e.id}
  BY AppendQueue
<1>5. /\ IsManager(g)
      /\ g.fPending = s /\ g.fPendingIds = QueuedIds(s) /\ g.fDone = m.fDone
      /\ g.fTaskPayloads = Fill(o, m.fTaskPayloads)
      /\ g.fRunning = Fill(c, m.fRunning)
      /\ g.fWorkerToTasks = Owns(c, w, m.fWorkerToTasks)
      /\ g.fTaskToWorker = Owned(c, w, m.fTaskToWorker)
  BY ONLY IsManager(m), w \in WorkerId, <1>3, <1>4, c \in Seq(Entries), Distinct(c), ClaimedFields
<1> HIDE DEF n, g
<1>6. e.id \in TaskId /\ e.payload \in TaskPayload /\ Entry(e.id, e.payload) = e
  BY DEF Entries, Entry
<1>7. u = [n EXCEPT !.fPending = s, !.fPendingIds = QueuedIds(s),
                    !.fTaskPayloads = [n.fTaskPayloads EXCEPT ![e.id] = e.payload]]
  <2>1. EnqueuePending(n, e.id, e.payload) = [n EXCEPT !.fPending = Append(r, e), !.fPendingIds = QueuedIds(r) \cup {e.id}]
    BY <1>1, <1>6 DEF EnqueuePending
  <2> QED BY <1>1, <1>4, <2>1 DEF AddPending, IsManager
<1> DEFINE ids == QueuedIds(s)
           pay == [n.fTaskPayloads EXCEPT ![e.id] = e.payload]
<1>8. /\ ids \in SUBSET TaskId /\ pay \in [TaskId -> TaskPayload \cup {NoPayload}]
      /\ u = [n EXCEPT !.fPending = s, !.fPendingIds = ids, !.fTaskPayloads = pay]
  <2>1. n.fTaskPayloads \in [TaskId -> TaskPayload \cup {NoPayload}]
    BY <1>1, MemberTypes
  <2> QED BY <1>4, <1>6, <1>7, <2>1, QueuedIdsType
<1> HIDE DEF u, ids, pay
<1>9. /\ IsManager(u)
      /\ u.fPending = s /\ u.fPendingIds = ids /\ u.fTaskPayloads = pay /\ u.fDone = n.fDone
      /\ u.fRunning = n.fRunning /\ u.fWorkerToTasks = n.fWorkerToTasks
      /\ u.fTaskToWorker = n.fTaskToWorker
  BY <1>1, <1>4, <1>8 DEF IsManager
<1>10. ids = QueuedIds(s) /\ pay = Fill(o, m.fTaskPayloads)
  BY <1>1, <1>3 DEF ids, pay
<1>11. u = g
  BY <1>1, <1>5, <1>9, <1>10, SameManager
<1> QED BY <1>11 DEF u, n, g

\* A call of ClaimNextPendingForWorker.
LEMMA ClaimedClaim ==
  ASSUME NEW m, IsManager(m), NEW w \in WorkerId,
         NEW p \in Seq(Entries), Distinct(p), NEW c \in Seq(Entries), Distinct(c),
         NEW r \in Seq(Entries), Distinct(r),
         NEW e, NEW d, Grows(c, e, d), NEW s, Takes(r, e, s)
  PROVE  ClaimNextPendingForWorker(Claimed(m, w, p, c, r), w) = Claimed(m, w, p, d, s)
<1> USE DEF Grows, Takes
<1> DEFINE n == Claimed(m, w, p, c, r)
           g == Claimed(m, w, p, d, s)
           u == ClaimNextPendingForWorker(n, w)
<1>1. /\ IsManager(n)
      /\ n.fPending = r /\ n.fPendingIds = QueuedIds(r) /\ n.fDone = m.fDone
      /\ n.fTaskPayloads = Fill(p, m.fTaskPayloads)
      /\ n.fRunning = Fill(c, m.fRunning)
      /\ n.fWorkerToTasks = Owns(c, w, m.fWorkerToTasks)
      /\ n.fTaskToWorker = Owned(c, w, m.fTaskToWorker)
  BY ClaimedFields
<1>2. /\ e \in Entries /\ s \in Seq(Entries) /\ Distinct(s)
      /\ QueuedIds(s) = QueuedIds(r) \ {e.id}
  BY TailQueue
<1>3. u = [StartOn(n, w, e.id, e.payload) EXCEPT !.fPending = s]
  BY <1>1 DEF ClaimNextPendingForWorker, StartOn, IsManager
<1>4. d = Append(c, e) /\ e.id \notin QueuedIds(c)
  OBVIOUS
<1>5. /\ m.fRunning \in [TaskId -> TaskPayload \cup {NoPayload}]
      /\ m.fWorkerToTasks \in [WorkerId -> SUBSET TaskId]
      /\ m.fTaskToWorker \in [TaskId -> WorkerId \cup {NoWorker}]
  BY MemberTypes
<1>6. /\ d \in Seq(Entries) /\ Distinct(d)
      /\ Fill(d, m.fRunning) = [Fill(c, m.fRunning) EXCEPT ![e.id] = e.payload]
  <2>1. FillsMore(c, e, d)
    BY <1>4, FillAppend
  <2> QED BY <1>5, <2>1 DEF FillsMore
<1>7. QueuedIds(d) = QueuedIds(c) \cup {e.id}
  BY <1>2, <1>4, AppendQueue
<1>8. /\ IsManager(g)
      /\ g.fPending = s /\ g.fPendingIds = QueuedIds(s) /\ g.fDone = m.fDone
      /\ g.fTaskPayloads = Fill(p, m.fTaskPayloads)
      /\ g.fRunning = Fill(d, m.fRunning)
      /\ g.fWorkerToTasks = Owns(d, w, m.fWorkerToTasks)
      /\ g.fTaskToWorker = Owned(d, w, m.fTaskToWorker)
  <2>1. /\ IsManager(m) /\ w \in WorkerId /\ p \in Seq(Entries) /\ Distinct(p)
        /\ d \in Seq(Entries) /\ Distinct(d) /\ s \in Seq(Entries)
    BY <1>2, <1>6
  <2> QED BY ONLY <2>1, ClaimedFields
<1> HIDE DEF n, g
<1>9. e.id \in TaskId /\ e.payload \in TaskPayload
  BY <1>2 DEF Entries
<1> DEFINE ids == n.fPendingIds \ {e.id}
           run == [n.fRunning EXCEPT ![e.id] = e.payload]
           own == [n.fWorkerToTasks EXCEPT ![w] = @ \cup {e.id}]
           by == [n.fTaskToWorker EXCEPT ![e.id] = w]
<1>10. u = [n EXCEPT !.fPending = s, !.fPendingIds = ids, !.fRunning = run, !.fWorkerToTasks = own,
                     !.fTaskToWorker = by]
  BY <1>1, <1>3 DEF StartOn, IsManager
<1>11. /\ ids \in SUBSET TaskId /\ run \in [TaskId -> TaskPayload \cup {NoPayload}]
       /\ own \in [WorkerId -> SUBSET TaskId] /\ by \in [TaskId -> WorkerId \cup {NoWorker}]
  BY <1>1, <1>9 DEF IsManager
<1>12. ids = QueuedIds(s) /\ run = Fill(d, m.fRunning)
  BY <1>1, <1>2, <1>6
<1>13. own = Owns(d, w, m.fWorkerToTasks)
  BY <1>1, <1>5, <1>7 DEF Owns
<1>14. by = Owned(d, w, m.fTaskToWorker)
  BY <1>1, <1>7, <1>9 DEF Owned
<1> HIDE DEF u, ids, run, own, by
<1>15. /\ IsManager(u)
       /\ u.fPending = s /\ u.fPendingIds = ids /\ u.fTaskPayloads = n.fTaskPayloads
       /\ u.fDone = n.fDone /\ u.fRunning = run /\ u.fWorkerToTasks = own /\ u.fTaskToWorker = by
  BY <1>1, <1>2, <1>10, <1>11 DEF IsManager
<1>16. u = g
  <2>1. /\ u.fPending = g.fPending /\ u.fPendingIds = g.fPendingIds /\ u.fDone = g.fDone
        /\ u.fTaskPayloads = g.fTaskPayloads
    BY ONLY <1>1, <1>8, <1>12, <1>15
  <2>2. /\ u.fRunning = g.fRunning /\ u.fWorkerToTasks = g.fWorkerToTasks
        /\ u.fTaskToWorker = g.fTaskToWorker
    BY ONLY <1>8, <1>12, <1>13, <1>14, <1>15
  <2>3. IsManager(u) /\ IsManager(g)
    BY ONLY <1>8, <1>15
  <2> QED BY ONLY <2>1, <2>2, <2>3, SameManager
<1> QED BY <1>16 DEF u, n, g

\* Nothing added and nothing claimed.
LEMMA ClaimedNone ==
  ASSUME NEW m, Consistent(m), NEW w \in WorkerId, NEW p, p = << >>
  PROVE  Claimed(m, w, p, p, m.fPending) = m
<1> DEFINE g == Claimed(m, w, p, p, m.fPending)
<1>1. /\ IsManager(m) /\ m.fPending \in Seq(Entries) /\ m.fPendingIds = QueuedIds(m.fPending)
      /\ m.fRunning \in [TaskId -> TaskPayload \cup {NoPayload}]
      /\ m.fWorkerToTasks \in [WorkerId -> SUBSET TaskId]
      /\ m.fTaskToWorker \in [TaskId -> WorkerId \cup {NoWorker}]
      /\ m.fTaskPayloads \in [TaskId -> TaskPayload \cup {NoPayload}]
  BY MemberTypes DEF Consistent, IsIndexed
<1>2. p \in Seq(Entries) /\ Distinct(p) /\ QueuedIds(p) = {}
  BY DEF Distinct, QueuedIds
<1>3. /\ IsManager(g)
      /\ g.fPending = m.fPending /\ g.fPendingIds = QueuedIds(m.fPending) /\ g.fDone = m.fDone
      /\ g.fTaskPayloads = Fill(p, m.fTaskPayloads)
      /\ g.fRunning = Fill(p, m.fRunning)
      /\ g.fWorkerToTasks = Owns(p, w, m.fWorkerToTasks)
      /\ g.fTaskToWorker = Owned(p, w, m.fTaskToWorker)
  BY ONLY <1>1, <1>2, w \in WorkerId, ClaimedFields
<1>4. Fill(p, m.fTaskPayloads) = m.fTaskPayloads /\ Fill(p, m.fRunning) = m.fRunning
  BY <1>1, <1>2 DEF Fill
<1>5. Owns(p, w, m.fWorkerToTasks) = m.fWorkerToTasks
  BY <1>1, <1>2 DEF Owns
<1>6. Owned(p, w, m.fTaskToWorker) = m.fTaskToWorker
  BY <1>1, <1>2 DEF Owned
<1> HIDE DEF g
<1>7. g = m
  BY <1>1, <1>3, <1>4, <1>5, <1>6, SameManager
<1> QED BY <1>7 DEF g

\* The positions x to y of a queue.
LEMMA Slice ==
  ASSUME NEW s \in Seq(Entries), Distinct(s), NEW x \in 1..(Len(s) + 1), NEW y \in 0..Len(s), x <= y + 1,
         NEW t, t = SubSeq(s, x, y)
  PROVE  /\ t \in Seq(Entries) /\ Distinct(t) /\ Len(t) = y - x + 1
         /\ \A i \in x..y : i \in 1..Len(s)
         /\ QueuedIds(t) = {s[i].id : i \in x..y}
<1>1. x \in Int /\ y \in Int /\ Len(s) \in Nat /\ \A i \in x..y : i \in 1..Len(s) /\ s[i] \in Entries
  OBVIOUS
<1>2. /\ t \in Seq(Entries) /\ Len(t) = IF x <= y THEN y - x + 1 ELSE 0
      /\ \A i \in 1..(y - x + 1) : t[i] = s[x + i - 1]
  BY <1>1, SubSeqProperties
<1>3. Len(t) = y - x + 1
  BY <1>1, <1>2
<1>4. \A i \in 1..Len(t) : t[i] = s[x + i - 1] /\ x + i - 1 \in x..y
  BY <1>1, <1>2, <1>3
<1>5. \A i \in x..y : i - x + 1 \in 1..Len(t) /\ x + (i - x + 1) - 1 = i
  BY <1>1, <1>3
<1>6. Distinct(t)
  <2> SUFFICES ASSUME NEW i \in 1..Len(t), NEW j \in 1..Len(t), t[i].id = t[j].id PROVE i = j
    BY DEF Distinct
  <2>1. x + i - 1 = x + j - 1
    BY <1>1, <1>4 DEF Distinct
  <2> QED BY <1>1, <1>3, <2>1
<1>7. QueuedIds(t) = {s[i].id : i \in x..y}
  <2>1. ASSUME NEW i \in x..y PROVE s[i].id \in QueuedIds(t)
    <3>1. t[i - x + 1] = s[i] /\ i - x + 1 \in 1..Len(t)
      BY <1>4, <1>5
    <3> QED BY <3>1 DEF QueuedIds
  <2>2. ASSUME NEW i \in 1..Len(t) PROVE t[i].id \in {s[j].id : j \in x..y}
    BY <1>4
  <2>3. {s[i].id : i \in x..y} \subseteq QueuedIds(t)
    BY <2>1
  <2>4. QueuedIds(t) \subseteq {s[i].id : i \in x..y}
    BY <2>2 DEF QueuedIds
  <2> QED BY <2>3, <2>4
<1> QED BY <1>1, <1>2, <1>3, <1>6, <1>7

LEMMA SliceGrow ==
  ASSUME NEW s \in Seq(Entries), Distinct(s), NEW x \in 1..(Len(s) + 1), NEW y \in 0..Len(s), x <= y + 1,
         y < Len(s), NEW t, t = SubSeq(s, x, y), NEW e, e = s[y + 1], NEW u, u = SubSeq(s, x, y + 1)
  PROVE  Grows(t, e, u)
<1>1. y + 1 \in 1..Len(s) /\ x \in 1..Len(s) /\ y + 1 \in x..Len(s) /\ (y + 1) - 1 = y
  OBVIOUS
<1>2. e \in Entries
  BY <1>1
<1>3. t \in Seq(Entries) /\ QueuedIds(t) = {s[i].id : i \in x..y}
  BY Slice
<1>4. \A i \in x..y : i \in 1..Len(s) /\ i # y + 1
  OBVIOUS
<1>5. e.id \notin QueuedIds(t)
  BY <1>1, <1>3, <1>4 DEF Distinct
<1>6. SubSeq(s, x, y + 1) = SubSeq(s, x, (y + 1) - 1) \o <<s[y + 1]>>
  BY <1>1, SubSeqRecursiveSecond
<1>7. SubSeq(s, x, y + 1) = t \o <<e>>
  BY <1>1, <1>6
<1>8. Append(t, e) = t \o <<e>>
  BY <1>2, <1>3, AppendIsConcat
<1> QED BY <1>2, <1>5, <1>7, <1>8 DEF Grows

LEMMA SliceHead ==
  ASSUME NEW s \in Seq(Entries), Distinct(s), NEW x \in 1..Len(s), NEW y \in x..Len(s),
         NEW t, t = SubSeq(s, x, y), NEW e, e = s[x], NEW u, u = SubSeq(s, x + 1, y)
  PROVE  Takes(t, e, u)
<1>1. Head(t) = s[x] /\ Tail(t) = SubSeq(s, x + 1, y)
  BY HeadTailOfSubSeq
<1>2. x \in 1..(Len(s) + 1) /\ y \in 0..Len(s) /\ x <= y + 1 /\ y - x + 1 # 0
  OBVIOUS
<1>3. Len(t) = y - x + 1
  BY <1>2, Slice
<1> QED BY <1>1, <1>2, <1>3 DEF Takes

\* SubSeq as a name of its own.
Part(s, x, y) == SubSeq(s, x, y)

\* The i-th claim takes position i of the queue s, which ends at y.
LEMMA SliceClaim ==
  ASSUME NEW m, IsManager(m), NEW w \in WorkerId, NEW p \in Seq(Entries), Distinct(p),
         NEW s \in Seq(Entries), Distinct(s), NEW y \in 0..Len(s), NEW i \in 0..Len(s), i < y,
         NEW c, c = Part(s, 1, i), NEW r, r = Part(s, i + 1, y),
         NEW d, d = Part(s, 1, i + 1), NEW t, t = Part(s, (i + 1) + 1, y)
  PROVE  ClaimNextPendingForWorker(Claimed(m, w, p, c, r), w) = Claimed(m, w, p, d, t)
<1> USE DEF Part
<1>1. /\ 1 \in 1..(Len(s) + 1) /\ 1 <= i + 1 /\ i < Len(s) /\ i + 1 <= y + 1
      /\ i + 1 \in 1..(Len(s) + 1) /\ i + 1 \in 1..Len(s) /\ y \in (i + 1)..Len(s)
  OBVIOUS
<1>2. c \in Seq(Entries) /\ Distinct(c)
  <2>1. s \in Seq(Entries) /\ Distinct(s) /\ i \in 0..Len(s) /\ c = SubSeq(s, 1, i)
    OBVIOUS
  <2> QED BY ONLY <1>1, <2>1, Slice
<1>3. r \in Seq(Entries) /\ Distinct(r)
  <2>1. s \in Seq(Entries) /\ Distinct(s) /\ y \in 0..Len(s) /\ r = SubSeq(s, i + 1, y)
    OBVIOUS
  <2> QED BY ONLY <1>1, <2>1, Slice
<1> DEFINE e == s[i + 1]
<1>4. /\ s \in Seq(Entries) /\ Distinct(s) /\ i \in 0..Len(s) /\ e = s[i + 1]
      /\ c = SubSeq(s, 1, i) /\ d = SubSeq(s, 1, i + 1)
      /\ r = SubSeq(s, i + 1, y) /\ t = SubSeq(s, (i + 1) + 1, y)
  OBVIOUS
<1>5. IsManager(m) /\ w \in WorkerId /\ p \in Seq(Entries) /\ Distinct(p)
  OBVIOUS
<1> HIDE DEF e
<1>6. Grows(c, e, d)
  BY ONLY <1>1, <1>4, SliceGrow
<1>7. Takes(r, e, t)
  BY ONLY <1>1, <1>4, SliceHead
<1> QED BY ONLY <1>2, <1>3, <1>5, <1>6, <1>7, ClaimedClaim

\* Adding entry j + 1 of q, which position y + 1 of the queue s holds; i
\* entries are claimed.
Adding(q, s, j, y, i, e) ==
  /\ q \in Seq(Entries) /\ Distinct(q) /\ s \in Seq(Entries) /\ Distinct(s)
  /\ j \in 0..Len(q) /\ j < Len(q) /\ y \in 0..Len(s) /\ y < Len(s) /\ i \in 0..y
  /\ e = q[j + 1] /\ e = s[y + 1]

LEMMA SliceAdd ==
  ASSUME NEW m, IsManager(m), NEW w \in WorkerId, NEW q, NEW s, NEW j, NEW y, NEW i, NEW e,
         Adding(q, s, j, y, i, e)
  PROVE  AddPending(Claimed(m, w, Part(q, 1, j), Part(s, 1, i), Part(s, i + 1, y)), e.id, e.payload)
           = Claimed(m, w, Part(q, 1, j + 1), Part(s, 1, i), Part(s, i + 1, y + 1))
<1> DEFINE p == Part(q, 1, j)
           o == Part(q, 1, j + 1)
           c == Part(s, 1, i)
           r == Part(s, i + 1, y)
           t == Part(s, i + 1, y + 1)
<1>1. /\ q \in Seq(Entries) /\ Distinct(q) /\ s \in Seq(Entries) /\ Distinct(s)
      /\ j \in 0..Len(q) /\ j < Len(q) /\ y \in 0..Len(s) /\ y < Len(s) /\ i \in 0..y
      /\ e = q[j + 1] /\ e = s[y + 1]
  BY DEF Adding
<1>2. /\ p = SubSeq(q, 1, j) /\ o = SubSeq(q, 1, j + 1) /\ c = SubSeq(s, 1, i)
      /\ r = SubSeq(s, i + 1, y) /\ t = SubSeq(s, i + 1, y + 1)
  BY DEF Part
<1> HIDE DEF p, o, c, r, t
<1>3. /\ 1 \in 1..(Len(s) + 1) /\ 1 \in 1..(Len(q) + 1) /\ i \in 0..Len(s) /\ 1 <= i + 1 /\ 1 <= j + 1
      /\ i + 1 \in 1..(Len(s) + 1) /\ i + 1 <= y + 1
  BY <1>1
<1>4. c \in Seq(Entries) /\ Distinct(c)
  <2>1. s \in Seq(Entries) /\ Distinct(s) /\ c = SubSeq(s, 1, i)
    BY <1>1, <1>2
  <2> QED BY ONLY <1>3, <2>1, Slice
<1>5. r \in Seq(Entries) /\ Distinct(r)
  <2>1. s \in Seq(Entries) /\ Distinct(s) /\ r = SubSeq(s, i + 1, y) /\ y \in 0..Len(s)
    BY <1>1, <1>2
  <2> QED BY ONLY <1>3, <2>1, Slice
<1>6. /\ q \in Seq(Entries) /\ Distinct(q) /\ j \in 0..Len(q) /\ j < Len(q)
      /\ p = SubSeq(q, 1, j) /\ e = q[j + 1] /\ o = SubSeq(q, 1, j + 1)
  BY <1>1, <1>2
<1>7. p \in Seq(Entries) /\ Distinct(p)
  BY ONLY <1>3, <1>6, Slice
<1>8. Grows(p, e, o)
  BY ONLY <1>3, <1>6, SliceGrow
<1>9. Grows(r, e, t)
  <2>1. /\ s \in Seq(Entries) /\ Distinct(s) /\ y \in 0..Len(s) /\ y < Len(s)
        /\ r = SubSeq(s, i + 1, y) /\ e = s[y + 1] /\ t = SubSeq(s, i + 1, y + 1)
    BY <1>1, <1>2
  <2> QED BY ONLY <1>3, <2>1, SliceGrow
<1>10. IsManager(m) /\ w \in WorkerId
  OBVIOUS
<1>11. AddPending(Claimed(m, w, p, c, r), e.id, e.payload) = Claimed(m, w, o, c, t)
  BY ONLY <1>4, <1>5, <1>7, <1>8, <1>9, <1>10, ClaimedAdd
<1> QED BY <1>11 DEF p, o, c, r, t

\* m after the first j entries of q were added and i tasks claimed.
ClaimState(m, w, q, j, i) ==
  Claimed(m, w, SubSeq(q, 1, j), SubSeq(m.fPending \o q, 1, i),
          SubSeq(m.fPending \o q, i + 1, Len(m.fPending) + j))

\* The entries of q may be added to m.
Fresh(m, q) ==
  /\ Consistent(m) /\ q \in Seq(Entries) /\ Distinct(q)
  /\ QueuedIds(m.fPending) \cap QueuedIds(q) = {}

LEMMA FreshFacts ==
  ASSUME NEW m, NEW q, Fresh(m, q), NEW h, h = m.fPending, NEW s, s = h \o q
  PROVE  /\ IsManager(m) /\ h \in Seq(Entries) /\ Distinct(h) /\ s \in Seq(Entries) /\ Distinct(s)
         /\ Len(s) = Len(h) + Len(q) /\ Len(h) \in Nat /\ Len(q) \in Nat
<1>1. IsManager(m) /\ h \in Seq(Entries) /\ Distinct(h) /\ q \in Seq(Entries)
  BY MemberTypes DEF Fresh, Consistent, IsIndexed
<1>2. s \in Seq(Entries) /\ Distinct(s)
  BY <1>1, ConcatQueue DEF Fresh
<1>3. Len(s) = Len(h) + Len(q) /\ Len(h) \in Nat /\ Len(q) \in Nat
  BY <1>1, ConcatProperties
<1> QED BY <1>1, <1>2, <1>3

LEMMA StateClaim ==
  ASSUME NEW m, NEW w \in WorkerId, NEW q, Fresh(m, q),
         NEW j \in 0..Len(q), NEW i \in Nat, i < Len(m.fPending) + j
  PROVE  ClaimNextPendingForWorker(ClaimState(m, w, q, j, i), w) = ClaimState(m, w, q, j, i + 1)
<1> DEFINE h == m.fPending
           s == h \o q
           y == Len(h) + j
           p == Part(q, 1, j)
           c == Part(s, 1, i)
           r == Part(s, i + 1, y)
           d == Part(s, 1, i + 1)
           t == Part(s, (i + 1) + 1, y)
<1>1. /\ IsManager(m) /\ s \in Seq(Entries) /\ Distinct(s)
      /\ Len(s) = Len(h) + Len(q) /\ Len(h) \in Nat /\ Len(q) \in Nat
  <2> HIDE DEF h, s
  <2>1. Fresh(m, q) /\ h = m.fPending /\ s = h \o q
    BY DEF h, s
  <2> QED BY ONLY <2>1, FreshFacts
<1>2. /\ y \in 0..Len(s) /\ i \in 0..Len(s) /\ i < y
      /\ 1 \in 1..(Len(q) + 1) /\ j \in 0..Len(q) /\ 1 <= j + 1
  <2> HIDE DEF s
  <2> QED BY <1>1
<1>3. p \in Seq(Entries) /\ Distinct(p)
  <2>1. q \in Seq(Entries) /\ Distinct(q) /\ p = SubSeq(q, 1, j)
    BY DEF Fresh, Part
  <2> HIDE DEF p
  <2> QED BY ONLY <1>2, <2>1, Slice
<1>4. /\ w \in WorkerId /\ c = Part(s, 1, i) /\ r = Part(s, i + 1, y)
      /\ d = Part(s, 1, i + 1) /\ t = Part(s, (i + 1) + 1, y)
  OBVIOUS
<1>5. ClaimState(m, w, q, j, i) = Claimed(m, w, p, c, r) /\ ClaimState(m, w, q, j, i + 1) = Claimed(m, w, p, d, t)
  BY DEF ClaimState, Part
<1> HIDE DEF h, s, y, p, c, r, d, t
<1>6. ClaimNextPendingForWorker(Claimed(m, w, p, c, r), w) = Claimed(m, w, p, d, t)
  <2>1. /\ IsManager(m) /\ w \in WorkerId /\ p \in Seq(Entries) /\ Distinct(p)
        /\ s \in Seq(Entries) /\ Distinct(s) /\ y \in 0..Len(s) /\ i \in 0..Len(s) /\ i < y
        /\ c = Part(s, 1, i) /\ r = Part(s, i + 1, y)
        /\ d = Part(s, 1, i + 1) /\ t = Part(s, (i + 1) + 1, y)
    BY ONLY <1>1, <1>2, <1>3, <1>4
  <2> QED BY ONLY <2>1, SliceClaim
<1> QED BY <1>5, <1>6

LEMMA StateAdd ==
  ASSUME NEW m, NEW w \in WorkerId, NEW q, Fresh(m, q),
         NEW j \in 0..Len(q), j < Len(q), NEW i \in 0..(Len(m.fPending) + j)
  PROVE  AddPending(ClaimState(m, w, q, j, i), q[j + 1].id, q[j + 1].payload) = ClaimState(m, w, q, j + 1, i)
<1> DEFINE h == m.fPending
           s == h \o q
           y == Len(h) + j
           e == q[j + 1]
<1>1. /\ IsManager(m) /\ h \in Seq(Entries) /\ s \in Seq(Entries) /\ Distinct(s)
      /\ Len(s) = Len(h) + Len(q) /\ Len(h) \in Nat /\ Len(q) \in Nat
  <2> HIDE DEF h, s
  <2>1. Fresh(m, q) /\ h = m.fPending /\ s = h \o q
    BY DEF h, s
  <2> QED BY ONLY <2>1, FreshFacts
<1>2. q \in Seq(Entries) /\ Distinct(q) /\ i \in 0..y /\ e = q[j + 1]
  <2>1. q \in Seq(Entries) /\ Distinct(q)
    BY DEF Fresh
  <2> QED BY <2>1
<1>3. Len(h) + (j + 1) = y + 1 /\ y \in 0..Len(s) /\ y < Len(s)
  <2> HIDE DEF h, s
  <2> QED BY <1>1
<1>4. e = s[y + 1]
  <2>1. \A l \in 1..(Len(h) + Len(q)) : s[l] = IF l <= Len(h) THEN h[l] ELSE q[l - Len(h)]
    BY <1>1, <1>2, ConcatProperties
  <2> HIDE DEF h, s
  <2>2. y + 1 \in 1..(Len(h) + Len(q)) /\ ~(y + 1 <= Len(h)) /\ y + 1 - Len(h) = j + 1
    BY <1>1
  <2> QED BY <2>1, <2>2
<1>5. ClaimState(m, w, q, j, i) = Claimed(m, w, Part(q, 1, j), Part(s, 1, i), Part(s, i + 1, y))
  BY DEF ClaimState, Part
<1>6. ClaimState(m, w, q, j + 1, i) = Claimed(m, w, Part(q, 1, j + 1), Part(s, 1, i), Part(s, i + 1, y + 1))
  <2>1. ClaimState(m, w, q, j + 1, i)
          = Claimed(m, w, Part(q, 1, j + 1), Part(s, 1, i), Part(s, i + 1, Len(h) + (j + 1)))
    BY DEF ClaimState, Part
  <2> HIDE DEF h, s, y
  <2> QED BY <1>3, <2>1
<1> HIDE DEF h, s, y, e
<1>7. Adding(q, s, j, y, i, e)
  BY <1>1, <1>2, <1>3, <1>4 DEF Adding
<1>8. AddPending(Claimed(m, w, Part(q, 1, j), Part(s, 1, i), Part(s, i + 1, y)), e.id, e.payload)
        = Claimed(m, w, Part(q, 1, j + 1), Part(s, 1, i), Part(s, i + 1, y + 1))
  <2>1. IsManager(m) /\ w \in WorkerId
    BY <1>1
  <2> QED BY ONLY <1>7, <2>1, SliceAdd
<1>9. AddPending(ClaimState(m, w, q, j, i), e.id, e.payload) = ClaimState(m, w, q, j + 1, i)
  BY ONLY <1>5, <1>6, <1>8
<1> QED BY <1>9 DEF e

LEMMA StateNone ==
  ASSUME NEW m, NEW w \in WorkerId, NEW q, Fresh(m, q)
  PROVE  ClaimState(m, w, q, 0, 0) = m
<1> DEFINE h == m.fPending
           s == h \o q
<1>1. /\ h \in Seq(Entries) /\ q \in Seq(Entries) /\ s \in Seq(Entries) /\ Len(s) = Len(h) + Len(q)
      /\ Len(h) \in Nat /\ Len(q) \in Nat
  <2> HIDE DEF h, s
  <2>1. Fresh(m, q) /\ h = m.fPending /\ s = h \o q
    BY DEF h, s
  <2> QED BY <2>1, FreshFacts DEF Fresh
<1>2. SubSeq(q, 1, 0) = << >> /\ SubSeq(s, 1, 0) = << >>
  BY <1>1, SubSeqEmpty
<1>3. SubSeq(s, 0 + 1, Len(h) + 0) = h
  <2> DEFINE u == SubSeq(s, 1, Len(h))
  <2>1. Len(u) = Len(h) /\ u \in Seq(Entries) /\ \A l \in 1..Len(h) : u[l] = s[l]
    <3> HIDE DEF h, s
    <3>1. \A l \in 1..Len(h) : l \in 1..Len(s) /\ s[l] \in Entries
      BY <1>1
    <3>2. 1 \in Int /\ Len(h) \in Int
      BY <1>1
    <3>3. /\ u \in Seq(Entries) /\ Len(u) = (IF 1 <= Len(h) THEN Len(h) - 1 + 1 ELSE 0)
          /\ \A l \in 1..(Len(h) - 1 + 1) : u[l] = s[1 + l - 1]
      BY <1>1, <3>1, <3>2, SubSeqProperties
    <3> HIDE DEF u
    <3> QED BY <1>1, <3>3
  <2>2. \A l \in 1..Len(h) : s[l] = h[l]
    <3>1. \A l \in 1..(Len(h) + Len(q)) : s[l] = IF l <= Len(h) THEN h[l] ELSE q[l - Len(h)]
      BY <1>1, ConcatProperties
    <3> HIDE DEF h, s
    <3> QED BY <1>1, <3>1
  <2>3. u = h
    <3> HIDE DEF h, s, u
    <3> QED BY <1>1, <2>1, <2>2, SeqEqual
  <2>4. Len(h) + 0 = Len(h)
    <3> HIDE DEF h
    <3> QED BY <1>1
  <2> QED BY <2>3, <2>4
<1>4. ClaimState(m, w, q, 0, 0) = Claimed(m, w, << >>, << >>, m.fPending)
  BY <1>2, <1>3 DEF ClaimState
<1>5. Consistent(m)
  BY DEF Fresh
<1> QED BY <1>4, <1>5, ClaimedNone

LEMMA StateAll ==
  ASSUME NEW m, NEW w \in WorkerId, NEW q, Fresh(m, q), NEW n
  PROVE  ClaimState(m, w, q, Len(q), n) = AddAndClaim(m, w, q, n)
<1> DEFINE h == m.fPending
           s == h \o q
<1>1. IsManager(m) /\ Len(s) = Len(h) + Len(q)
  <2> HIDE DEF h, s
  <2>1. Fresh(m, q) /\ h = m.fPending /\ s = h \o q
    BY DEF h, s
  <2> QED BY ONLY <2>1, FreshFacts
<1>2. SubSeq(q, 1, Len(q)) = q
  BY SubSeqFull DEF Fresh
<1>3. ClaimState(m, w, q, Len(q), n) = Claimed(m, w, q, SubSeq(s, 1, n), SubSeq(s, n + 1, Len(s)))
  BY <1>1, <1>2 DEF ClaimState
<1>4. AddAndClaim(m, w, q, n) = Claimed(m, w, q, SubSeq(s, 1, n), SubSeq(s, n + 1, Len(s)))
  <2> DEFINE c == SubSeq(s, 1, n)
             r == SubSeq(s, n + 1, Len(s))
  <2>1. AddAndClaim(m, w, q, n) =
          [m EXCEPT !.fPending = r, !.fPendingIds = QueuedIds(r),
             !.fTaskPayloads  = [t \in TaskId |-> IF t \in QueuedIds(q) THEN PayIn(q, t) ELSE m.fTaskPayloads[t]],
             !.fRunning       = [t \in TaskId |-> IF t \in QueuedIds(c) THEN PayIn(c, t) ELSE m.fRunning[t]],
             !.fWorkerToTasks = [m.fWorkerToTasks EXCEPT ![w] = @ \cup QueuedIds(c)],
             !.fTaskToWorker  = [t \in TaskId |-> IF t \in QueuedIds(c) THEN w ELSE m.fTaskToWorker[t]]]
    BY <1>1 DEF AddAndClaim, IsManager, PayIn
  <2> HIDE DEF s, c, r
  <2>2. AddAndClaim(m, w, q, n) = Claimed(m, w, q, c, r)
    BY <2>1 DEF Claimed, Fill, Owns, Owned
  <2> QED BY <2>2 DEF c, r
<1> QED BY <1>3, <1>4

\* The loop of ClaimNextPendingForWorker calls, of which the last Len(q)
\* follow an AddPending.
LEMMA ClaimLoopMatches ==
  ASSUME NEW m, NEW w \in WorkerId, NEW q, Fresh(m, q),
         NEW k \in 0..Len(m.fPending), NEW n, n = k + Len(q)
  PROVE  ClaimLoop(m, w, q, n) = AddAndClaim(m, w, q, n)
<1> DEFINE H == Len(m.fPending)
           L == Len(q)
           Call(i, u) == ClaimNextPendingForWorker(
                           IF i <= n - L THEN u ELSE AddPending(u, q[i - n + L].id, q[i - n + L].payload), w)
           a(i) == IF i <= k THEN 0 ELSE i - k
           Is(f) == f = [i \in 0..n |-> IF i = 0 THEN m ELSE Call(i, f[i - 1])]
           f == CHOOSE f : Is(f)
           g == [i \in 0..n |-> ClaimState(m, w, q, a(i), i)]
<1>0. H \in Nat /\ L \in Nat /\ n \in Nat /\ k \in Nat /\ k <= H /\ n = k + L
  <2>1. Len(m.fPending) \in Nat /\ Len(q) \in Nat
    BY FreshFacts
  <2> QED BY <2>1
<1>1. ASSUME NEW i \in 0..n, i # 0
      PROVE  ClaimState(m, w, q, a(i), i) = Call(i, ClaimState(m, w, q, a(i - 1), i - 1))
  <2>0. i - 1 \in Nat /\ (i - 1) + 1 = i
    BY <1>0, <1>1
  <2>1. CASE i <= k
    <3>1. i <= n - L /\ a(i) = 0 /\ a(i - 1) = 0 /\ 0 \in 0..L /\ i - 1 < H + 0
      BY <1>0, <1>1, <2>1
    <3>2. ClaimNextPendingForWorker(ClaimState(m, w, q, 0, i - 1), w) = ClaimState(m, w, q, 0, (i - 1) + 1)
      BY <2>0, <3>1, StateClaim
    <3> QED BY <2>0, <3>1, <3>2
  <2>2. CASE ~(i <= k)
    <3> DEFINE j == i - 1 - k
    <3>1. ~(i <= n - L) /\ a(i) = j + 1 /\ a(i - 1) = j /\ j \in 0..L /\ j < L /\ i - n + L = j + 1
      BY <1>0, <1>1, <2>2
    <3>2. i - 1 \in 0..(H + j) /\ j + 1 \in 0..L /\ i - 1 < H + (j + 1)
      BY <1>0, <1>1, <2>2
    <3> HIDE DEF j, a
    <3>3. AddPending(ClaimState(m, w, q, j, i - 1), q[j + 1].id, q[j + 1].payload) = ClaimState(m, w, q, j + 1, i - 1)
      BY <3>1, <3>2, StateAdd
    <3>4. ClaimNextPendingForWorker(ClaimState(m, w, q, j + 1, i - 1), w) = ClaimState(m, w, q, j + 1, (i - 1) + 1)
      BY <2>0, <3>2, StateClaim
    <3> QED BY <2>0, <3>1, <3>3, <3>4
  <2> QED BY <2>1, <2>2
<1>2. \A i \in 0..n : g[i] = IF i = 0 THEN m ELSE Call(i, g[i - 1])
  <2> SUFFICES ASSUME NEW i \in 0..n PROVE g[i] = IF i = 0 THEN m ELSE Call(i, g[i - 1])
    OBVIOUS
  <2>1. CASE i = 0
    <3>1. a(i) = 0 /\ g[i] = ClaimState(m, w, q, a(i), i)
      BY <1>0, <2>1
    <3> HIDE DEF g, a
    <3> QED BY <2>1, <3>1, StateNone
  <2>2. CASE i # 0
    <3>1. i - 1 \in 0..n
      BY <1>0, <2>2
    <3>2. g[i] = ClaimState(m, w, q, a(i), i) /\ g[i - 1] = ClaimState(m, w, q, a(i - 1), i - 1)
      BY <3>1
    <3> HIDE DEF g, a, Call
    <3> QED BY <1>1, <2>2, <3>2
  <2> QED BY <2>1, <2>2
<1>3. Is(g)
  <2>1. g = [i \in 0..n |-> g[i]]
    OBVIOUS
  <2> HIDE DEF g, Call
  <2>2. g = [i \in 0..n |-> IF i = 0 THEN m ELSE Call(i, g[i - 1])]
    BY <1>2, <2>1
  <2> QED BY <2>2
<1>4. ClaimLoop(m, w, q, n) = f[n]
  BY DEF ClaimLoop
<1>5. Is(f)
  <2> HIDE DEF Is, g
  <2> QED BY <1>3
<1>6. \A i \in 0..n : f[i] = IF i = 0 THEN m ELSE Call(i, f[i - 1])
  <2> HIDE DEF f, Call
  <2> QED BY <1>5
<1>7. g[n] = AddAndClaim(m, w, q, n)
  <2>1. n \in 0..n /\ a(n) = L
    BY <1>0
  <2>2. g[n] = ClaimState(m, w, q, a(n), n)
    BY <2>1
  <2>3. ClaimState(m, w, q, L, n) = AddAndClaim(m, w, q, n)
    BY StateAll
  <2> HIDE DEF g, a
  <2> QED BY <2>1, <2>2, <2>3
<1> HIDE DEF f, g, Call
<1>8. f[0] = g[0]
  BY <1>0, <1>2, <1>6
<1>9. \A i \in 0..n : i < n /\ f[i] = g[i] => f[i + 1] = g[i + 1]
  <2> SUFFICES ASSUME NEW i \in 0..n, i < n, f[i] = g[i] PROVE f[i + 1] = g[i + 1]
    OBVIOUS
  <2>1. i + 1 \in 0..n /\ i + 1 # 0 /\ (i + 1) - 1 = i
    BY <1>0
  <2> QED BY <1>2, <1>6, <2>1
<1>10. f[n] = g[n]
  <2>1. n \in Nat
    BY <1>0
  <2>2. \A i \in 0..n : f[i] = g[i]
    BY ONLY <1>8, <1>9, <2>1, SameUpTo
  <2> QED BY <1>0, <2>2
<1> QED BY <1>4, <1>7, <1>10

\* An order of a set of tasks visits each of them once.
LEMMA AnyOrder ==
  ASSUME NEW S \in SUBSET TaskId, NEW q \in InAnyOrder(S), NEW L, L = Cardinality(S)
  PROVE  /\ L \in Nat /\ q \in [1..L -> S] /\ Len(q) = L /\ Range(q) = S
         /\ \A i, j \in 1..L : q[i] = q[j] => i = j
<1>1. L \in Nat
  BY ManagerConstants, FS_Subset, FS_CardinalityType
<1>2. q \in [1..L -> S] /\ (\A i, j \in 1..L : q[i] = q[j] => i = j) /\ (\A t \in S : \E i \in 1..L : q[i] = t)
  BY DEF InAnyOrder, Bijection, Injection, Surjection, IsInjective
<1>3. Len(q) = L
  BY <1>1, <1>2
<1>4. Range(q) = S
  BY <1>2 DEF Range
<1> QED BY <1>1, <1>2, <1>3, <1>4

\* New tasks, in any order and with any payloads, may be added.
LEMMA AnyFresh ==
  ASSUME NEW m, Consistent(m), NEW S \in SUBSET {t \in TaskId : ~TaskExists(m, t)},
         NEW o \in InAnyOrder(S), NEW payload \in [S -> TaskPayload],
         NEW q, q = [i \in 1..Len(o) |-> Entry(o[i], payload[o[i]])]
  PROVE  Fresh(m, q)
<1> DEFINE L == Cardinality(S)
<1>1. S \in SUBSET TaskId /\ \A t \in S : ~TaskExists(m, t)
  OBVIOUS
<1>2. L \in Nat /\ o \in [1..L -> S] /\ Len(o) = L /\ \A i, j \in 1..L : o[i] = o[j] => i = j
  BY <1>1, AnyOrder
<1> HIDE DEF L
<1>3. q = [i \in 1..L |-> Entry(o[i], payload[o[i]])]
  BY <1>2
<1>4. \A i \in 1..L : q[i] \in Entries /\ q[i].id = o[i] /\ o[i] \in S
  BY <1>1, <1>2, <1>3 DEF Entries, Entry
<1>5. q \in [1..L -> Entries]
  <2>1. \A i \in 1..L : Entry(o[i], payload[o[i]]) \in Entries
    BY <1>3, <1>4
  <2> QED BY <1>3, <2>1
<1>6. q \in Seq(Entries) /\ Len(q) = L
  BY <1>2, <1>5
<1> HIDE <1>3
<1>7. Distinct(q)
  BY ONLY <1>2, <1>4, <1>6 DEF Distinct
<1>8. \A t \in QueuedIds(q) : t \in S
  BY ONLY <1>4, <1>6 DEF QueuedIds
<1>9. m.fPendingIds = QueuedIds(m.fPending)
  BY DEF Consistent, IsIndexed
<1>10. \A t \in S : t \notin QueuedIds(m.fPending)
  BY ONLY <1>1, <1>9 DEF TaskExists
<1> QED BY <1>6, <1>7, <1>8, <1>10 DEF Fresh

\* NTaskStateManager.cxx, as the supervisor of NDimensionalExecutor.cxx calls
\* it: its loops of MarkDone, of RequeueTask and of AddPending with
\* ClaimNextPendingForWorker end in the states the supervisor's model gives
\* them (MarkAllDone, RequeueAll, AddAndClaim), whatever the number of tasks,
\* their order and their payloads.
THEOREM LoopsMatchCallsAlways == Spec => []LoopsMatchCalls
<1>1. ASSUME NEW m, Consistent(m)
      PROVE  \A S \in SUBSET Running(m) : \A q \in InAnyOrder(S) : DoneLoop(m, q) = MarkAllDone(m, S)
  <2> SUFFICES ASSUME NEW S \in SUBSET Running(m), NEW q \in InAnyOrder(S)
               PROVE  DoneLoop(m, q) = MarkAllDone(m, S)
    OBVIOUS
  <2> DEFINE L == Cardinality(S)
  <2>1. S \in SUBSET TaskId
    BY DEF Running
  <2>2. L \in Nat /\ q \in [1..L -> S] /\ Range(q) = S /\ \A i, j \in 1..L : q[i] = q[j] => i = j
    BY <2>1, AnyOrder
  <2>3. q \in [1..L -> TaskId]
    BY <2>1, <2>2
  <2> HIDE DEF L
  <2>4. DoneLoop(m, q) = MarkAllDone(m, Range(q))
    BY <1>1, <2>2, <2>3, DoneLoopMatches
  <2> QED BY <2>2, <2>4
<1>2. ASSUME NEW m, Consistent(m)
      PROVE  \A S \in SUBSET {t \in TaskId : CanRequeue(m, t)} : \A q \in InAnyOrder(S) :
               RequeueLoop(m, q) = RequeueAll(m, q)
  <2> SUFFICES ASSUME NEW S \in SUBSET {t \in TaskId : CanRequeue(m, t)}, NEW q \in InAnyOrder(S)
               PROVE  RequeueLoop(m, q) = RequeueAll(m, q)
    OBVIOUS
  <2> DEFINE L == Cardinality(S)
  <2>1. S \in SUBSET TaskId /\ \A t \in S : CanRequeue(m, t)
    OBVIOUS
  <2>2. L \in Nat /\ q \in [1..L -> S] /\ \A i, j \in 1..L : q[i] = q[j] => i = j
    BY <2>1, AnyOrder
  <2>3. q \in [1..L -> TaskId] /\ \A i \in 1..L : CanRequeue(m, q[i])
    BY <2>1, <2>2
  <2> HIDE DEF L
  <2> QED BY <1>2, <2>2, <2>3, RequeueLoopMatches
<1>3. ASSUME NEW m, Consistent(m)
      PROVE  \A w \in WorkerId, S \in SUBSET {t \in TaskId : ~TaskExists(m, t)} :
               \A o \in InAnyOrder(S), payload \in [S -> TaskPayload] :
               LET q == [i \in 1..Len(o) |-> Entry(o[i], payload[o[i]])]
               IN \A k \in 0..Len(m.fPending) :
                    ClaimLoop(m, w, q, k + Len(q)) = AddAndClaim(m, w, q, k + Len(q))
  <2> SUFFICES ASSUME NEW w \in WorkerId, NEW S \in SUBSET {t \in TaskId : ~TaskExists(m, t)},
                      NEW o \in InAnyOrder(S), NEW payload \in [S -> TaskPayload],
                      NEW q, q = [i \in 1..Len(o) |-> Entry(o[i], payload[o[i]])],
                      NEW k \in 0..Len(m.fPending)
               PROVE  ClaimLoop(m, w, q, k + Len(q)) = AddAndClaim(m, w, q, k + Len(q))
    OBVIOUS
  <2>1. Fresh(m, q)
    BY <1>3, AnyFresh
  <2>2. w \in WorkerId /\ k \in 0..Len(m.fPending)
    OBVIOUS
  <2> QED BY ONLY <2>1, <2>2, ClaimLoopMatches
<1>4. Consistent(mgr) => LoopsMatchCalls
  BY <1>1, <1>2, <1>3 DEF LoopsMatchCalls
<1> QED BY <1>4, ConsistentAlways, PTL

-----------------------------------------------------------------------------
(* The closed forms as steps of the supervisor: the object stays consistent,*)
(* and the tasks move between the buckets.                                 *)

\* The buckets and the assignments of n.
Looks(n, P, R, D, by) ==
  /\ Consistent(n)
  /\ n.fPendingIds = P /\ Running(n) = R /\ n.fDone = D
  /\ \A t \in TaskId : n.fTaskToWorker[t] = by[t]

\* A manager with these members is consistent.
LEMMA ConsistentFrom ==
  ASSUME NEW n, IsManager(n), IsIndexed(n), Matches(n.fPending, n.fTaskPayloads),
         \A t \in TaskId : n.fRunning[t] # NoPayload => n.fRunning[t] = n.fTaskPayloads[t],
         IsPartitioned(n), IsAssigned(n)
  PROVE  Consistent(n)
<1>1. KeepsPayloads(n)
  BY DEF KeepsPayloads, Matches, Running
<1> QED BY <1>1 DEF Consistent

LEMMA MarkAllDoneEffect ==
  ASSUME NEW m, Consistent(m), NEW S \in SUBSET Running(m), NEW n, n = MarkAllDone(m, S)
  PROVE  Looks(n, m.fPendingIds, Running(m) \ S, m.fDone \cup S,
               [t \in TaskId |-> IF t \in S THEN NoWorker ELSE m.fTaskToWorker[t]])
<1> DEFINE k == Release(m, S)
<1>1. /\ IsManager(m) /\ IsIndexed(m) /\ IsPartitioned(m) /\ IsAssigned(m) /\ KeepsPayloads(m)
      /\ S \in SUBSET TaskId
  BY DEF Consistent, Running
<1>2. /\ \A t \in TaskId : k.fRunning[t] = IF t \in S THEN NoPayload ELSE m.fRunning[t]
      /\ \A t \in TaskId : k.fTaskToWorker[t] = IF t \in S THEN NoWorker ELSE m.fTaskToWorker[t]
      /\ \A w \in WorkerId : k.fWorkerToTasks[w] = m.fWorkerToTasks[w] \ S
  BY <1>1, ReleaseFields
<1>3. /\ IsManager(n)
      /\ n.fPending = m.fPending /\ n.fPendingIds = m.fPendingIds
      /\ n.fDone = m.fDone \cup S /\ n.fTaskPayloads = m.fTaskPayloads
      /\ n.fRunning = k.fRunning /\ n.fTaskToWorker = k.fTaskToWorker
      /\ n.fWorkerToTasks = k.fWorkerToTasks
  BY <1>1, MarkAllDoneFields
<1> HIDE DEF k
<1>4. \A t \in TaskId : t \in S => t \in Running(m)
  OBVIOUS
<1>5. \A t \in TaskId : t \in Running(n) <=> t \in Running(m) /\ t \notin S
  BY ONLY <1>2, <1>3 DEF Running
<1>6. IsPartitioned(n)
  <2> SUFFICES ASSUME NEW t \in TaskId
               PROVE  /\ (n.fTaskPayloads[t] # NoPayload) <=>
                           (t \in n.fPendingIds \/ t \in Running(n) \/ t \in n.fDone)
                      /\ ~(t \in n.fPendingIds /\ t \in Running(n))
                      /\ ~(t \in n.fPendingIds /\ t \in n.fDone)
                      /\ ~(t \in Running(n) /\ t \in n.fDone)
    BY DEF IsPartitioned
  <2>1. /\ (m.fTaskPayloads[t] # NoPayload) <=> (t \in m.fPendingIds \/ t \in Running(m) \/ t \in m.fDone)
        /\ ~(t \in m.fPendingIds /\ t \in Running(m)) /\ ~(t \in m.fPendingIds /\ t \in m.fDone)
        /\ ~(t \in Running(m) /\ t \in m.fDone)
    BY ONLY <1>1, t \in TaskId DEF IsPartitioned
  <2> QED BY ONLY <1>3, <1>4, <1>5, <2>1, t \in TaskId
<1>7. IsAssigned(n)
  <2>1. \A t \in TaskId, w \in WorkerId : t \in n.fWorkerToTasks[w] <=> n.fTaskToWorker[t] = w
    BY ONLY <1>1, <1>2, <1>3, ManagerConstants DEF IsAssigned
  <2>2. \A t \in TaskId : n.fTaskToWorker[t] # NoWorker => t \in Running(n)
    BY ONLY <1>1, <1>2, <1>3, <1>5 DEF IsAssigned
  <2> QED BY ONLY <2>1, <2>2 DEF IsAssigned
<1>8. IsIndexed(n) /\ Matches(n.fPending, n.fTaskPayloads)
  BY ONLY <1>1, <1>3 DEF IsIndexed, KeepsPayloads, Matches
<1>9. \A t \in TaskId : n.fRunning[t] # NoPayload => n.fRunning[t] = n.fTaskPayloads[t]
  BY ONLY <1>1, <1>2, <1>3 DEF KeepsPayloads, Running
<1>10. Consistent(n)
  BY ONLY <1>3, <1>6, <1>7, <1>8, <1>9, ConsistentFrom
<1>11. Running(n) = Running(m) \ S
  BY <1>5 DEF Running
<1> QED BY <1>2, <1>3, <1>10, <1>11 DEF Looks

LEMMA RequeueAllEffect ==
  ASSUME NEW m, Consistent(m), NEW p \in Seq(TaskId), AllCanRequeue(m, p),
         \A i, j \in 1..Len(p) : p[i] = p[j] => i = j, NEW S, S = Range(p), NEW n, n = RequeueAll(m, p)
  PROVE  Looks(n, m.fPendingIds \cup S, Running(m) \ S, m.fDone \ S,
               [t \in TaskId |-> IF t \in S THEN NoWorker ELSE m.fTaskToWorker[t]])
<1> DEFINE k == Release(m, S)
           b == Back(m, p)
<1>1. /\ IsManager(m) /\ IsIndexed(m) /\ IsPartitioned(m) /\ IsAssigned(m) /\ KeepsPayloads(m)
      /\ S \in SUBSET TaskId /\ \A t \in S : CanRequeue(m, t)
  BY DEF Consistent, AllCanRequeue, Range
<1>2. /\ \A t \in TaskId : k.fRunning[t] = IF t \in S THEN NoPayload ELSE m.fRunning[t]
      /\ \A t \in TaskId : k.fTaskToWorker[t] = IF t \in S THEN NoWorker ELSE m.fTaskToWorker[t]
      /\ \A w \in WorkerId : k.fWorkerToTasks[w] = m.fWorkerToTasks[w] \ S
  BY <1>1, ReleaseFields
<1>3. /\ IsManager(n)
      /\ n.fPending = m.fPending \o b /\ n.fPendingIds = m.fPendingIds \cup S
      /\ n.fDone = m.fDone \ S /\ n.fTaskPayloads = m.fTaskPayloads
      /\ n.fRunning = k.fRunning /\ n.fTaskToWorker = k.fTaskToWorker
      /\ n.fWorkerToTasks = k.fWorkerToTasks
  BY <1>1, RequeueAllFields
<1>4. \A t \in S : t \in Running(m) \/ t \in m.fDone
  BY <1>1 DEF CanRequeue, IsDone
<1>5. \A t \in TaskId : t \in Running(n) <=> t \in Running(m) /\ t \notin S
  <2> HIDE DEF k, b
  <2> QED BY ONLY <1>2, <1>3 DEF Running
<1>6. /\ b \in Seq(Entries) /\ Len(b) = Len(p) /\ Len(p) \in Nat
      /\ \A i \in 1..Len(p) : b[i].id = p[i] /\ b[i].payload = m.fTaskPayloads[p[i]]
  <2>0. b \in Seq(Entries)
    BY <1>1, BackFacts
  <2>1. b \in Seq(Entries) /\ Len(b) = Len(p) /\ Len(p) \in Nat
    <3>1. Len(p) \in Nat
      OBVIOUS
    <3>2. DOMAIN b = 1..Len(p)
      BY DEF Back
    <3> HIDE DEF b
    <3> QED BY ONLY <2>0, <3>1, <3>2
  <2>2. \A i \in 1..Len(p) : b[i] = Entry(p[i], PayloadOf(m, p[i]))
    BY DEF Back
  <2>3. \A i \in 1..Len(p) : PayloadOf(m, p[i]) = m.fTaskPayloads[p[i]]
    <3>1. \A i \in 1..Len(p) : p[i] \in TaskId
      OBVIOUS
    <3>2. \A t \in TaskId : PayloadOf(m, t) = m.fTaskPayloads[t]
      BY ONLY <1>1 DEF PayloadOf, KeepsPayloads, Running
    <3> QED BY ONLY <3>1, <3>2
  <2> HIDE DEF b
  <2>4. \A x, y : Entry(x, y).id = x /\ Entry(x, y).payload = y
    BY DEF Entry
  <2>5. \A i \in 1..Len(p) : b[i].id = p[i] /\ b[i].payload = m.fTaskPayloads[p[i]]
    BY ONLY <2>2, <2>3, <2>4
  <2> QED BY ONLY <2>1, <2>5
<1>7. QueuedIds(b) = S
  <2>1. QueuedIds(b) = {b[i].id : i \in 1..Len(p)}
    BY <1>6 DEF QueuedIds
  <2>2. S = {p[i] : i \in 1..Len(p)}
    BY DEF Range
  <2> HIDE DEF b
  <2> QED BY <1>6, <2>1, <2>2
<1> HIDE DEF k, b
<1>8. Distinct(b) /\ Matches(b, m.fTaskPayloads)
  BY <1>6 DEF Distinct, Matches
<1>9. m.fPending \in Seq(Entries) /\ Distinct(m.fPending) /\ m.fPendingIds = QueuedIds(m.fPending)
  BY <1>1, MemberTypes DEF IsIndexed
<1>10. QueuedIds(m.fPending) \cap QueuedIds(b) = {}
  BY ONLY <1>1, <1>4, <1>7, <1>9 DEF IsPartitioned
<1>11. IsIndexed(n) /\ Matches(n.fPending, n.fTaskPayloads)
  <2>1. Matches(m.fPending, m.fTaskPayloads)
    BY <1>1 DEF KeepsPayloads, Matches
  <2> DEFINE c == m.fPending \o b
  <2>2. /\ Distinct(c) /\ QueuedIds(c) = m.fPendingIds \cup S /\ Matches(c, m.fTaskPayloads)
    BY <1>6, <1>7, <1>8, <1>9, <1>10, <2>1, ConcatQueue
  <2>3. n.fPending = c
    BY <1>3
  <2> HIDE DEF c
  <2> QED BY ONLY <1>3, <2>2, <2>3 DEF IsIndexed
<1>12. IsPartitioned(n)
  <2> SUFFICES ASSUME NEW t \in TaskId
               PROVE  /\ (n.fTaskPayloads[t] # NoPayload) <=>
                           (t \in n.fPendingIds \/ t \in Running(n) \/ t \in n.fDone)
                      /\ ~(t \in n.fPendingIds /\ t \in Running(n))
                      /\ ~(t \in n.fPendingIds /\ t \in n.fDone)
                      /\ ~(t \in Running(n) /\ t \in n.fDone)
    BY DEF IsPartitioned
  <2>1. /\ (m.fTaskPayloads[t] # NoPayload) <=> (t \in m.fPendingIds \/ t \in Running(m) \/ t \in m.fDone)
        /\ ~(t \in m.fPendingIds /\ t \in Running(m)) /\ ~(t \in m.fPendingIds /\ t \in m.fDone)
        /\ ~(t \in Running(m) /\ t \in m.fDone)
    BY ONLY <1>1, t \in TaskId DEF IsPartitioned
  <2>2. n.fPendingIds = m.fPendingIds \cup S /\ n.fDone = m.fDone \ S /\ n.fTaskPayloads = m.fTaskPayloads
    BY <1>3
  <2> QED BY ONLY <1>4, <1>5, <2>1, <2>2, t \in TaskId
<1>13. IsAssigned(n)
  <2>0. n.fTaskToWorker = k.fTaskToWorker /\ n.fWorkerToTasks = k.fWorkerToTasks
    BY <1>3
  <2>1. \A t \in TaskId, w \in WorkerId : t \in n.fWorkerToTasks[w] <=> n.fTaskToWorker[t] = w
    BY ONLY <1>1, <1>2, <2>0, ManagerConstants DEF IsAssigned
  <2>2. \A t \in TaskId : n.fTaskToWorker[t] # NoWorker => t \in Running(n)
    BY ONLY <1>1, <1>2, <2>0, <1>5 DEF IsAssigned
  <2> QED BY ONLY <2>1, <2>2 DEF IsAssigned
<1>14. \A t \in TaskId : n.fRunning[t] # NoPayload => n.fRunning[t] = n.fTaskPayloads[t]
  <2>0. n.fTaskPayloads = m.fTaskPayloads /\ n.fRunning = k.fRunning
    BY <1>3
  <2> QED BY ONLY <1>1, <1>2, <2>0 DEF KeepsPayloads, Running
<1>15. IsManager(n)
  BY <1>3
<1>16. Consistent(n)
  BY ONLY <1>11, <1>12, <1>13, <1>14, <1>15, ConsistentFrom
<1>17. Running(n) = Running(m) \ S
  BY <1>5 DEF Running
<1> QED BY <1>2, <1>3, <1>16, <1>17 DEF Looks

\* n is m after the new tasks of q were added and w claimed the first k tasks,
\* those in C, of the queue.
Claims(m, w, q, k, n, C) ==
  /\ Fresh(m, q) /\ \A t \in QueuedIds(q) : ~TaskExists(m, t)
  /\ k \in 0..Len(m.fPending \o q) /\ n = AddAndClaim(m, w, q, k)
  /\ C = {(m.fPending \o q)[i].id : i \in 1..k}

LEMMA AddAndClaimEffect ==
  ASSUME NEW m, NEW w \in WorkerId, NEW q, NEW k, NEW n, NEW C, Claims(m, w, q, k, n, C)
  PROVE  /\ Looks(n, (m.fPendingIds \cup QueuedIds(q)) \ C, Running(m) \cup C, m.fDone,
                  [t \in TaskId |-> IF t \in C THEN w ELSE m.fTaskToWorker[t]])
         /\ C \in SUBSET (m.fPendingIds \cup QueuedIds(q))
<1> SUFFICES ASSUME Fresh(m, q), \A t \in QueuedIds(q) : ~TaskExists(m, t),
                    NEW s, s = m.fPending \o q, k \in 0..Len(s), n = AddAndClaim(m, w, q, k),
                    C = {s[i].id : i \in 1..k}
             PROVE  /\ Looks(n, (m.fPendingIds \cup QueuedIds(q)) \ C, Running(m) \cup C, m.fDone,
                             [t \in TaskId |-> IF t \in C THEN w ELSE m.fTaskToWorker[t]])
                    /\ C \in SUBSET (m.fPendingIds \cup QueuedIds(q))
  BY DEF Claims
<1> DEFINE h == m.fPending
           c == Part(s, 1, k)
           r == Part(s, k + 1, Len(s))
           Q == QueuedIds(q)
<1>1. /\ IsManager(m) /\ h \in Seq(Entries) /\ Distinct(h) /\ s \in Seq(Entries) /\ Distinct(s)
      /\ Len(s) = Len(h) + Len(q) /\ Len(h) \in Nat /\ Len(q) \in Nat
  <2> HIDE DEF h
  <2>1. Fresh(m, q) /\ h = m.fPending /\ s = h \o q
    BY DEF h
  <2> QED BY ONLY <2>1, FreshFacts
<1>2. /\ IsIndexed(m) /\ IsPartitioned(m) /\ IsAssigned(m) /\ KeepsPayloads(m)
      /\ q \in Seq(Entries) /\ Distinct(q) /\ QueuedIds(h) \cap Q = {}
      /\ m.fPendingIds = QueuedIds(h)
  BY DEF Fresh, Consistent, IsIndexed
<1>3. n = Claimed(m, w, q, c, r)
  <2>1. ClaimState(m, w, q, Len(q), k) = n
    BY StateAll
  <2>2. SubSeq(q, 1, Len(q)) = q
    BY <1>2, SubSeqFull
  <2>3. ClaimState(m, w, q, Len(q), k) = Claimed(m, w, q, SubSeq(s, 1, k), SubSeq(s, k + 1, Len(s)))
    BY <1>1, <2>2 DEF ClaimState
  <2> QED BY <2>1, <2>3 DEF Part
<1>4. c \in Seq(Entries) /\ Distinct(c) /\ QueuedIds(c) = C /\ \A i \in 1..k : i \in 1..Len(s)
  <2>1. /\ 1 \in 1..(Len(s) + 1) /\ k \in 0..Len(s) /\ 1 <= k + 1
        /\ s \in Seq(Entries) /\ Distinct(s) /\ c = SubSeq(s, 1, k)
    BY <1>1 DEF Part
  <2> HIDE DEF c
  <2>2. /\ c \in Seq(Entries) /\ Distinct(c) /\ QueuedIds(c) = {s[i].id : i \in 1..k}
        /\ \A i \in 1..k : i \in 1..Len(s)
    BY ONLY <2>1, Slice
  <2> QED BY <2>2
<1>5. /\ r \in Seq(Entries) /\ Distinct(r) /\ QueuedIds(r) = {s[i].id : i \in (k + 1)..Len(s)}
      /\ \A i \in (k + 1)..Len(s) : i \in 1..Len(s)
  <2>1. /\ k + 1 \in 1..(Len(s) + 1) /\ Len(s) \in 0..Len(s) /\ k + 1 <= Len(s) + 1
        /\ s \in Seq(Entries) /\ Distinct(s) /\ r = SubSeq(s, k + 1, Len(s))
    BY <1>1 DEF Part
  <2> DEFINE x == k + 1
             y == Len(s)
  <2>2. x \in 1..(y + 1) /\ y \in 0..Len(s) /\ x <= y + 1 /\ r = SubSeq(s, x, y)
    BY <2>1
  <2> HIDE DEF r, x
  <2>3. /\ r \in Seq(Entries) /\ Distinct(r) /\ QueuedIds(r) = {s[i].id : i \in x..y}
        /\ \A i \in x..y : i \in 1..Len(s)
    BY ONLY <2>1, <2>2, Slice
  <2> QED BY <2>3 DEF x
<1>6. QueuedIds(s) = m.fPendingIds \cup Q /\ \A pay : Matches(h, pay) /\ Matches(q, pay) => Matches(s, pay)
  <2> HIDE DEF h, Q
  <2>1. s = h \o q /\ h \in Seq(Entries) /\ Distinct(h) /\ q \in Seq(Entries) /\ Distinct(q)
        /\ QueuedIds(h) \cap QueuedIds(q) = {}
    BY <1>1, <1>2 DEF h, Q
  <2>2. QueuedIds(s) = QueuedIds(h) \cup QueuedIds(q)
        /\ \A pay : Matches(h, pay) /\ Matches(q, pay) => Matches(s, pay)
    BY ONLY <2>1, ConcatQueue
  <2> QED BY <1>2, <2>2 DEF Q
<1> HIDE DEF h, c, r, Q
<1>7. C \in SUBSET QueuedIds(s) /\ QueuedIds(r) = QueuedIds(s) \ C
  <2>1. QueuedIds(s) = {s[i].id : i \in 1..Len(s)}
    BY DEF QueuedIds
  <2>2. C = {s[i].id : i \in 1..k} /\ Len(s) \in Nat /\ k \in 0..Len(s)
        /\ \A i, j \in 1..Len(s) : s[i].id = s[j].id => i = j
    BY <1>1 DEF Distinct
  <2>3. \A t : t \in QueuedIds(r) <=> t \in QueuedIds(s) /\ t \notin C
    <3> SUFFICES ASSUME NEW t PROVE t \in QueuedIds(r) <=> t \in QueuedIds(s) /\ t \notin C
      OBVIOUS
    <3>1. ASSUME t \in QueuedIds(r) PROVE t \in QueuedIds(s) /\ t \notin C
      <4>1. PICK i \in (k + 1)..Len(s) : t = s[i].id
        BY <1>5, <3>1
      <4>2. i \in 1..Len(s) /\ \A j \in 1..k : j \in 1..Len(s) /\ j # i
        BY <2>2, <4>1
      <4> QED BY <2>1, <2>2, <4>1, <4>2
    <3>2. ASSUME t \in QueuedIds(s), t \notin C PROVE t \in QueuedIds(r)
      <4>1. PICK i \in 1..Len(s) : t = s[i].id
        BY <2>1, <3>2
      <4>2. i \in (k + 1)..Len(s)
        <5>1. ~(i \in 1..k)
          BY <2>2, <3>2, <4>1
        <5> QED BY <2>2, <5>1
      <4> QED BY <1>5, <4>1, <4>2
    <3> QED BY <3>1, <3>2
  <2>4. C \in SUBSET QueuedIds(s)
    BY <1>4, <2>1, <2>2
  <2> QED BY <2>3, <2>4
<1>8. /\ IsManager(n) /\ n.fPending = r /\ n.fPendingIds = (m.fPendingIds \cup Q) \ C /\ n.fDone = m.fDone
      /\ n.fTaskPayloads = Fill(q, m.fTaskPayloads) /\ n.fRunning = Fill(c, m.fRunning)
      /\ n.fWorkerToTasks = Owns(c, w, m.fWorkerToTasks) /\ n.fTaskToWorker = Owned(c, w, m.fTaskToWorker)
  <2>1. /\ IsManager(m) /\ w \in WorkerId /\ q \in Seq(Entries) /\ Distinct(q)
        /\ c \in Seq(Entries) /\ Distinct(c) /\ r \in Seq(Entries) /\ n = Claimed(m, w, q, c, r)
    BY <1>1, <1>2, <1>3, <1>4, <1>5
  <2>2. /\ IsManager(n) /\ n.fPending = r /\ n.fPendingIds = QueuedIds(r) /\ n.fDone = m.fDone
        /\ n.fTaskPayloads = Fill(q, m.fTaskPayloads) /\ n.fRunning = Fill(c, m.fRunning)
        /\ n.fWorkerToTasks = Owns(c, w, m.fWorkerToTasks) /\ n.fTaskToWorker = Owned(c, w, m.fTaskToWorker)
    BY ONLY <2>1, ClaimedFields
  <2> QED BY <1>6, <1>7, <2>2
<1> HIDE <1>3
<1>9. /\ m.fWorkerToTasks \in [WorkerId -> SUBSET TaskId] /\ m.fPendingIds \in SUBSET TaskId
      /\ Q \in SUBSET TaskId /\ C \in SUBSET TaskId
  BY <1>1, <1>2, <1>4, MemberTypes, QueuedIdsType DEF Q
<1>10. /\ \A t \in TaskId : n.fTaskPayloads[t] = IF t \in Q THEN PayIn(q, t) ELSE m.fTaskPayloads[t]
       /\ \A t \in TaskId : n.fRunning[t] = IF t \in C THEN PayIn(c, t) ELSE m.fRunning[t]
       /\ \A t \in TaskId : n.fTaskToWorker[t] = IF t \in C THEN w ELSE m.fTaskToWorker[t]
       /\ \A v \in WorkerId : n.fWorkerToTasks[v] = IF v = w THEN m.fWorkerToTasks[v] \cup C ELSE m.fWorkerToTasks[v]
  BY <1>4, <1>8, <1>9 DEF Fill, Owned, Owns, Q
<1>11. Matches(s, n.fTaskPayloads)
  <2>1. Matches(q, n.fTaskPayloads)
    <3> SUFFICES ASSUME NEW i \in 1..Len(q) PROVE q[i].payload = n.fTaskPayloads[q[i].id]
      BY DEF Matches
    <3>1. q[i].id \in Q /\ PayIn(q, q[i].id) = q[i].payload
      BY <1>2, PayInFacts DEF Q, QueuedIds
    <3> QED BY <1>9, <1>10, <3>1
  <2>2. Matches(h, n.fTaskPayloads)
    <3> SUFFICES ASSUME NEW i \in 1..Len(h) PROVE h[i].payload = n.fTaskPayloads[h[i].id]
      BY DEF Matches
    <3>1. h[i].id \in QueuedIds(h)
      BY DEF QueuedIds
    <3>2. h[i].id \in TaskId /\ h[i].id \notin Q
      BY <1>2, <1>9, <3>1
    <3>3. h[i].payload = m.fTaskPayloads[h[i].id]
      BY <1>2 DEF KeepsPayloads, h
    <3> QED BY <1>10, <3>2, <3>3
  <2> QED BY <1>6, <2>1, <2>2
<1>12. Matches(r, n.fTaskPayloads) /\ Matches(c, n.fTaskPayloads)
  <2>1. \A i \in 1..Len(c) : \E j \in 1..Len(s) : c[i] = s[j]
    <3>1. s \in Seq(Entries) /\ k \in Nat /\ Len(s) \in Nat /\ k <= Len(s) /\ c = SubSeq(s, 1, k)
      BY <1>1 DEF c, Part
    <3>2. \A i \in 1..k : i \in 1..Len(s) /\ s[i] \in Entries
      BY ONLY <3>1
    <3>3. Len(c) = k /\ \A i \in 1..k : c[i] = s[i]
      BY ONLY <3>1, <3>2, SubSeqProperties
    <3> QED BY ONLY <3>2, <3>3
  <2>2. \A i \in 1..Len(r) : \E j \in 1..Len(s) : r[i] = s[j]
    <3>1. s \in Seq(Entries) /\ k \in Nat /\ Len(s) \in Nat /\ k <= Len(s) /\ r = SubSeq(s, k + 1, Len(s))
      BY <1>1 DEF r, Part
    <3>2. k + 1 \in Int /\ Len(s) \in Int /\ \A i \in (k + 1)..Len(s) : i \in 1..Len(s) /\ s[i] \in Entries
      BY ONLY <3>1
    <3>3. /\ Len(r) = IF k + 1 <= Len(s) THEN Len(s) - (k + 1) + 1 ELSE 0
          /\ \A i \in 1..(Len(s) - (k + 1) + 1) : r[i] = s[(k + 1) + i - 1]
      <4> DEFINE x == k + 1
                 y == Len(s)
      <4>1. /\ s \in Seq(Entries) /\ r = SubSeq(s, x, y) /\ x \in Int /\ y \in Int
            /\ \A i \in x..y : i \in 1..Len(s) /\ s[i] \in Entries
        BY ONLY <3>1, <3>2
      <4> HIDE DEF x, y
      <4>2. Len(r) = (IF x <= y THEN y - x + 1 ELSE 0) /\ \A i \in 1..(y - x + 1) : r[i] = s[x + i - 1]
        BY ONLY <4>1, SubSeqProperties
      <4> QED BY ONLY <4>2 DEF x, y
    <3>4. Len(r) = Len(s) - k
      BY ONLY <3>1, <3>3
    <3> HIDE <3>1
    <3>5. \A i \in 1..Len(r) : r[i] = s[(k + 1) + i - 1] /\ (k + 1) + i - 1 \in 1..Len(s)
      <4>1. k \in Nat /\ Len(s) \in Nat
        BY <3>1
      <4>2. \A i \in 1..Len(r) : i \in 1..(Len(s) - (k + 1) + 1) /\ (k + 1) + i - 1 \in 1..Len(s)
        BY ONLY <3>4, <4>1
      <4> QED BY ONLY <3>3, <4>2
    <3> QED BY ONLY <3>5
  <2>3. Matches(r, n.fTaskPayloads)
    BY <1>11, <2>2 DEF Matches
  <2>4. Matches(c, n.fTaskPayloads)
    BY <1>11, <2>1 DEF Matches
  <2> QED BY <2>3, <2>4
<1>13. \A t \in C : PayIn(c, t) = n.fTaskPayloads[t] /\ PayIn(c, t) \in TaskPayload
  <2> SUFFICES ASSUME NEW t \in C PROVE PayIn(c, t) = n.fTaskPayloads[t] /\ PayIn(c, t) \in TaskPayload
    OBVIOUS
  <2>1. PICK i \in 1..Len(c) : c[i].id = t
    BY <1>4 DEF QueuedIds
  <2>2. PayIn(c, t) = c[i].payload /\ c[i].payload \in TaskPayload
    BY <1>4, <2>1, PayInFacts, QueuedIdsType
  <2> QED BY <1>12, <2>1, <2>2 DEF Matches
<1>14. \A t \in Q : PayIn(q, t) \in TaskPayload
  <2> SUFFICES ASSUME NEW t \in Q PROVE PayIn(q, t) \in TaskPayload
    OBVIOUS
  <2>1. PICK i \in 1..Len(q) : q[i].id = t
    BY DEF QueuedIds, Q
  <2> QED BY <1>2, <2>1, PayInFacts, QueuedIdsType
<1>15. \A t \in TaskId : t \in Running(n) <=> t \in Running(m) \/ t \in C
  BY ONLY <1>10, <1>13, ManagerConstants DEF Running
<1>16. \A t \in TaskId : t \in Q => t \notin m.fPendingIds /\ t \notin Running(m) /\ t \notin m.fDone
  BY DEF TaskExists, IsDone, Q
<1>17. \A t \in TaskId : t \in C => t \in m.fPendingIds \/ t \in Q
  BY <1>6, <1>7
<1>18. \A t \in TaskId : t \in C => t \notin Running(m) /\ t \notin m.fDone
  BY ONLY <1>2, <1>16, <1>17 DEF IsPartitioned
<1>19. IsPartitioned(n)
  <2> SUFFICES ASSUME NEW t \in TaskId
               PROVE  /\ (n.fTaskPayloads[t] # NoPayload) <=>
                           (t \in n.fPendingIds \/ t \in Running(n) \/ t \in n.fDone)
                      /\ ~(t \in n.fPendingIds /\ t \in Running(n))
                      /\ ~(t \in n.fPendingIds /\ t \in n.fDone)
                      /\ ~(t \in Running(n) /\ t \in n.fDone)
    BY DEF IsPartitioned
  <2>1. /\ (m.fTaskPayloads[t] # NoPayload) <=> (t \in m.fPendingIds \/ t \in Running(m) \/ t \in m.fDone)
        /\ ~(t \in m.fPendingIds /\ t \in Running(m)) /\ ~(t \in m.fPendingIds /\ t \in m.fDone)
        /\ ~(t \in Running(m) /\ t \in m.fDone)
    BY ONLY <1>2, t \in TaskId DEF IsPartitioned
  <2>2. (n.fTaskPayloads[t] # NoPayload) <=> (t \in Q \/ m.fTaskPayloads[t] # NoPayload)
    BY ONLY <1>10, <1>14, ManagerConstants, t \in TaskId
  <2>3. n.fPendingIds = (m.fPendingIds \cup Q) \ C /\ n.fDone = m.fDone
    BY <1>8
  <2> QED BY ONLY <1>15, <1>16, <1>17, <1>18, <2>1, <2>2, <2>3, t \in TaskId
<1>20. IsAssigned(n)
  <2>1. ASSUME NEW t \in TaskId, NEW v \in WorkerId
        PROVE  t \in n.fWorkerToTasks[v] <=> n.fTaskToWorker[t] = v
    <3>1. /\ t \in m.fWorkerToTasks[v] <=> m.fTaskToWorker[t] = v
          /\ m.fTaskToWorker[t] # NoWorker => t \in Running(m)
          /\ v # NoWorker
      BY <1>2, ManagerConstants DEF IsAssigned
    <3>2. CASE t \in C
      <4>1. t \notin m.fWorkerToTasks[v]
        BY <1>18, <3>1, <3>2
      <4> QED BY <1>10, <3>2, <4>1
    <3>3. CASE t \notin C
      BY <1>10, <3>1, <3>3
    <3> QED BY <3>2, <3>3
  <2>2. \A t \in TaskId : n.fTaskToWorker[t] # NoWorker => t \in Running(n)
    BY ONLY <1>2, <1>10, <1>15 DEF IsAssigned
  <2> QED BY ONLY <2>1, <2>2 DEF IsAssigned
<1>21. \A t \in TaskId : n.fRunning[t] # NoPayload => n.fRunning[t] = n.fTaskPayloads[t]
  <2> SUFFICES ASSUME NEW t \in TaskId, n.fRunning[t] # NoPayload PROVE n.fRunning[t] = n.fTaskPayloads[t]
    OBVIOUS
  <2>1. CASE t \in C
    BY <1>10, <1>13, <2>1
  <2>2. CASE t \notin C
    <3>1. n.fRunning[t] = m.fRunning[t] /\ t \in Running(m)
      BY <1>10, <2>2 DEF Running
    <3>2. t \notin Q /\ m.fRunning[t] = m.fTaskPayloads[t]
      BY <1>2, <1>16, <3>1 DEF KeepsPayloads
    <3> QED BY <1>10, <3>1, <3>2
  <2> QED BY <2>1, <2>2
<1>22. IsIndexed(n) /\ Matches(n.fPending, n.fTaskPayloads)
  <2>1. n.fPending = r /\ n.fPendingIds = QueuedIds(r)
    BY <1>6, <1>7, <1>8
  <2> QED BY ONLY <1>5, <1>12, <2>1 DEF IsIndexed
<1>23. Consistent(n)
  <2>1. IsManager(n)
    BY <1>8
  <2> QED BY ONLY <1>19, <1>20, <1>21, <1>22, <2>1, ConsistentFrom
<1>24. Running(n) = Running(m) \cup C
  BY <1>9, <1>15 DEF Running
<1>25. n.fPendingIds = (m.fPendingIds \cup Q) \ C /\ n.fDone = m.fDone
  BY <1>8
<1>26. \A t \in TaskId : n.fTaskToWorker[t]
         = [x \in TaskId |-> IF x \in C THEN w ELSE m.fTaskToWorker[x]][t]
  BY <1>10
<1>27. C \in SUBSET (m.fPendingIds \cup Q)
  BY <1>6, <1>7
<1> QED BY ONLY <1>23, <1>24, <1>25, <1>26, <1>27 DEF Looks, Q
=============================================================================
