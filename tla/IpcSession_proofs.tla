------------------------- MODULE IpcSession_proofs --------------------------
(***************************************************************************)
(* The safety properties of a session, whatever the number of workers, the *)
(* tasks and the batch size, and whatever happens to the workers: first    *)
(* the books of the supervisor, then the queues, the workers' files, the   *)
(* replay history, the merge and the counters that gate dispatch.          *)
(***************************************************************************)
EXTENDS IpcSession, CommonLemmas, SequenceTheorems, FiniteSetTheorems, TLAPS

\* What is proved about the manager's loops.
MP == INSTANCE NTaskStateManager_proofs WITH WorkerId <- Worker, TaskPayload <- TaskId

-----------------------------------------------------------------------------
(* The inductive invariant *)

Managers ==
  [ fPending : Seq(M!Entries), fPendingIds : SUBSET TaskId,
    fRunning : [TaskId -> TaskId \cup {NoPayload}], fDone : SUBSET TaskId,
    fWorkerToTasks : [Worker -> SUBSET TaskId], fTaskToWorker : [TaskId -> Worker \cup {NoWorker}],
    fTaskPayloads : [TaskId -> TaskId \cup {NoPayload}] ]

Sups ==
  [ mgr : Managers, def : 0..Len(TasksOf), next : Nat, outstanding : Nat, outstandingMessages : Nat,
    acked : Nat, turn : Nat, batch : Nat \ {0},
    inFlight : [Worker -> Nat], history : [Worker -> SUBSET TaskId],
    counts : [Worker -> Nat], nProcessed : [Worker -> Nat],
    registered : SUBSET Worker, vec : Seq(Worker), seen : SUBSET Worker, failed : SUBSET Worker,
    pendingInit : SUBSET Worker, pendingReady : Seq(Worker), initing : Worker \cup {NoWorker},
    earlyDone : SUBSET Worker, doneWorkers : SUBSET Worker, shutdownWorkers : SUBSET Worker,
    reaped : SUBSET Worker ]

Messages ==
  [cmd : {"READY", "INIT", "TASK", "TASKB", "ACK", "ACKB", "DONE", "ERR"}, ids : Seq(TaskId)]
  \cup [cmd : {"SETDEF"}, def : Defs] \cup [cmd : {"STOP"}, abort : BOOLEAN]
  \cup [cmd : {"SHUTDOWN"}, reason : {"stop", "abort", "interrupted"}]

WorkerStates == {"off", "waitInit", "loop", "closing", "closed", "exited", "dead"}

Typed ==
  /\ toWorker \in [Worker -> Seq(Messages)] /\ toSup \in [Worker -> Seq(Messages)]
  /\ wpc \in [Worker -> WorkerStates] /\ sup \in Sups

\* No worker is in a list twice.
OneToOne(q) == \A i, j \in 1..Len(q) : q[i] = q[j] => i = j

\* A worker is at one stage of joining at most.
Stages(s) ==
  /\ OneToOne(s.vec) /\ OneToOne(s.pendingReady)
  /\ Range(s.vec) \subseteq s.registered
  /\ \A w \in Worker :
       /\ w \in Range(s.pendingReady) => w \notin Range(s.vec) /\ w # s.initing
       /\ w = s.initing => w \notin Range(s.vec)
       /\ w \in s.pendingInit => w \notin Range(s.vec) /\ w \notin Range(s.pendingReady) /\ w # s.initing
  /\ IF IsTcp THEN s.registered \subseteq Range(s.vec) ELSE s.failed = {}

\* The supervisor has heard of w, and not given it up.
Known(s, w) == w \in Range(s.vec) \/ w \in Range(s.pendingReady) \/ w \in s.pendingInit \/ w = s.initing

\* READY is the first message of a worker, and one the supervisor hears once;
\* p is the worker's control state, q what it has sent.
Heard(s, w, p, q) ==
  /\ p = "off" => q = << >> /\ ~Known(s, w)
  /\ \A i \in 1..Len(q) : q[i].cmd = "READY" => i = 1 /\ ~Known(s, w)

Joins == Stages(sup) /\ \A w \in Worker : Heard(sup, w, wpc[w], toSup[w])

\* The manager's five invariants.
Sound(m) ==
  M!IsManager(m) /\ M!IsIndexed(m) /\ M!IsPartitioned(m) /\ M!IsAssigned(m) /\ M!KeepsPayloads(m)

\* Task t is in the history of w only.
Only(s, w, t) == \A v \in Worker : t \in s.history[v] <=> v = w

Counted(s) ==
  /\ \A w \in Worker : s.counts[w] = Cardinality(s.mgr.fDone \cap s.history[w])
  /\ s.acked = Cardinality(s.mgr.fDone)
  /\ s.outstanding >= Cardinality(M!Running(s.mgr))
  /\ "send" \notin Faults => s.outstanding = Cardinality(M!Running(s.mgr))

\* A running or done task is in the history of one worker, and such a worker
\* is registered; cleaning: the tasks of a message that could not be sent are
\* still in the history of a worker about to be removed.
Replayable(s, cleaning) ==
  /\ \A t \in M!Running(s.mgr) : Only(s, s.mgr.fTaskToWorker[t], t) /\ s.mgr.fTaskToWorker[t] \in s.registered
  /\ \A t \in s.mgr.fDone : \E w \in s.registered : Only(s, w, t)
  /\ \A w \in Worker : \A t \in s.history[w] :
       /\ w \in s.registered
       /\ t \in M!Running(s.mgr) \/ t \in s.mgr.fDone \/ (cleaning /\ w \in s.failed)

\* The tasks from next on are new.
Numbered(s) ==
  /\ s.def # 0 => s.next <= TasksOf[s.def]
  /\ \A t \in TaskId : t >= s.next => ~M!TaskExists(s.mgr, t)

Books(s, cleaning) == Sound(s.mgr) /\ Counted(s) /\ Replayable(s, cleaning) /\ Numbered(s)

Inv ==
  /\ Typed /\ Joins /\ Books(sup, pc = "cleanup")
  /\ pc \in {"top", "dispatch", "cleanup", "receive", "idle"} => sup.def # 0

-----------------------------------------------------------------------------
(* Numbers and sets *)

LEMMA TwoNumbers ==
  ASSUME NEW a \in Int, NEW b \in Int
  PROVE  /\ Max({a, b}) \in {a, b} /\ Max({a, b}) >= a /\ Max({a, b}) >= b
         /\ Min({a, b}) \in {a, b} /\ Min({a, b}) <= a /\ Min({a, b}) <= b
<1>1. \E x \in {a, b} : \A y \in {a, b} : x >= y
  OBVIOUS
<1>2. \E x \in {a, b} : \A y \in {a, b} : x =< y
  OBVIOUS
<1> QED BY <1>1, <1>2 DEF Max, Min

LEMMA NotNegative ==
  ASSUME NEW x \in Int
  PROVE  Max({0, x}) \in Nat /\ Max({1, x}) \in Nat \ {0}
<1>1. ASSUME NEW a \in Int, NEW m, m = Max({a, x}) PROVE m \in Int /\ m >= a
  BY <1>1, TwoNumbers
<1>2. 0 \in Int /\ 1 \in Int
  OBVIOUS
<1>3. Max({0, x}) \in Int /\ Max({0, x}) >= 0 /\ Max({1, x}) \in Int /\ Max({1, x}) >= 1
  BY ONLY <1>1, <1>2
<1> QED BY <1>3

LEMMA Smaller ==
  ASSUME NEW a \in Int, NEW b \in Int
  PROVE  (a <= b => Min({a, b}) = a) /\ (b <= a => Min({a, b}) = b)
<1>1. Min({a, b}) \in {a, b} /\ Min({a, b}) <= a /\ Min({a, b}) <= b
  BY TwoNumbers
<1> DEFINE m == Min({a, b})
<1> HIDE DEF m
<1>2. m \in {a, b} /\ m <= a /\ m <= b
  BY <1>1 DEF m
<1>3. (a <= b => m = a) /\ (b <= a => m = b)
  BY <1>2
<1> QED BY <1>3 DEF m

LEMMA ThreeNumbers ==
  ASSUME NEW a \in Int, NEW b \in Int, NEW c \in Int
  PROVE  LET m == Min({a, b, c}) IN m \in {a, b, c} /\ m <= a /\ m <= b /\ m <= c
<1>1. \E x \in {a, b, c} : \A y \in {a, b, c} : x =< y
  OBVIOUS
<1> QED BY <1>1 DEF Min

LEMMA MaxTasks ==
  /\ Max(Range(TasksOf)) \in Nat
  /\ \A d \in Defs : TasksOf[d] \in Nat \ {0} /\ TasksOf[d] <= Max(Range(TasksOf))
<1> DEFINE L == Len(TasksOf)
           T == {i \in 0..L : \E b \in Nat : \A j \in 1..i : TasksOf[j] <= b}
<1>1. L \in Nat \ {0} /\ (\A d \in 1..L : TasksOf[d] \in Nat \ {0}) /\ DOMAIN TasksOf = 1..L
  BY ExecutorConstants
<1>2. 0 \in T
  BY <1>1
<1>3. ASSUME NEW i \in 0..L, i < L, i \in T PROVE i + 1 \in T
  <2>1. PICK b \in Nat : \A j \in 1..i : TasksOf[j] <= b
    BY <1>3
  <2>2. i + 1 \in 1..L /\ TasksOf[i + 1] \in Nat
    BY <1>1, <1>3
  <2>3. b + TasksOf[i + 1] \in Nat /\ \A j \in 1..(i + 1) : TasksOf[j] <= b + TasksOf[i + 1]
    BY <1>1, <2>1, <2>2
  <2>4. i + 1 \in 0..L /\ \E c \in Nat : \A j \in 1..(i + 1) : TasksOf[j] <= c
    <3>1. i + 1 \in 0..L
      BY <2>2
    <3> HIDE DEF L
    <3> QED BY ONLY <2>3, <3>1
  <2> HIDE DEF L
  <2> QED BY ONLY <2>4
<1>4. L \in T
  <2> HIDE DEF T, L
  <2>1. L \in Nat /\ 0 \in T /\ \A i \in 0..L : i < L /\ i \in T => i + 1 \in T
    BY <1>1, <1>2, <1>3
  <2>2. \A i \in 0..L : i \in T
    BY ONLY <2>1, Induction
  <2> QED BY <1>1, <2>2
<1>5. PICK b \in Nat : \A j \in 1..L : TasksOf[j] <= b
  BY <1>4
<1>6. /\ Range(TasksOf) \in SUBSET (0..b) /\ Range(TasksOf) # {}
      /\ \A d \in 1..L : TasksOf[d] \in Range(TasksOf)
  BY <1>1, <1>5 DEF Range
<1>7. \E m \in Range(TasksOf) : \A k \in Range(TasksOf) : k <= m
  BY <1>6, GreatestNat
<1>8. \E m \in Range(TasksOf) : \A k \in Range(TasksOf) : m >= k
  <2>1. \A x, y \in Range(TasksOf) : x <= y => y >= x
    BY <1>6
  <2> QED BY <1>7, <2>1
<1>9. Max(Range(TasksOf)) \in Range(TasksOf) /\ \A k \in Range(TasksOf) : Max(Range(TasksOf)) >= k
  BY <1>8 DEF Max
<1> QED BY <1>1, <1>6, <1>9 DEF Defs

\* The numbers of a definition's tasks are task identifiers.
LEMMA Tasks ==
  /\ TaskId \subseteq Nat /\ IsFiniteSet(TaskId)
  /\ NoWorker \notin Worker /\ NoPayload \notin TaskId
  /\ \A d \in Defs : TasksOf[d] \in Nat \ {0} /\ \A t \in Nat : t < TasksOf[d] => t \in TaskId
<1>1. Max(Range(TasksOf)) \in Nat
  BY MaxTasks
<1>2. IsFiniteSet(TaskId)
  BY <1>1, FS_Interval DEF TaskId
<1> QED BY <1>1, <1>2, MaxTasks, ExecutorConstants DEF TaskId

LEMMA SubsetFacts ==
  ASSUME NEW S \in SUBSET TaskId
  PROVE  IsFiniteSet(S) /\ Cardinality(S) \in Nat /\ (Cardinality(S) = 0 <=> S = {})
BY Tasks, FS_Subset, FS_CardinalityType, FS_EmptySet

\* Moving tasks between sets moves their number.
LEMMA SplitCount ==
  ASSUME NEW S \in SUBSET TaskId, NEW H \in SUBSET TaskId
  PROVE  /\ Cardinality(S \ H) = Cardinality(S) - Cardinality(S \cap H)
         /\ Cardinality(S \cap H) <= Cardinality(S)
<1>1. /\ S \ H \in SUBSET TaskId /\ S \cap H \in SUBSET TaskId
      /\ (S \ H) \cup (S \cap H) = S /\ (S \ H) \cap (S \cap H) = {}
  OBVIOUS
<1>2. /\ IsFiniteSet(S \ H) /\ IsFiniteSet(S \cap H) /\ Cardinality(S) \in Nat
      /\ Cardinality(S \ H) \in Nat /\ Cardinality(S \cap H) \in Nat
  BY <1>1, SubsetFacts
<1>3. Cardinality(S) = Cardinality(S \ H) + Cardinality(S \cap H) - 0
  <2>1. Cardinality((S \ H) \cup (S \cap H))
          = Cardinality(S \ H) + Cardinality(S \cap H) - Cardinality((S \ H) \cap (S \cap H))
    BY <1>2, FS_Union
  <2> QED BY <1>1, <2>1, FS_EmptySet
<1> QED BY <1>2, <1>3

LEMMA JoinCount ==
  ASSUME NEW S \in SUBSET TaskId, NEW H \in SUBSET TaskId, S \cap H = {}
  PROVE  Cardinality(S \cup H) = Cardinality(S) + Cardinality(H)
<1>1. IsFiniteSet(S) /\ IsFiniteSet(H) /\ Cardinality(S) \in Nat /\ Cardinality(H) \in Nat
  BY SubsetFacts
<1>2. Cardinality(S \cup H) = Cardinality(S) + Cardinality(H) - Cardinality(S \cap H)
  BY <1>1, FS_Union
<1>3. Cardinality(S \cap H) = 0
  BY FS_EmptySet
<1> QED BY <1>1, <1>2, <1>3

\* Sorted lists a set of tasks, each once.
LEMMA SortedLists ==
  ASSUME NEW S \in SUBSET TaskId, NEW p, p = Sorted(S)
  PROVE  p \in Seq(TaskId) /\ Range(p) = S /\ \A i, j \in 1..Len(p) : p[i] = p[j] => i = j
<1> DEFINE N == Cardinality(S)
           Below(x) == {y \in S : y < x}
           rank == [x \in S |-> Cardinality(Below(x))]
<1>1. S \in SUBSET Nat /\ IsFiniteSet(S) /\ N \in Nat
  BY SubsetFacts, Tasks
<1>2. ASSUME NEW x \in S PROVE Cardinality(Below(x)) \in 0..(N - 1)
  <2>0. x \in Nat /\ ~(x < x)
    BY <1>1
  <2>1. /\ Below(x) \in SUBSET TaskId /\ x \notin Below(x) /\ Below(x) \cup {x} \in SUBSET S
    BY <2>0
  <2>2. IsFiniteSet(Below(x)) /\ Cardinality(Below(x)) \in Nat
    BY <2>1, SubsetFacts
  <2>3. Cardinality(Below(x) \cup {x}) = Cardinality(Below(x)) + 1
    BY <2>1, <2>2, FS_AddElement
  <2>4. Cardinality(Below(x) \cup {x}) <= N
    BY <1>1, <2>1, FS_Subset
  <2> HIDE DEF N, Below
  <2> QED BY <1>1, <2>2, <2>3, <2>4
<1>3. ASSUME NEW x \in S, NEW y \in S, x < y PROVE Cardinality(Below(x)) < Cardinality(Below(y))
  <2>0. ~(x < x) /\ \A z \in S : z < x => z < y
    BY <1>1, <1>3
  <2>1. /\ Below(y) \in SUBSET TaskId /\ x \notin Below(x) /\ Below(x) \cup {x} \in SUBSET Below(y)
        /\ Below(x) \in SUBSET TaskId
    BY <1>3, <2>0
  <2>2. IsFiniteSet(Below(x)) /\ IsFiniteSet(Below(y))
        /\ Cardinality(Below(x)) \in Nat /\ Cardinality(Below(y)) \in Nat
    BY <2>1, SubsetFacts
  <2>3. Cardinality(Below(x) \cup {x}) = Cardinality(Below(x)) + 1
    BY <2>1, <2>2, FS_AddElement
  <2>4. Cardinality(Below(x) \cup {x}) <= Cardinality(Below(y))
    BY <2>1, <2>2, FS_Subset
  <2> HIDE DEF Below
  <2> QED BY <2>2, <2>3, <2>4
<1>4. rank \in Injection(S, 0..(N - 1))
  <2>1. rank \in [S -> 0..(N - 1)]
    BY <1>2
  <2>2. ASSUME NEW x \in S, NEW y \in S, rank[x] = rank[y] PROVE x = y
    <3>1. ~(x < y) /\ ~(y < x)
      <4>1. Cardinality(Below(x)) = Cardinality(Below(y)) /\ Cardinality(Below(x)) \in Nat
        BY <1>2, <2>2
      <4> HIDE DEF Below
      <4> QED BY <1>3, <4>1
    <3> QED BY <1>1, <3>1
  <2> QED BY <2>1, <2>2 DEF Injection, IsInjective
<1>5. rank \in Surjection(S, 0..(N - 1))
  <2>1. IsFiniteSet(0..(N - 1)) /\ Cardinality(0..(N - 1)) = N
    BY <1>1, FS_Interval
  <2> QED BY <1>4, <2>1, FS_Injection
<1>6. ASSUME NEW i \in 1..N PROVE \E x \in S : Cardinality(Below(x)) = i - 1
  <2>1. i - 1 \in 0..(N - 1)
    BY <1>1
  <2>2. \E x \in S : rank[x] = i - 1
    BY <1>5, <2>1 DEF Surjection
  <2> QED BY <2>2
<1>7. p = [i \in 1..N |-> CHOOSE x \in S : Cardinality(Below(x)) = i - 1]
  BY DEF Sorted
<1> HIDE DEF N, Below, rank
<1>8. ASSUME NEW i \in 1..N PROVE p[i] \in S /\ Cardinality(Below(p[i])) = i - 1
  BY <1>6, <1>7
<1>9. p \in Seq(TaskId) /\ Len(p) = N /\ DOMAIN p = 1..N
  <2>1. DOMAIN p = 1..N
    BY <1>7
  <2>2. p \in [1..N -> TaskId]
    BY <1>7, <1>8
  <2> HIDE <1>7
  <2> QED BY ONLY <1>1, <2>1, <2>2
<1>10. \A i, j \in 1..N : p[i] = p[j] => i = j
  BY <1>1, <1>8
<1>11. ASSUME NEW x \in S PROVE \E i \in 1..N : p[i] = x
  <2> DEFINE i == Cardinality(Below(x)) + 1
  <2>1. i \in 1..N /\ i - 1 = Cardinality(Below(x))
    BY <1>1, <1>2
  <2>2. p[i] \in S /\ Cardinality(Below(p[i])) = Cardinality(Below(x))
    BY <1>8, <2>1
  <2>3. rank[p[i]] = rank[x]
    BY <2>2 DEF rank
  <2>4. p[i] = x
    BY <1>4, <2>2, <2>3 DEF Injection, IsInjective
  <2> QED BY <2>1, <2>4
<1> QED BY <1>8, <1>9, <1>10, <1>11 DEF Range

-----------------------------------------------------------------------------
(* The manager's loops, as the supervisor sees them *)

\* n is sound, with these buckets and owners.
Sees(n, P, R, D, by) ==
  /\ Sound(n)
  /\ n.fPendingIds = P /\ M!Running(n) = R /\ n.fDone = D
  /\ \A t \in TaskId : n.fTaskToWorker[t] = by[t]

LEMMA SoundIsConsistent == ASSUME NEW m PROVE Sound(m) <=> MP!Consistent(m)
BY DEF Sound, MP!Consistent, M!IsManager, MP!IsManager, M!IsIndexed, MP!IsIndexed, M!IsPartitioned,
       MP!IsPartitioned, M!IsAssigned, MP!IsAssigned, M!KeepsPayloads, MP!KeepsPayloads, M!Running,
       MP!Running, M!QueuedIds, MP!QueuedIds, M!Distinct, MP!Distinct, M!Entries, MP!Entries

LEMMA SeesIsLooks ==
  ASSUME NEW n, NEW P, NEW R, NEW D, NEW by
  PROVE  Sees(n, P, R, D, by) <=> MP!Looks(n, P, R, D, by)
BY SoundIsConsistent DEF Sees, MP!Looks, M!Running, MP!Running

LEMMA SoundTypes ==
  ASSUME NEW m, Sound(m)
  PROVE  /\ m \in Managers /\ m.fPending \in Seq(M!Entries) /\ m.fPendingIds \in SUBSET TaskId
         /\ m.fDone \in SUBSET TaskId /\ M!Running(m) \in SUBSET TaskId
         /\ m.fTaskToWorker \in [TaskId -> Worker \cup {NoWorker}]
         /\ m.fWorkerToTasks \in [Worker -> SUBSET TaskId]
         /\ \A t \in M!Running(m) : t \notin m.fDone
BY DEF Sound, M!IsManager, Managers, M!Running, M!IsPartitioned

LEMMA ManagerOK == MP!ManagerConstants
<1>1. MP!IsFiniteSet(TaskId)
  <2>1. IsFiniteSet(TaskId)
    BY Tasks
  <2> QED BY <2>1 DEF IsFiniteSet, MP!IsFiniteSet
<1> QED BY <1>1, Tasks DEF MP!ManagerConstants

LEMMA EmptySees == Sees(M!Empty, {}, {}, {}, [t \in TaskId |-> NoWorker])
<1>1. MP!Consistent(MP!Empty)
  BY ManagerOK, MP!EmptyConsistent
<1>2. M!Empty = MP!Empty
  BY DEF M!Empty, MP!Empty
<1> QED BY <1>1, <1>2, SoundIsConsistent DEF Sees, M!Empty, M!Running

LEMMA MarkAllDoneSees ==
  ASSUME NEW m, Sound(m), NEW S \in SUBSET M!Running(m)
  PROVE  Sees(M!MarkAllDone(m, S), m.fPendingIds, M!Running(m) \ S, m.fDone \cup S,
              [t \in TaskId |-> IF t \in S THEN NoWorker ELSE m.fTaskToWorker[t]])
<1> DEFINE n == MP!MarkAllDone(m, S)
<1>1. MP!Consistent(m) /\ S \in SUBSET MP!Running(m) /\ n = MP!MarkAllDone(m, S)
  BY SoundIsConsistent DEF M!Running, MP!Running
<1>2. M!MarkAllDone(m, S) = n
  BY DEF M!MarkAllDone, MP!MarkAllDone, M!Release, MP!Release
<1> HIDE DEF n
<1>3. MP!Looks(n, m.fPendingIds, MP!Running(m) \ S, m.fDone \cup S,
               [t \in TaskId |-> IF t \in S THEN NoWorker ELSE m.fTaskToWorker[t]])
  BY ONLY <1>1, ManagerOK, MP!MarkAllDoneEffect
<1>4. M!Running(m) = MP!Running(m)
  BY DEF M!Running, MP!Running
<1> QED BY <1>2, <1>3, <1>4, SeesIsLooks

\* The tasks of S wait, and run nowhere.
Requeues(n, m, S) ==
  Sees(n, m.fPendingIds \cup S, M!Running(m) \ S, m.fDone \ S,
       [t \in TaskId |-> IF t \in S THEN NoWorker ELSE m.fTaskToWorker[t]])

LEMMA RequeueAllSees ==
  ASSUME NEW m, Sound(m), NEW p \in Seq(TaskId), \A i \in 1..Len(p) : M!CanRequeue(m, p[i]),
         \A i, j \in 1..Len(p) : p[i] = p[j] => i = j, NEW S, S = Range(p)
  PROVE  Requeues(M!RequeueAll(m, p), m, S)
<1> DEFINE n == MP!RequeueAll(m, p)
<1>1. MP!Consistent(m) /\ n = MP!RequeueAll(m, p) /\ MP!AllCanRequeue(m, p)
  BY SoundIsConsistent DEF MP!AllCanRequeue, M!CanRequeue, MP!CanRequeue, M!Running, MP!Running,
                           M!IsDone, MP!IsDone
<1>2. M!RequeueAll(m, p) = n
  BY DEF M!RequeueAll, MP!RequeueAll, M!Release, MP!Release, M!Entry, MP!Entry, M!Running, MP!Running,
         M!Range, MP!Range
<1>3. S = MP!Range(p)
  BY DEF Range, MP!Range
<1> HIDE DEF n
<1>4. p \in Seq(TaskId) /\ \A i, j \in 1..Len(p) : p[i] = p[j] => i = j
  OBVIOUS
<1>5. MP!Looks(n, m.fPendingIds \cup S, MP!Running(m) \ S, m.fDone \ S,
               [t \in TaskId |-> IF t \in S THEN NoWorker ELSE m.fTaskToWorker[t]])
  BY ONLY <1>1, <1>3, <1>4, ManagerOK, MP!RequeueAllEffect
<1>6. M!Running(m) = MP!Running(m)
  BY DEF M!Running, MP!Running
<1> QED BY <1>2, <1>5, <1>6, SeesIsLooks DEF Requeues

\* The first k tasks of a queue.
Front(q, k) == {q[i].id : i \in 1..k}

\* q holds new tasks, and C are the first k of the queue with them.
CanClaim(m, q, k, C) ==
  /\ Sound(m) /\ q \in Seq(M!Entries) /\ M!Distinct(q) /\ \A i \in 1..Len(q) : ~M!TaskExists(m, q[i].id)
  /\ k \in 0..Len(m.fPending \o q) /\ C = Front(m.fPending \o q, k)

\* Afterwards they run on w.
Claimed(n, m, w, q, C) ==
  Sees(n, (m.fPendingIds \cup M!QueuedIds(q)) \ C, M!Running(m) \cup C, m.fDone,
       [t \in TaskId |-> IF t \in C THEN w ELSE m.fTaskToWorker[t]])

LEMMA AddAndClaimSees ==
  ASSUME NEW m, NEW w \in Worker, NEW q, NEW k, NEW C, CanClaim(m, q, k, C)
  PROVE  Claimed(M!AddAndClaim(m, w, q, k), m, w, q, C)
<1> DEFINE n == MP!AddAndClaim(m, w, q, k)
<1>0. /\ Sound(m) /\ q \in Seq(M!Entries) /\ M!Distinct(q) /\ \A i \in 1..Len(q) : ~M!TaskExists(m, q[i].id)
      /\ k \in 0..Len(m.fPending \o q) /\ C = {(m.fPending \o q)[i].id : i \in 1..k}
  BY DEF CanClaim, Front
<1>1. MP!Fresh(m, q)
  <2>1. MP!Consistent(m) /\ q \in Seq(MP!Entries) /\ MP!Distinct(q)
    BY <1>0, SoundIsConsistent DEF M!Entries, MP!Entries, M!Distinct, MP!Distinct
  <2>2. m.fPendingIds = MP!QueuedIds(m.fPending)
    BY <2>1 DEF MP!Consistent, MP!IsIndexed
  <2>3. \A i \in 1..Len(q) : q[i].id \notin m.fPendingIds
    BY <1>0 DEF M!TaskExists
  <2>4. MP!QueuedIds(m.fPending) \cap MP!QueuedIds(q) = {}
    BY <2>2, <2>3 DEF MP!QueuedIds
  <2> QED BY <2>1, <2>4 DEF MP!Fresh
<1>2. \A t \in MP!QueuedIds(q) : ~MP!TaskExists(m, t)
  <2>1. \A t : M!TaskExists(m, t) <=> MP!TaskExists(m, t)
    BY DEF M!TaskExists, MP!TaskExists, M!Running, MP!Running, M!IsDone, MP!IsDone
  <2> QED BY <1>0, <2>1 DEF MP!QueuedIds
<1>3. M!AddAndClaim(m, w, q, k) = n
  BY DEF M!AddAndClaim, MP!AddAndClaim, M!QueuedIds, MP!QueuedIds
<1>4. w \in Worker /\ MP!Claims(m, w, q, k, n, C)
  BY <1>0, <1>1, <1>2 DEF MP!Claims
<1> HIDE DEF n
<1>5. /\ MP!Looks(n, (m.fPendingIds \cup MP!QueuedIds(q)) \ C, MP!Running(m) \cup C, m.fDone,
                  [t \in TaskId |-> IF t \in C THEN w ELSE m.fTaskToWorker[t]])
      /\ C \in SUBSET (m.fPendingIds \cup MP!QueuedIds(q))
  BY ONLY <1>4, ManagerOK, MP!AddAndClaimEffect
<1>6. M!Running(m) = MP!Running(m) /\ M!QueuedIds(q) = MP!QueuedIds(q)
  BY DEF M!Running, MP!Running, M!QueuedIds, MP!QueuedIds
<1> QED BY <1>3, <1>5, <1>6, SeesIsLooks DEF Claimed

-----------------------------------------------------------------------------
(* The list of workers *)

LEMMA EraseRemoves ==
  ASSUME NEW q \in Seq(Worker), OneToOne(q), NEW w \in Worker
  PROVE  Erase(q, w) \in Seq(Worker) /\ OneToOne(Erase(q, w)) /\ Range(Erase(q, w)) = Range(q) \ {w}
<1>1. CASE w \notin Range(q)
  BY <1>1 DEF Erase
<1>2. CASE w \in Range(q)
  <2> DEFINE First(k) == q[k] = w /\ \A j \in 1..(k - 1) : q[j] # w
             k == CHOOSE k \in 1..Len(q) : First(k)
             e == Erase(q, w)
  <2>1. Len(q) \in Nat /\ Range(q) = {q[i] : i \in 1..Len(q)} /\ \A i \in 1..Len(q) : q[i] \in Worker
    BY DEF Range
  <2>2. PICK l \in 1..Len(q) : q[l] = w
    BY <1>2, <2>1
  <2>3. First(l)
    BY <2>1, <2>2 DEF OneToOne
  <2>4. k \in 1..Len(q) /\ q[k] = w
    <3>1. k \in 1..Len(q) /\ First(k)
      <4> HIDE DEF First
      <4> QED BY <2>3
    <3> QED BY <3>1
  <2>5. e = [i \in 1..(Len(q) - 1) |-> IF i < k THEN q[i] ELSE q[i + 1]]
    BY <1>2 DEF Erase, M!Without
  <2> HIDE DEF k, e
  <2>6. \A i \in 1..(Len(q) - 1) : i \in 1..Len(q) /\ i + 1 \in 1..Len(q)
    BY <2>1
  <2>7. e \in [1..(Len(q) - 1) -> Worker] /\ Len(q) - 1 \in Nat
    BY <2>1, <2>4, <2>5, <2>6
  <2>8. e \in Seq(Worker) /\ Len(e) = Len(q) - 1
    BY ONLY <2>7
  <2>9. \A i \in 1..(Len(q) - 1) : e[i] = IF i < k THEN q[i] ELSE q[i + 1]
    BY <2>5
  <2> HIDE <2>5
  <2>10. OneToOne(e)
    BY ONLY <2>1, <2>4, <2>6, <2>8, <2>9, OneToOne(q) DEF OneToOne
  <2>11. ASSUME NEW v PROVE v \in Range(e) <=> v \in Range(q) /\ v # w
    <3>1. v \in Range(e) <=> \E i \in 1..(Len(q) - 1) : v = e[i]
      BY <2>7 DEF Range
    <3>2. ASSUME NEW i \in 1..(Len(q) - 1), v = e[i] PROVE v \in Range(q) /\ v # w
      <4>1. i \in 1..Len(q) /\ i + 1 \in 1..Len(q) /\ (i < k => i # k) /\ (~(i < k) => i + 1 # k)
        BY <2>1, <2>4, <2>6
      <4> QED BY <2>1, <2>4, <2>9, <3>2, <4>1 DEF OneToOne
    <3>3. ASSUME NEW j \in 1..Len(q), v = q[j], v # w PROVE \E i \in 1..(Len(q) - 1) : v = e[i]
      <4>1. CASE j < k
        <5>1. j \in 1..(Len(q) - 1)
          BY <2>1, <2>4, <4>1
        <5> QED BY <2>9, <3>3, <4>1, <5>1
      <4>2. CASE k < j
        <5>1. j - 1 \in 1..(Len(q) - 1) /\ ~(j - 1 < k) /\ (j - 1) + 1 = j
          BY <2>1, <2>4, <4>2
        <5> QED BY <2>9, <3>3, <5>1
      <4> QED BY <2>4, <3>3, <4>1, <4>2
    <3> QED BY <2>1, <3>1, <3>2, <3>3
  <2> QED BY <2>8, <2>10, <2>11 DEF e
<1> QED BY <1>1, <1>2

LEMMA AppendWorker ==
  ASSUME NEW q \in Seq(Worker), OneToOne(q), NEW w \in Worker, w \notin Range(q)
  PROVE  Append(q, w) \in Seq(Worker) /\ OneToOne(Append(q, w)) /\ Range(Append(q, w)) = Range(q) \cup {w}
<1>1. /\ Len(q) \in Nat /\ Len(Append(q, w)) = Len(q) + 1 /\ Append(q, w) \in Seq(Worker)
      /\ \A i \in 1..Len(q) : Append(q, w)[i] = q[i] /\ q[i] # w
      /\ Append(q, w)[Len(q) + 1] = w
  BY DEF Range
<1>2. OneToOne(Append(q, w))
  BY <1>1 DEF OneToOne
<1>3. /\ Range(q) = {q[i] : i \in 1..Len(q)}
      /\ Range(Append(q, w)) = {Append(q, w)[i] : i \in 1..(Len(q) + 1)}
  BY <1>1 DEF Range
<1>4. \A v : v \in Range(Append(q, w)) <=> v \in Range(q) \/ v = w
  <2> DEFINE a == Append(q, w)
  <2> HIDE DEF a
  <2>1. /\ Range(q) = {q[i] : i \in 1..Len(q)} /\ Range(a) = {a[i] : i \in 1..(Len(q) + 1)}
        /\ (\A i \in 1..Len(q) : a[i] = q[i]) /\ a[Len(q) + 1] = w /\ Len(q) \in Nat
    BY <1>1, <1>3 DEF a
  <2>2. \A v : v \in Range(a) <=> v \in Range(q) \/ v = w
    BY ONLY <2>1
  <2> QED BY <2>2 DEF a
<1> QED BY <1>1, <1>2, <1>4

LEMMA TailWorkers ==
  ASSUME NEW q \in Seq(Worker), OneToOne(q), q # << >>
  PROVE  /\ Head(q) \in Worker /\ Tail(q) \in Seq(Worker) /\ OneToOne(Tail(q))
         /\ Range(Tail(q)) = Range(q) \ {Head(q)} /\ Head(q) \in Range(q)
<1> DEFINE t == Tail(q)
<1>1. /\ Len(q) \in Nat \ {0} /\ Head(q) = q[1] /\ t \in Seq(Worker) /\ Len(t) = Len(q) - 1
      /\ \A i \in 1..Len(t) : t[i] = q[i + 1]
      /\ \A i \in 1..Len(q) : q[i] \in Worker
  OBVIOUS
<1> HIDE DEF t
<1>2. Range(q) = {q[i] : i \in 1..Len(q)} /\ Range(t) = {t[i] : i \in 1..Len(t)}
  BY <1>1 DEF Range
<1>3. OneToOne(t)
  BY <1>1 DEF OneToOne
<1>4. ASSUME NEW v PROVE v \in Range(t) <=> v \in Range(q) /\ v # Head(q)
  <2>1. ASSUME NEW i \in 1..Len(t), v = t[i] PROVE v \in Range(q) /\ v # Head(q)
    <3>1. i + 1 \in 1..Len(q) /\ 1 \in 1..Len(q) /\ i + 1 # 1
      BY <1>1
    <3> QED BY <1>1, <1>2, <2>1, <3>1 DEF OneToOne
  <2>2. ASSUME NEW j \in 1..Len(q), v = q[j], v # Head(q) PROVE v \in Range(t)
    <3>1. j - 1 \in 1..Len(t) /\ (j - 1) + 1 = j
      BY <1>1, <2>2
    <3> QED BY <1>1, <1>2, <2>2, <3>1
  <2> QED BY <1>2, <2>1, <2>2
<1> QED BY <1>1, <1>2, <1>3, <1>4 DEF t

\* The modulus of the turns is a positive number.
LEMMA TurnsPositive == Turns \in Nat \ {0}
<1> DEFINE K == Cardinality(Worker)
           Is(f, n) == f = [i \in 0..n |-> IF i = 0 THEN 1 ELSE i * f[i - 1]]
           T == {n \in 0..K : \E f \in [0..n -> Nat \ {0}] : Is(f, n)}
           f == CHOOSE g : Is(g, K)
<1>1. K \in Nat
  BY RunnerConstants, FS_CardinalityType
<1>2. 0 \in T
  <2> DEFINE g == [i \in 0..0 |-> 1]
  <2>1. g = [i \in 0..0 |-> IF i = 0 THEN 1 ELSE i * g[i - 1]]
    OBVIOUS
  <2>2. g \in [0..0 -> Nat \ {0}]
    OBVIOUS
  <2>3. Is(g, 0) /\ 0 \in 0..K
    BY <1>1, <2>1
  <2> HIDE DEF g, Is, K
  <2> QED BY <2>2, <2>3
<1>3. ASSUME NEW n \in 0..K, n < K, n \in T PROVE n + 1 \in T
  <2>1. PICK g \in [0..n -> Nat \ {0}] : Is(g, n)
    BY <1>3
  <2> DEFINE h == [i \in 0..(n + 1) |-> IF i = n + 1 THEN (n + 1) * g[n] ELSE g[i]]
  <2>2. n \in Nat /\ g[n] \in Nat \ {0} /\ (n + 1) * g[n] \in Nat \ {0}
    BY <1>1
  <2>3. \A i \in 0..n : g[i] = IF i = 0 THEN 1 ELSE i * g[i - 1]
    BY <2>1
  <2>4. h \in [0..(n + 1) -> Nat \ {0}]
    BY <2>2
  <2>5. ASSUME NEW i \in 0..(n + 1) PROVE h[i] = IF i = 0 THEN 1 ELSE i * h[i - 1]
    <3>1. CASE i = n + 1
      <4>1. i - 1 = n /\ n # n + 1 /\ i # 0 /\ n \in 0..(n + 1)
        BY <2>2, <3>1
      <4> QED BY <3>1, <4>1
    <3>2. CASE i # n + 1
      <4>1. i \in 0..n /\ (i # 0 => i - 1 \in 0..(n + 1) /\ i - 1 # n + 1)
        BY <2>2, <3>2
      <4> QED BY <2>3, <3>2, <4>1
    <3> QED BY <3>1, <3>2
  <2>6. h = [i \in 0..(n + 1) |-> h[i]]
    OBVIOUS
  <2> HIDE DEF h
  <2>7. Is(h, n + 1)
    BY <2>5, <2>6
  <2>8. n + 1 \in 0..K
    BY <1>1, <1>3
  <2> HIDE DEF Is
  <2> QED BY <2>4, <2>7, <2>8
<1>4. K \in T
  <2> HIDE DEF T, K
  <2>1. \A i \in 0..K : i < K /\ i \in T => i + 1 \in T
    BY <1>3
  <2>2. \A i \in 0..K : i \in T
    BY ONLY <1>1, <1>2, <2>1, Induction
  <2> QED BY <1>1, <2>2
<1>5. PICK g \in [0..K -> Nat \ {0}] : Is(g, K)
  <2> HIDE DEF Is, K
  <2> QED BY <1>4
<1>6. Is(f, K)
  <2> HIDE DEF Is, K
  <2> QED BY <1>5
<1>7. Turns = f[K]
  BY DEF Turns
<1> HIDE DEF f, K
<1>8. /\ \A i \in 0..K : f[i] = IF i = 0 THEN 1 ELSE i * f[i - 1]
      /\ \A i \in 0..K : g[i] = IF i = 0 THEN 1 ELSE i * g[i - 1]
  BY <1>5, <1>6
<1>9. f[0] = g[0] /\ \A i \in 0..K : i < K /\ f[i] = g[i] => f[i + 1] = g[i + 1]
  <2>1. f[0] = g[0]
    BY <1>1, <1>8
  <2>2. ASSUME NEW i \in 0..K, i < K, f[i] = g[i] PROVE f[i + 1] = g[i + 1]
    <3>1. i + 1 \in 0..K /\ i + 1 # 0 /\ (i + 1) - 1 = i
      BY <1>1, <2>2
    <3> QED BY <1>8, <2>2, <3>1
  <2> QED BY <2>1, <2>2
<1>10. \A i \in 0..K : f[i] = g[i]
  <2> DEFINE U == {i \in 0..K : f[i] = g[i]}
  <2>1. 0 \in U /\ \A i \in 0..K : i < K /\ i \in U => i + 1 \in U
    BY <1>1, <1>9
  <2> HIDE DEF U
  <2>2. \A i \in 0..K : i \in U
    BY ONLY <1>1, <2>1, Induction
  <2> QED BY <2>2 DEF U
<1> QED BY <1>1, <1>5, <1>7, <1>10

-----------------------------------------------------------------------------
(* A worker fails *)

Requeued(s, w) == M!RequeueAll(s.mgr, Sorted({t \in s.history[w] : M!CanRequeue(s.mgr, t)}))

\* The members that HandleWorkerFailure and the dispatch leave alone.
SameRest(n, s) ==
  /\ n.def = s.def /\ n.pendingReady = s.pendingReady /\ n.pendingInit = s.pendingInit /\ n.initing = s.initing
  /\ n.nProcessed = s.nProcessed /\ n.earlyDone = s.earlyDone /\ n.doneWorkers = s.doneWorkers

LEMMA SupTypes ==
  ASSUME NEW s \in Sups
  PROVE  /\ s.mgr \in Managers /\ s.def \in 0..Len(TasksOf) /\ s.next \in Nat /\ s.outstanding \in Nat
         /\ s.outstandingMessages \in Nat /\ s.acked \in Nat /\ s.turn \in Nat /\ s.batch \in Nat \ {0}
         /\ s.inFlight \in [Worker -> Nat] /\ s.history \in [Worker -> SUBSET TaskId]
         /\ s.counts \in [Worker -> Nat] /\ s.registered \in SUBSET Worker /\ s.vec \in Seq(Worker)
         /\ s.failed \in SUBSET Worker /\ s.pendingInit \in SUBSET Worker /\ s.pendingReady \in Seq(Worker)
         /\ s.initing \in Worker \cup {NoWorker}
BY DEF Sups

\* n is s without w, where d done and l running tasks were put back.
FailedFields(n, s, w, m, d, l) ==
  /\ n \in Sups /\ SameRest(n, s) /\ n.next = s.next
  /\ n.mgr = m /\ n.history = [s.history EXCEPT ![w] = {}]
  /\ n.outstanding = s.outstanding - Min({s.outstanding, l}) /\ n.acked = s.acked - Min({s.acked, d})
  /\ n.counts = [s.counts EXCEPT ![w] = @ - IF w \in s.registered THEN Min({s.counts[w], d + l}) ELSE 0]
  /\ n.vec = Erase(s.vec, w) /\ n.registered = s.registered \ {w} /\ n.failed = s.failed \ {w}
  /\ n.inFlight = [s.inFlight EXCEPT ![w] = 0]
  /\ n.outstandingMessages = s.outstandingMessages - Min({s.outstandingMessages, s.inFlight[w]})

\* What the loss of w leaves of its tasks and its messages.
Forgets(n, s, w) ==
  /\ n.history = [s.history EXCEPT ![w] = {}] /\ n.next = s.next
  /\ n.mgr.fDone = s.mgr.fDone \ s.history[w]
  /\ \A t \in TaskId : s.mgr.fTaskToWorker[t] # w => n.mgr.fTaskToWorker[t] = s.mgr.fTaskToWorker[t]
  /\ \A t \in TaskId : M!TaskExists(s.mgr, t) => M!TaskExists(n.mgr, t)
  /\ n.inFlight = [s.inFlight EXCEPT ![w] = 0]
  /\ n.outstandingMessages = s.outstandingMessages - Min({s.outstandingMessages, s.inFlight[w]})

LEMMA FailureFields ==
  ASSUME NEW s \in Sups, NEW w \in Worker, OneToOne(s.vec),
         NEW m, m = Requeued(s, w), M!GetWorkerTasks(m, w) = {}, m \in Managers,
         NEW d \in Nat, d = Cardinality(s.mgr.fDone \ m.fDone),
         NEW l \in Nat, l = Cardinality(M!Running(s.mgr) \ M!Running(m)),
         NEW n, n = HandleWorkerFailure(s, w)
  PROVE  FailedFields(n, s, w, m, d, l)
<1> DEFINE counted == IF w \in s.registered THEN Min({s.counts[w], d + l}) ELSE 0
           H == [s.history EXCEPT ![w] = {}]
           O == s.outstanding - Min({s.outstanding, l})
           A == s.acked - Min({s.acked, d})
           C == [s.counts EXCEPT ![w] = @ - counted]
           V == Erase(s.vec, w)
           R == s.registered \ {w}
           F == s.failed \ {w}
           G == s.outstandingMessages - Min({s.outstandingMessages, s.inFlight[w]})
           I == [s.inFlight EXCEPT ![w] = 0]
           k == [s EXCEPT !.mgr = m, !.history = H, !.outstanding = O, !.acked = A, !.counts = C, !.vec = V,
                          !.registered = R, !.failed = F]
<1>1. Recover(m, w) = m
  BY DEF Recover
<1>2. HandleWorkerFailure(s, w) = ReleaseWorkerMessages(k, w)
  BY <1>1 DEF HandleWorkerFailure, Requeued
<1>3. /\ H \in [Worker -> SUBSET TaskId] /\ R \in SUBSET Worker /\ F \in SUBSET Worker /\ V \in Seq(Worker)
      /\ I \in [Worker -> Nat]
  BY SupTypes, EraseRemoves
<1>4. O \in Nat /\ A \in Nat /\ G \in Nat /\ counted \in Nat /\ s.counts[w] - counted \in Nat
  <2>1. /\ s.outstanding \in Nat /\ s.acked \in Nat /\ s.outstandingMessages \in Nat /\ s.inFlight[w] \in Nat
        /\ s.counts[w] \in Nat
    BY SupTypes
  <2>2. \A a, b \in Nat : Min({a, b}) \in Nat /\ a - Min({a, b}) \in Nat
    BY TwoNumbers
  <2>3. d + l \in Nat
    OBVIOUS
  <2>4. O \in Nat /\ A \in Nat /\ G \in Nat
    BY ONLY <2>1, <2>2, d \in Nat, l \in Nat
  <2>5. counted \in Nat /\ s.counts[w] - counted \in Nat
    BY ONLY <2>1, <2>2, <2>3
  <2> QED BY <2>4, <2>5
<1>5. C \in [Worker -> Nat]
  BY <1>4, SupTypes
<1> HIDE DEF counted, H, O, A, C, V, R, F
<1>6. /\ k \in Sups /\ SameRest(k, s) /\ k.next = s.next /\ k.mgr = m /\ k.history = H /\ k.outstanding = O
      /\ k.acked = A /\ k.counts = C /\ k.vec = V /\ k.registered = R /\ k.failed = F
      /\ k.outstandingMessages = s.outstandingMessages /\ k.inFlight = s.inFlight
  BY <1>3, <1>4, <1>5 DEF Sups, SameRest
<1> HIDE DEF k
<1>7. n = [k EXCEPT !.outstandingMessages = G, !.inFlight = I]
  BY <1>2, <1>6 DEF ReleaseWorkerMessages
<1> HIDE DEF G, I
<1>8. /\ n \in Sups /\ SameRest(n, k) /\ n.next = k.next /\ n.mgr = k.mgr /\ n.history = k.history
      /\ n.outstanding = k.outstanding /\ n.acked = k.acked /\ n.counts = k.counts /\ n.vec = k.vec
      /\ n.registered = k.registered /\ n.failed = k.failed /\ n.outstandingMessages = G /\ n.inFlight = I
  <2>1. G \in Nat /\ I \in [Worker -> Nat] /\ k \in Sups
    BY <1>3, <1>4, <1>6
  <2>2. n \in Sups
    BY ONLY <1>7, <2>1 DEF Sups
  <2>3. /\ n.next = k.next /\ n.mgr = k.mgr /\ n.history = k.history
        /\ n.outstanding = k.outstanding /\ n.acked = k.acked /\ n.counts = k.counts /\ n.vec = k.vec
        /\ n.registered = k.registered /\ n.failed = k.failed /\ n.outstandingMessages = G /\ n.inFlight = I
    BY ONLY <1>7, <2>1 DEF Sups
  <2>4. SameRest(n, k)
    BY ONLY <1>7, <2>1 DEF Sups, SameRest
  <2> QED BY <2>2, <2>3, <2>4
<1> QED BY <1>6, <1>8 DEF FailedFields, SameRest, counted, H, O, A, C, V, R, F, G, I

LEMMA InABucket ==
  ASSUME NEW m, Sound(m), NEW t \in TaskId
  PROVE  /\ M!TaskExists(m, t) <=> (t \in m.fPendingIds \/ t \in M!Running(m) \/ t \in m.fDone)
         /\ M!CanRequeue(m, t) <=> (t \in M!Running(m) \/ t \in m.fDone)
         /\ t \in m.fPendingIds => t \notin M!Running(m) /\ t \notin m.fDone
         /\ t \in M!Running(m) => t \notin m.fDone
<1>1. /\ (m.fTaskPayloads[t] # NoPayload) <=> (t \in m.fPendingIds \/ t \in M!Running(m) \/ t \in m.fDone)
      /\ ~(t \in m.fPendingIds /\ t \in M!Running(m)) /\ ~(t \in m.fPendingIds /\ t \in m.fDone)
      /\ ~(t \in M!Running(m) /\ t \in m.fDone)
  BY DEF Sound, M!IsPartitioned
<1> QED BY <1>1 DEF M!TaskExists, M!CanRequeue, M!IsDone

LEMMA Assigned ==
  ASSUME NEW m, Sound(m), NEW t \in TaskId, NEW w \in Worker
  PROVE  /\ t \in M!GetWorkerTasks(m, w) <=> m.fTaskToWorker[t] = w
         /\ m.fTaskToWorker[t] = w => t \in M!Running(m)
<1>1. w # NoWorker
  BY Tasks
<1> QED BY <1>1 DEF Sound, M!IsAssigned, M!GetWorkerTasks

LEMMA FailureBooks ==
  ASSUME NEW s \in Sups, NEW c, Books(s, c), OneToOne(s.vec), NEW w \in Worker,
         NEW n, n = HandleWorkerFailure(s, w)
  PROVE  /\ n \in Sups /\ SameRest(n, s) /\ Books(n, c)
         /\ n.vec = Erase(s.vec, w) /\ n.registered = s.registered \ {w} /\ n.failed = s.failed \ {w}
         /\ Forgets(n, s, w)
<1> DEFINE m == Requeued(s, w)
           H == {t \in s.history[w] : M!CanRequeue(s.mgr, t)}
           P == s.mgr.fPendingIds
           R == M!Running(s.mgr)
           D == s.mgr.fDone
           h(v) == s.history[v]
           own(t) == s.mgr.fTaskToWorker[t]
           d == Cardinality(D \ m.fDone)
           l == Cardinality(R \ M!Running(m))
<1>1. /\ Sound(s.mgr) /\ P \in SUBSET TaskId /\ R \in SUBSET TaskId /\ D \in SUBSET TaskId
      /\ \A v \in Worker : h(v) \in SUBSET TaskId
      /\ s.registered \in SUBSET Worker
  BY SoundTypes, SupTypes DEF Books
<1>2. /\ H \in SUBSET TaskId /\ \A t \in TaskId : t \in H <=> t \in h(w) /\ (t \in R \/ t \in D)
  BY <1>1, InABucket
<1>3. /\ \A t \in R : Only(s, own(t), t) /\ own(t) \in s.registered
      /\ \A t \in D : \E u \in s.registered : Only(s, u, t)
      /\ \A v \in Worker : \A t \in h(v) :
           v \in s.registered /\ (t \in R \/ t \in D \/ (c /\ v \in s.failed))
  BY DEF Books, Replayable
<1>4. /\ \A v \in Worker : s.counts[v] = Cardinality(D \cap h(v))
      /\ s.acked = Cardinality(D) /\ s.outstanding >= Cardinality(R)
      /\ "send" \notin Faults => s.outstanding = Cardinality(R)
  BY DEF Books, Counted
<1>5. /\ s.def # 0 => s.next <= TasksOf[s.def]
      /\ \A t \in TaskId : t >= s.next => t \notin P /\ t \notin R /\ t \notin D
  BY <1>1, InABucket DEF Books, Numbered
<1>6. Sees(m, P \cup H, R \ H, D \ H, [t \in TaskId |-> IF t \in H THEN NoWorker ELSE own(t)])
  <2> DEFINE p == Sorted(H)
  <2>1. p \in Seq(TaskId) /\ Range(p) = H /\ \A i, j \in 1..Len(p) : p[i] = p[j] => i = j
    BY <1>2, SortedLists
  <2>2. m = M!RequeueAll(s.mgr, p)
    BY DEF Requeued
  <2>3. \A t \in H : M!CanRequeue(s.mgr, t)
    OBVIOUS
  <2> HIDE DEF p, m, H
  <2>4. \A i \in 1..Len(p) : M!CanRequeue(s.mgr, p[i])
    BY <2>1, <2>3 DEF Range
  <2>5. Requeues(M!RequeueAll(s.mgr, p), s.mgr, H)
    BY ONLY <1>1, <2>1, <2>4, RequeueAllSees
  <2> QED BY <2>2, <2>5 DEF Requeues
<1> HIDE DEF m, H, P, R, D, h, own
<1>7. /\ Sound(m) /\ m \in Managers /\ m.fPendingIds = P \cup H /\ M!Running(m) = R \ H /\ m.fDone = D \ H
      /\ \A t \in TaskId : m.fTaskToWorker[t] = IF t \in H THEN NoWorker ELSE own(t)
  BY <1>6, SoundTypes DEF Sees
<1>8. ASSUME NEW t \in TaskId, NEW u \in Worker, NEW v \in Worker, t \in h(u), t \in h(v), t \in R \/ t \in D
      PROVE  u = v
  BY <1>3, <1>8 DEF Only, h
<1>9. \A t \in R : own(t) \in Worker /\ t \in h(own(t))
  BY <1>1, <1>3 DEF Only, h
<1>10. M!GetWorkerTasks(m, w) = {}
  <2> SUFFICES ASSUME NEW t \in M!GetWorkerTasks(m, w) PROVE FALSE
    OBVIOUS
  <2>1. t \in TaskId
    BY <1>7, SoundTypes DEF M!GetWorkerTasks
  <2>2. m.fTaskToWorker[t] = w
    BY <1>7, <2>1, Assigned
  <2>3. t \notin H /\ own(t) = w
    BY <1>7, <2>1, <2>2, Tasks
  <2>4. t \in R
    BY <1>1, <2>1, <2>3, Assigned DEF own, R
  <2> QED BY <1>2, <1>9, <2>1, <2>3, <2>4
<1>11. /\ D \ m.fDone = D \cap H /\ R \ M!Running(m) = R \cap H /\ D \cap H = D \cap h(w)
  BY <1>1, <1>2, <1>7
<1>12. /\ d \in Nat /\ l \in Nat /\ d = s.counts[w] /\ d <= s.acked /\ l <= s.outstanding
       /\ Cardinality(D \ H) = s.acked - d
       /\ Cardinality(R \ H) = Cardinality(R) - l /\ Cardinality(R) \in Nat
  <2>1. /\ Cardinality(D \cap H) \in Nat /\ Cardinality(R \cap H) \in Nat /\ Cardinality(R) \in Nat
        /\ Cardinality(D) \in Nat
    <3>1. D \cap H \in SUBSET TaskId /\ R \cap H \in SUBSET TaskId
      BY <1>1
    <3> QED BY <1>1, <3>1, SubsetFacts
  <2>2. /\ Cardinality(D \ H) = Cardinality(D) - Cardinality(D \cap H) /\ Cardinality(D \cap H) <= Cardinality(D)
        /\ Cardinality(R \ H) = Cardinality(R) - Cardinality(R \cap H) /\ Cardinality(R \cap H) <= Cardinality(R)
    BY <1>1, <1>2, SplitCount
  <2>3. s.outstanding \in Nat /\ s.acked \in Nat
    BY SupTypes
  <2>4. d = Cardinality(D \cap H) /\ l = Cardinality(R \cap H)
    BY <1>11
  <2>5. d = s.counts[w]
    BY <1>4, <1>11
  <2> HIDE DEF d, l
  <2> QED BY <1>4, <2>1, <2>2, <2>3, <2>4, <2>5
<1>13. FailedFields(n, s, w, m, d, l)
  <2>1. /\ s \in Sups /\ w \in Worker /\ OneToOne(s.vec) /\ m = Requeued(s, w) /\ M!GetWorkerTasks(m, w) = {}
        /\ m \in Managers /\ d \in Nat /\ d = Cardinality(s.mgr.fDone \ m.fDone)
        /\ l \in Nat /\ l = Cardinality(M!Running(s.mgr) \ M!Running(m)) /\ n = HandleWorkerFailure(s, w)
    BY <1>7, <1>10, <1>12 DEF m, D, R
  <2> HIDE DEF d, l
  <2> QED BY ONLY <2>1, FailureFields
<1> HIDE DEF d, l
<1>14. n.outstanding = s.outstanding - l /\ n.acked = s.acked - d
  <2>1. s.outstanding \in Int /\ s.acked \in Int /\ l \in Int /\ d \in Int
    BY <1>12, SupTypes
  <2>2. Min({s.outstanding, l}) = l /\ Min({s.acked, d}) = d
    BY <1>12, <2>1, Smaller
  <2> QED BY <1>13, <2>2 DEF FailedFields
<1>15. /\ \A v \in Worker : n.history[v] = IF v = w THEN {} ELSE h(v)
       /\ \A v \in Worker : n.counts[v] = IF v = w THEN 0 ELSE s.counts[v]
  <2>1. s.history \in [Worker -> SUBSET TaskId] /\ s.counts \in [Worker -> Nat]
    BY SupTypes
  <2>2. s.counts[w] - (IF w \in s.registered THEN Min({s.counts[w], d + l}) ELSE 0) = 0
    <3>1. CASE w \in s.registered
      <4>1. s.counts[w] \in Int /\ d + l \in Int /\ s.counts[w] <= d + l
        BY <1>12
      <4>2. Min({s.counts[w], d + l}) = s.counts[w]
        BY <4>1, Smaller
      <4> QED BY <3>1, <4>1, <4>2
    <3>2. CASE w \notin s.registered
      <4>1. h(w) = {}
        BY <1>3, <3>2
      <4>2. s.counts[w] = 0
        BY <1>4, <4>1, FS_EmptySet
      <4> QED BY <3>2, <4>2
    <3> QED BY <3>1, <3>2
  <2>3. \A v \in Worker : n.history[v] = IF v = w THEN {} ELSE s.history[v]
    BY <1>13, <2>1 DEF FailedFields
  <2>4. \A v \in Worker : n.counts[v] = IF v = w THEN 0 ELSE s.counts[v]
    BY <1>13, <2>1, <2>2 DEF FailedFields
  <2> QED BY <2>3, <2>4 DEF h
<1>16. Counted(n)
  <2>1. ASSUME NEW v \in Worker PROVE n.counts[v] = Cardinality((D \ H) \cap n.history[v])
    <3>1. CASE v = w
      <4>1. (D \ H) \cap n.history[v] = {}
        BY <1>15, <3>1
      <4> QED BY <1>15, <3>1, <4>1, FS_EmptySet
    <3>2. CASE v # w
      <4>1. (D \ H) \cap n.history[v] = D \cap h(v)
        BY <1>1, <1>2, <1>8, <1>15, <3>2
      <4> QED BY <1>4, <1>15, <3>2, <4>1
    <3> QED BY <3>1, <3>2
  <2>2. n.acked = Cardinality(D \ H)
    BY <1>12, <1>14
  <2>3. /\ n.outstanding >= Cardinality(R \ H)
        /\ "send" \notin Faults => n.outstanding = Cardinality(R \ H)
    <3>1. s.outstanding \in Nat
      BY SupTypes
    <3> QED BY <1>4, <1>12, <1>14, <3>1
  <2>4. n.mgr.fDone = D \ H /\ M!Running(n.mgr) = R \ H
    BY <1>7, <1>13 DEF FailedFields
  <2> QED BY ONLY <2>1, <2>2, <2>3, <2>4 DEF Counted
<1>17. Replayable(n, c)
  <2>0. /\ n.mgr.fDone = D \ H /\ M!Running(n.mgr) = R \ H
        /\ \A t \in R \ H : n.mgr.fTaskToWorker[t] = own(t)
        /\ n.registered = s.registered \ {w} /\ n.failed = s.failed \ {w}
    BY <1>1, <1>7, <1>13 DEF FailedFields
  <2>1. ASSUME NEW t \in TaskId, t \in R \/ t \in D, t \notin H, NEW u \in s.registered, Only(s, u, t)
        PROVE  Only(n, u, t) /\ u \in n.registered
    <3>1. u \in Worker /\ t \in h(u) /\ u # w
      BY <1>1, <1>2, <2>1 DEF Only, h
    <3>2. \A v \in Worker : t \in n.history[v] <=> v = u
      BY <1>15, <2>1, <3>1 DEF Only, h
    <3> QED BY <2>0, <3>1, <3>2 DEF Only
  <2>2. \A t \in R \ H : Only(n, n.mgr.fTaskToWorker[t], t) /\ n.mgr.fTaskToWorker[t] \in n.registered
    BY <1>1, <1>3, <2>0, <2>1
  <2>3. \A t \in D \ H : \E u \in n.registered : Only(n, u, t)
    BY <1>1, <1>3, <2>1
  <2>4. ASSUME NEW v \in Worker, NEW t \in n.history[v]
        PROVE  v \in n.registered /\ (t \in R \ H \/ t \in D \ H \/ (c /\ v \in n.failed))
    <3>1. v # w /\ t \in h(v) /\ t \in TaskId
      BY <1>1, <1>15, <2>4
    <3>2. v \in s.registered /\ (t \in R \/ t \in D \/ (c /\ v \in s.failed))
      BY <1>3, <3>1
    <3>3. t \in H => FALSE
      BY <1>2, <1>8, <3>1
    <3> QED BY <2>0, <3>1, <3>2, <3>3
  <2> QED BY ONLY <2>0, <2>2, <2>3, <2>4 DEF Replayable
<1>18. Numbered(n)
  <2>1. \A t \in TaskId : t >= s.next => ~M!TaskExists(m, t)
    BY <1>2, <1>5, <1>7, InABucket
  <2> QED BY <1>5, <1>13, <2>1 DEF Numbered, FailedFields, SameRest
<1>19. Sound(n.mgr)
  BY <1>7, <1>13 DEF FailedFields
<1>20. Forgets(n, s, w)
  <2>1. m.fDone = D \ s.history[w]
    BY <1>1, <1>2, <1>7 DEF h
  <2>2. ASSUME NEW t \in TaskId, own(t) # w PROVE m.fTaskToWorker[t] = own(t)
    <3>1. CASE t \in H
      <4>1. t \notin R
        BY <1>2, <1>8, <1>9, <2>2, <3>1
      <4>2. own(t) \in Worker \cup {NoWorker} /\ own(t) \notin Worker
        BY <1>1, <4>1, SoundTypes, Assigned DEF own, R
      <4> QED BY <1>7, <3>1, <4>2
    <3>2. CASE t \notin H
      BY <1>7, <3>2
    <3> QED BY <3>1, <3>2
  <2>3. \A t \in TaskId : M!TaskExists(s.mgr, t) => M!TaskExists(m, t)
    <3>1. \A t \in TaskId : M!TaskExists(s.mgr, t) => t \in P \/ t \in R \/ t \in D
      BY <1>1, InABucket DEF P, R, D
    <3> QED BY <1>7, <3>1, InABucket
  <2> QED BY <1>13, <2>1, <2>2, <2>3 DEF Forgets, FailedFields, D, own
<1> QED BY <1>13, <1>16, <1>17, <1>18, <1>19, <1>20 DEF Books, FailedFields

-----------------------------------------------------------------------------
(* A worker acknowledges tasks *)

SameLists(n, s) ==
  SameRest(n, s) /\ n.vec = s.vec /\ n.registered = s.registered /\ n.failed = s.failed

SettledFields(n, s, w, own, m) ==
  /\ n \in Sups /\ SameLists(n, s) /\ n.next = s.next /\ n.history = s.history /\ n.mgr = m
  /\ n.counts = [s.counts EXCEPT ![w] = @ + Cardinality(own)]
  /\ n.acked = s.acked + Cardinality(own) /\ n.outstanding = s.outstanding - Cardinality(own)

\* k messages of w are taken off the count.
Delivered(n, s, w, k) ==
  /\ n.outstandingMessages = s.outstandingMessages - k
  /\ n.inFlight = [s.inFlight EXCEPT ![w] = Max({0, @ - k})]

\* The tasks in own are done.
Settled(n, s, own) ==
  /\ n.history = s.history /\ n.next = s.next
  /\ n.mgr.fDone = s.mgr.fDone \cup own
  /\ \A t \in TaskId : t \notin own => n.mgr.fTaskToWorker[t] = s.mgr.fTaskToWorker[t]
  /\ \A t \in TaskId : M!TaskExists(s.mgr, t) => M!TaskExists(n.mgr, t)

LEMMA SettleFields ==
  ASSUME NEW s \in Sups, NEW w \in Worker, NEW own, Cardinality(own) \in Nat, Cardinality(own) <= s.outstanding,
         NEW k \in {0, 1}, k <= s.outstandingMessages,
         NEW m, m = M!MarkAllDone(s.mgr, own), m \in Managers, NEW n, n = Settle(s, w, own, k)
  PROVE  SettledFields(n, s, w, own, m) /\ Delivered(n, s, w, k)
<1> DEFINE C == [s.counts EXCEPT ![w] = @ + Cardinality(own)]
           A == s.acked + Cardinality(own)
           O == s.outstanding - Cardinality(own)
           G == s.outstandingMessages - k
           I == [s.inFlight EXCEPT ![w] = Max({0, @ - k})]
<1>1. /\ s.outstanding \in Nat /\ s.acked \in Nat /\ s.outstandingMessages \in Nat
      /\ s.inFlight \in [Worker -> Nat] /\ s.counts \in [Worker -> Nat]
  BY SupTypes
<1>2. A \in Nat /\ O \in Nat /\ G \in Nat /\ C \in [Worker -> Nat]
  BY <1>1
<1>3. I \in [Worker -> Nat]
  <2>1. \A x \in Int : Max({0, x}) \in Nat
    BY NotNegative
  <2>2. s.inFlight[w] - k \in Int
    BY <1>1
  <2> QED BY <1>1, <2>1, <2>2
<1>4. n = [s EXCEPT !.mgr = m, !.counts = C, !.acked = A, !.outstanding = O, !.outstandingMessages = G, !.inFlight = I]
  BY DEF Settle
<1> HIDE DEF C, A, O, G, I
<1>5. /\ n \in Sups /\ SameLists(n, s) /\ n.next = s.next /\ n.history = s.history /\ n.mgr = m
      /\ n.counts = C /\ n.acked = A /\ n.outstanding = O /\ n.outstandingMessages = G /\ n.inFlight = I
  BY ONLY <1>2, <1>3, <1>4, s \in Sups, m \in Managers DEF Sups, SameLists, SameRest
<1> QED BY <1>5 DEF SettledFields, Delivered, C, A, O, G, I

LEMMA OwnedRuns ==
  ASSUME NEW s \in Sups, NEW c, Books(s, c), NEW w \in Worker, NEW ids \in Seq(TaskId),
         NEW own, own = Owned(s, w, ids)
  PROVE  /\ own \in SUBSET M!Running(s.mgr) /\ own \in SUBSET TaskId
         /\ \A t \in own : s.mgr.fTaskToWorker[t] = w
         /\ Cardinality(own) \in Nat /\ Cardinality(own) <= s.outstanding
<1>1. Sound(s.mgr) /\ M!Running(s.mgr) \in SUBSET TaskId /\ s.outstanding >= Cardinality(M!Running(s.mgr))
  BY SoundTypes DEF Books, Counted
<1>2. \A t \in own : t \in TaskId /\ s.mgr.fTaskToWorker[t] = w
  BY DEF Owned, Range, M!GetTaskWorker
<1>3. own \in SUBSET M!Running(s.mgr)
  BY <1>1, <1>2, Assigned
<1>4. IsFiniteSet(M!Running(s.mgr)) /\ Cardinality(M!Running(s.mgr)) \in Nat
  BY <1>1, SubsetFacts
<1>5. own \in SUBSET TaskId
  BY <1>2
<1>6. Cardinality(own) \in Nat /\ Cardinality(own) <= Cardinality(M!Running(s.mgr))
  BY <1>3, <1>4, <1>5, SubsetFacts, FS_Subset
<1>7. s.outstanding \in Nat
  BY SupTypes
<1> QED BY <1>1, <1>2, <1>3, <1>4, <1>5, <1>6, <1>7

LEMMA SettleBooks ==
  ASSUME NEW s \in Sups, NEW c, Books(s, c), NEW w \in Worker, NEW ids \in Seq(TaskId),
         NEW own, own = Owned(s, w, ids), NEW k \in {0, 1}, k <= s.outstandingMessages,
         NEW n, n = Settle(s, w, own, k)
  PROVE  n \in Sups /\ SameLists(n, s) /\ Books(n, c) /\ Settled(n, s, own) /\ Delivered(n, s, w, k)
<1> DEFINE m == M!MarkAllDone(s.mgr, own)
           P == s.mgr.fPendingIds
           R == M!Running(s.mgr)
           D == s.mgr.fDone
           h(v) == s.history[v]
           by(t) == s.mgr.fTaskToWorker[t]
<1>1. /\ Sound(s.mgr) /\ P \in SUBSET TaskId /\ R \in SUBSET TaskId /\ D \in SUBSET TaskId
      /\ \A v \in Worker : h(v) \in SUBSET TaskId
      /\ s.registered \in SUBSET Worker
  BY SoundTypes, SupTypes DEF Books
<1>2. /\ own \in SUBSET R /\ own \in SUBSET TaskId /\ \A t \in own : by(t) = w
      /\ Cardinality(own) \in Nat /\ Cardinality(own) <= s.outstanding
  BY OwnedRuns
<1>3. /\ \A t \in R : Only(s, by(t), t) /\ by(t) \in s.registered
      /\ \A t \in D : \E u \in s.registered : Only(s, u, t)
      /\ \A v \in Worker : \A t \in h(v) :
           v \in s.registered /\ (t \in R \/ t \in D \/ (c /\ v \in s.failed))
  BY DEF Books, Replayable
<1>4. /\ \A v \in Worker : s.counts[v] = Cardinality(D \cap h(v))
      /\ s.acked = Cardinality(D) /\ s.outstanding >= Cardinality(R)
      /\ "send" \notin Faults => s.outstanding = Cardinality(R)
  BY DEF Books, Counted
<1>5. /\ s.def # 0 => s.next <= TasksOf[s.def]
      /\ \A t \in TaskId : t >= s.next => t \notin P /\ t \notin R /\ t \notin D
  BY <1>1, InABucket DEF Books, Numbered
<1>6. Sees(m, P, R \ own, D \cup own, [t \in TaskId |-> IF t \in own THEN NoWorker ELSE by(t)])
  BY <1>1, <1>2, MarkAllDoneSees
<1>7. /\ Sound(m) /\ m \in Managers /\ m.fPendingIds = P /\ M!Running(m) = R \ own /\ m.fDone = D \cup own
      /\ \A t \in TaskId : m.fTaskToWorker[t] = IF t \in own THEN NoWorker ELSE by(t)
  BY <1>6, SoundTypes DEF Sees
<1>8. SettledFields(n, s, w, own, m) /\ Delivered(n, s, w, k)
  <2> HIDE DEF R
  <2> QED BY <1>2, <1>7, SettleFields
<1> HIDE DEF m, P, R, D, h, by
<1>9. \A t \in own : t \notin D /\ \A v \in Worker : t \in h(v) <=> v = w
  <2>1. \A t \in R : t \notin D
    BY <1>1, InABucket DEF R, D
  <2> QED BY <1>2, <1>3, <2>1 DEF Only, h
<1>10. Counted(n)
  <2>1. ASSUME NEW v \in Worker PROVE n.counts[v] = Cardinality((D \cup own) \cap s.history[v])
    <3>1. CASE v = w
      <4>1. /\ D \cap h(v) \in SUBSET TaskId /\ (D \cap h(v)) \cap own = {}
            /\ (D \cup own) \cap s.history[v] = (D \cap h(v)) \cup own
        BY <1>1, <1>2, <1>9, <3>1 DEF h
      <4>2. Cardinality((D \cap h(v)) \cup own) = Cardinality(D \cap h(v)) + Cardinality(own)
        BY <1>2, <4>1, JoinCount
      <4>3. n.counts[v] = s.counts[v] + Cardinality(own)
        BY <1>8, <3>1, SupTypes DEF SettledFields
      <4> QED BY <1>4, <4>1, <4>2, <4>3
    <3>2. CASE v # w
      <4>1. (D \cup own) \cap s.history[v] = D \cap h(v)
        BY <1>9, <3>2 DEF h
      <4>2. n.counts[v] = s.counts[v]
        BY <1>8, <3>2, SupTypes DEF SettledFields
      <4> QED BY <1>4, <4>1, <4>2
    <3> QED BY <3>1, <3>2
  <2>2. Cardinality(D \cup own) = Cardinality(D) + Cardinality(own)
    <3>1. D \cap own = {}
      BY <1>9
    <3> QED BY <1>1, <1>2, <3>1, JoinCount
  <2>3. Cardinality(R \ own) = Cardinality(R) - Cardinality(own) /\ Cardinality(R) \in Nat
    <3>1. R \cap own = own
      BY <1>2
    <3>2. Cardinality(R \ own) = Cardinality(R) - Cardinality(R \cap own)
      BY <1>1, <1>2, SplitCount
    <3>3. Cardinality(R) \in Nat
      BY <1>1, SubsetFacts
    <3> QED BY <3>1, <3>2, <3>3
  <2>4. s.outstanding \in Nat /\ s.acked \in Nat
    BY SupTypes
  <2>5. /\ n.acked = Cardinality(D \cup own) /\ n.outstanding >= Cardinality(R \ own)
        /\ "send" \notin Faults => n.outstanding = Cardinality(R \ own)
    BY <1>2, <1>4, <1>8, <2>2, <2>3, <2>4 DEF SettledFields
  <2>6. n.mgr.fDone = D \cup own /\ M!Running(n.mgr) = R \ own /\ n.history = s.history
    BY <1>7, <1>8 DEF SettledFields
  <2> QED BY ONLY <2>1, <2>5, <2>6 DEF Counted
<1>11. Replayable(n, c)
  <2>0. /\ n.mgr.fDone = D \cup own /\ M!Running(n.mgr) = R \ own /\ n.history = s.history
        /\ \A t \in R \ own : n.mgr.fTaskToWorker[t] = by(t)
        /\ n.registered = s.registered /\ n.failed = s.failed
    BY <1>1, <1>7, <1>8 DEF SettledFields, SameLists
  <2>1. \A t, u : Only(s, u, t) => Only(n, u, t)
    BY <2>0 DEF Only
  <2>2. \A t \in R \ own : Only(n, n.mgr.fTaskToWorker[t], t) /\ n.mgr.fTaskToWorker[t] \in n.registered
    BY <1>3, <2>0, <2>1
  <2>3. \A t \in D \cup own : \E u \in n.registered : Only(n, u, t)
    BY <1>2, <1>3, <2>0, <2>1
  <2>4. \A v \in Worker : \A t \in n.history[v] :
          v \in n.registered /\ (t \in R \ own \/ t \in D \cup own \/ (c /\ v \in n.failed))
    BY <1>3, <2>0 DEF h
  <2> QED BY ONLY <2>0, <2>2, <2>3, <2>4 DEF Replayable
<1>12. Numbered(n)
  <2>1. \A t \in TaskId : t >= s.next => ~M!TaskExists(m, t)
    BY <1>2, <1>5, <1>7, InABucket
  <2> QED BY <1>5, <1>8, <2>1 DEF Numbered, SettledFields, SameLists, SameRest
<1>13. Settled(n, s, own)
  <2>1. \A t \in TaskId : M!TaskExists(s.mgr, t) => M!TaskExists(m, t)
    <3>1. \A t \in TaskId : M!TaskExists(s.mgr, t) => t \in P \/ t \in R \/ t \in D
      BY <1>1, InABucket DEF P, R, D
    <3> QED BY <1>7, <3>1, InABucket
  <2> QED BY <1>7, <1>8, <2>1 DEF Settled, SettledFields, D, by
<1> QED BY <1>7, <1>8, <1>10, <1>11, <1>12, <1>13 DEF Books, SettledFields

-----------------------------------------------------------------------------
(* A message is filled *)

LEMMA Quotient ==
  ASSUME NEW a \in Nat, NEW b \in Nat \ {0}
  PROVE  a \div b \in Nat /\ a \div b <= a
<1>1. a \div b \in Int /\ b * (a \div b) <= a /\ a < b * (a \div b) + b
  OBVIOUS
<1> DEFINE q == a \div b
<1> HIDE DEF q
<1>2. q \in Int /\ b * q <= a /\ a < b * q + b
  BY <1>1 DEF q
<1>3. q >= 0
  <2> SUFFICES ASSUME q <= -1 PROVE FALSE
    BY <1>2
  <2>1. b * q <= b * (-1)
    BY <1>2
  <2> QED BY <1>2, <2>1
<1>4. b * q >= q
  BY <1>2, <1>3
<1>5. q \in Nat /\ q <= a
  BY <1>2, <1>3, <1>4
<1> QED BY <1>5 DEF q

\* The supervisor has a definition and a worker.
Serving(s) == s \in Sups /\ s.def # 0 /\ s.next <= TasksOf[s.def] /\ s.vec # << >>

LEMMA BatchNumbers ==
  ASSUME NEW s, Serving(s)
  PROVE  /\ Replays(s) \in Nat /\ Replays(s) <= Len(s.mgr.fPending)
         /\ Fresh(s) \in Nat /\ s.next + Fresh(s) <= TasksOf[s.def] /\ TasksOf[s.def] \in Nat /\ s.next \in Nat
         /\ Len(s.mgr.fPending) \in Nat
<1> DEFINE nw == Len(s.vec)
           T == TasksOf[s.def]
           X == (T - s.next + nw - 1) \div nw
           A == AdaptiveBatchSize(s)
           C == Capacity(s)
           Q == Max({1, A \div nw})
           L == Len(s.mgr.fPending)
           R == Replays(s)
           F == Fresh(s)
<1>1. /\ nw \in Nat \ {0} /\ T \in Nat /\ s.next \in Nat /\ s.next <= T /\ L \in Nat
      /\ s.batch \in Nat \ {0} /\ s.outstanding \in Nat
  <2>1. s.def \in Defs
    BY SupTypes DEF Serving, Defs
  <2>2. T \in Nat
    BY <2>1, Tasks
  <2>3. s.vec \in Seq(Worker) /\ s.mgr \in Managers /\ s.vec # << >>
    BY SupTypes DEF Serving
  <2>4. L \in Nat
    BY <2>3 DEF Managers
  <2> QED BY <2>2, <2>3, <2>4, SupTypes DEF Serving
<1>2. A \in Nat \ {0}
  <2>1. X \in Int
    BY <1>1
  <2>2. Max({1, X}) \in Nat \ {0}
    <3> HIDE DEF X
    <3> QED BY <2>1, NotNegative
  <2>3. \A a, b \in Nat \ {0} : Min({a, b}) \in Nat \ {0}
    BY TwoNumbers
  <2>4. A = Min({s.batch, Max({1, X})})
    BY DEF AdaptiveBatchSize
  <2> HIDE DEF X, A
  <2> QED BY <1>1, <2>2, <2>3, <2>4
<1>3. C \in Nat
  <2>1. MaxInFlightMessages(s) \in Int
    <3>1. \A a, b \in Int : Max({a, b}) \in Int
      BY TwoNumbers
    <3> QED BY <1>1, <3>1 DEF MaxInFlightMessages
  <2>2. MaxInFlightMessages(s) * s.batch - s.outstanding \in Int
    BY <1>1, <2>1
  <2> QED BY <2>2, NotNegative DEF Capacity
<1> HIDE DEF A, C, nw, L
<1>4. Q \in Nat /\ Q <= A
  <2>1. A \div nw \in Nat /\ A \div nw <= A
    BY <1>1, <1>2, Quotient
  <2>2. \A a, b \in Int : Max({a, b}) \in {a, b}
    BY TwoNumbers
  <2>3. Q = 1 \/ Q = A \div nw
    BY <2>1, <2>2
  <2> HIDE DEF Q
  <2> QED BY <1>2, <2>1, <2>3
<1>5. R = Min({L, C, Q})
  BY DEF Replays, M!PendingCount, A, C, nw, L
<1> HIDE DEF Q, R
<1>6. R \in {L, C, Q} /\ R <= L /\ R <= C /\ R <= Q
  <2>1. \A a, b, c \in Nat : LET m == Min({a, b, c}) IN m \in {a, b, c} /\ m <= a /\ m <= b /\ m <= c
    BY ThreeNumbers
  <2> QED BY <1>1, <1>3, <1>4, <1>5, <2>1
<1>7. R \in Nat /\ R <= L /\ R <= C /\ R <= A
  BY <1>1, <1>2, <1>3, <1>4, <1>6
<1>8. F = Min({T - s.next, C - R, A - R})
  BY DEF Fresh, A, C, R
<1>9. T - s.next \in Nat /\ C - R \in Nat /\ A - R \in Nat
  BY <1>1, <1>2, <1>3, <1>7
<1>10. F \in {T - s.next, C - R, A - R} /\ F <= T - s.next
  <2>1. \A a, b, c \in Nat : Min({a, b, c}) \in {a, b, c} /\ Min({a, b, c}) <= a
    BY ThreeNumbers
  <2> HIDE DEF F
  <2> QED BY <1>8, <1>9, <2>1
<1> HIDE DEF F
<1>11. F \in Nat /\ s.next + F <= T
  BY <1>1, <1>9, <1>10
<1> QED BY <1>1, <1>7, <1>11 DEF R, F, L

LEMMA Concatenation ==
  ASSUME NEW S, NEW f \in Seq(S), NEW q \in Seq(S), NEW p, p = f \o q
  PROVE  /\ p \in Seq(S) /\ Len(p) = Len(f) + Len(q)
         /\ \A i \in 1..(Len(f) + Len(q)) : p[i] = IF i <= Len(f) THEN f[i] ELSE q[i - Len(f)]
OBVIOUS

NewTasks(s) == [i \in 1..Fresh(s) |-> M!Entry(s.next + i - 1, s.next + i - 1)]

Queue(s) == s.mgr.fPending \o NewTasks(s)

LEMMA NewTasksAreNew ==
  ASSUME NEW s, Serving(s), Sound(s.mgr), Numbered(s), NEW q, q = NewTasks(s)
  PROVE  /\ q \in Seq(M!Entries) /\ M!Distinct(q) /\ Len(q) = Fresh(s)
         /\ \A i \in 1..Len(q) : ~M!TaskExists(s.mgr, q[i].id)
         /\ \A i \in 1..Len(q) : q[i].id = s.next + i - 1
<1> DEFINE F == Fresh(s)
<1>1. F \in Nat /\ s.next + F <= TasksOf[s.def] /\ TasksOf[s.def] \in Nat /\ s.next \in Nat /\ s.def \in Defs
  BY BatchNumbers, SupTypes DEF Serving, Defs
<1>2. q = [i \in 1..F |-> M!Entry(s.next + i - 1, s.next + i - 1)]
  BY DEF NewTasks
<1> HIDE DEF F
<1>3. ASSUME NEW i \in 1..F PROVE s.next + i - 1 \in TaskId /\ s.next + i - 1 >= s.next
  <2>1. s.next + i - 1 \in Nat /\ s.next + i - 1 < TasksOf[s.def] /\ s.next + i - 1 >= s.next
    BY <1>1
  <2> QED BY <1>1, <2>1, Tasks
<1>4. \A i \in 1..F : q[i] = [id |-> s.next + i - 1, payload |-> s.next + i - 1]
  BY <1>2 DEF M!Entry
<1>5. ASSUME NEW i \in 1..F PROVE q[i] \in M!Entries /\ q[i].id = s.next + i - 1
  <2> DEFINE t == s.next + i - 1
  <2>1. t \in TaskId /\ q[i] = [id |-> t, payload |-> t]
    BY <1>3, <1>4
  <2> HIDE DEF t
  <2>2. q[i] \in M!Entries /\ q[i].id = t
    BY <2>1 DEF M!Entries
  <2> QED BY <2>2 DEF t
<1>6. q \in [1..F -> M!Entries]
  BY <1>2, <1>5
<1>7. q \in Seq(M!Entries) /\ Len(q) = F
  BY ONLY <1>1, <1>6
<1>8. M!Distinct(q)
  BY <1>1, <1>5, <1>7 DEF M!Distinct
<1>9. \A i \in 1..F : ~M!TaskExists(s.mgr, q[i].id)
  BY <1>3, <1>5 DEF Numbered
<1> QED BY <1>5, <1>7, <1>8, <1>9 DEF F

\* The message holds the front of the queue, each task once, none of them
\* running or done.
LEMMA BatchIsFront ==
  ASSUME NEW s, Serving(s), Sound(s.mgr), Numbered(s), NEW k, k = Replays(s) + Fresh(s),
         NEW p, p = Queue(s), NEW ids, ids = BatchTasks(s), NEW C, C = Front(p, k)
  PROVE  /\ k \in 0..Len(p) /\ ids \in Seq(TaskId) /\ Len(ids) = k /\ Range(ids) = C
         /\ \A i, j \in 1..Len(ids) : ids[i] = ids[j] => i = j
         /\ C \in SUBSET TaskId /\ Cardinality(C) = k
         /\ \A t \in C : t \in s.mgr.fPendingIds \/ t \in s.next..(s.next + Fresh(s) - 1)
<1> DEFINE F == Fresh(s)
           R == Replays(s)
           L == Len(s.mgr.fPending)
           f == s.mgr.fPending
           q == NewTasks(s)
<1>1. /\ R \in Nat /\ F \in Nat /\ R <= L /\ L \in Nat /\ s.next \in Nat
  BY BatchNumbers
<1>2. /\ q \in Seq(M!Entries) /\ M!Distinct(q) /\ Len(q) = F
      /\ \A i \in 1..F : ~M!TaskExists(s.mgr, q[i].id) /\ q[i].id = s.next + i - 1
  BY NewTasksAreNew
<1>3. f \in Seq(M!Entries) /\ M!Distinct(f) /\ s.mgr.fPendingIds = M!QueuedIds(f)
  BY SoundTypes DEF Sound, M!IsIndexed
<1>4. k \in Nat /\ k <= L + F
  BY <1>1
<1>5. ids = [i \in 1..k |-> IF i <= L THEN f[i].id ELSE s.next + i - L - 1]
  BY DEF BatchTasks, M!PendingCount
<1>6. p = f \o q
  BY DEF Queue
<1> HIDE DEF F, R, L, q
<1>7. /\ p \in Seq(M!Entries) /\ Len(p) = L + F
      /\ \A i \in 1..(L + F) : p[i] = IF i <= L THEN f[i] ELSE q[i - L]
  <2> HIDE DEF f
  <2>1. /\ p \in Seq(M!Entries) /\ Len(p) = Len(f) + Len(q)
        /\ \A i \in 1..(Len(f) + Len(q)) : p[i] = IF i <= Len(f) THEN f[i] ELSE q[i - Len(f)]
    <3>1. f \in Seq(M!Entries) /\ q \in Seq(M!Entries) /\ p = f \o q
      BY ONLY <1>2, <1>3, <1>6
    <3> QED BY ONLY <3>1, Concatenation
  <2>2. L = Len(f)
    BY DEF L, f
  <2> QED BY <1>2, <2>1, <2>2
<1>8. \A i \in 1..k : i \in 1..(L + F) /\ (~(i <= L) => i - L \in 1..F)
  BY <1>1, <1>4
<1>9. \A i \in 1..k : ids[i] = p[i].id
  <2>1. \A i \in 1..k : ~(i <= L) => s.next + (i - L) - 1 = s.next + i - L - 1
    BY <1>1, <1>4
  <2> QED BY <1>2, <1>5, <1>7, <1>8, <2>1
<1>10. \A i \in 1..k : p[i].id \in TaskId
  <2>1. \A e \in M!Entries : e.id \in TaskId
    BY DEF M!Entries
  <2>2. \A i \in 1..(L + F) : p[i] \in M!Entries
    <3> HIDE <1>6
    <3> QED BY ONLY <1>7
  <2> QED BY <1>8, <2>1, <2>2
<1>11. ids \in Seq(TaskId) /\ Len(ids) = k
  <2>1. ids \in [1..k -> TaskId]
    BY <1>5, <1>9, <1>10
  <2> QED BY ONLY <1>4, <2>1
<1>12. \A i, j \in 1..(L + F) : p[i].id = p[j].id => i = j
  <2>1. \A i \in 1..L, j \in 1..F : f[i].id # q[j].id
    BY <1>2, <1>3 DEF M!QueuedIds, M!TaskExists, L
  <2>2. \A i, j \in 1..L : f[i].id = f[j].id => i = j
    BY <1>3 DEF M!Distinct, L
  <2>3. \A i, j \in 1..F : q[i].id = q[j].id => i = j
    BY <1>2 DEF M!Distinct
  <2>4. \A i \in 1..(L + F) : IF i <= L THEN i \in 1..L ELSE i - L \in 1..F
    BY <1>1
  <2>5. ASSUME NEW i \in 1..(L + F), NEW j \in 1..(L + F), p[i].id = p[j].id PROVE i = j
    <3>1. CASE i <= L /\ j <= L
      BY <1>7, <2>2, <2>4, <2>5, <3>1
    <3>2. CASE ~(i <= L) /\ ~(j <= L)
      <4>1. i - L = j - L
        BY <1>7, <2>3, <2>4, <2>5, <3>2
      <4> QED BY <1>1, <4>1
    <3>3. CASE i <= L /\ ~(j <= L)
      BY <1>7, <2>1, <2>4, <2>5, <3>3
    <3>4. CASE ~(i <= L) /\ j <= L
      BY <1>7, <2>1, <2>4, <2>5, <3>4
    <3> QED BY <3>1, <3>2, <3>3, <3>4
  <2> QED BY <2>5
<1>13. \A i, j \in 1..k : ids[i] = ids[j] => i = j
  BY <1>8, <1>9, <1>12
<1>14. Range(ids) = C
  <2>1. Range(ids) = {ids[i] : i \in 1..k}
    BY <1>11 DEF Range
  <2> QED BY <1>9, <2>1 DEF Front
<1>15. Cardinality(C) = k
  <2>1. ids \in Bijection(1..k, C)
    <3>1. ids \in [1..k -> C] /\ \A t \in C : \E i \in 1..k : ids[i] = t
      <4>1. ids \in [1..k -> TaskId]
        BY <1>11
      <4> QED BY <1>9, <4>1 DEF Front
    <3> QED BY <1>13, <3>1 DEF Bijection, Injection, Surjection, IsInjective
  <2>2. ExistsBijection(1..k, C)
    BY <2>1 DEF ExistsBijection
  <2> HIDE <1>5, <1>6
  <2> QED BY ONLY <1>4, <2>2, FS_CountingElements
<1>16. \A t \in C : t \in s.mgr.fPendingIds \/ t \in s.next..(s.next + F - 1)
  <2>1. ASSUME NEW i \in 1..F PROVE q[i].id \in s.next..(s.next + F - 1)
    <3>1. s.next + i - 1 \in s.next..(s.next + F - 1)
      BY <1>1
    <3> QED BY <1>2, <3>1
  <2>2. \A i \in 1..L : f[i].id \in s.mgr.fPendingIds
    BY <1>3 DEF M!QueuedIds, L
  <2>3. \A i \in 1..k : i <= L => i \in 1..L
    BY <1>1, <1>4
  <2> QED BY <1>7, <1>8, <2>1, <2>2, <2>3 DEF Front
<1>17. C \in SUBSET TaskId
  BY <1>10 DEF Front
<1> QED BY <1>4, <1>7, <1>11, <1>13, <1>14, <1>15, <1>16, <1>17 DEF F

SameMessages(n, s) == n.outstandingMessages = s.outstandingMessages /\ n.inFlight = s.inFlight

FilledFields(n, s, w, m, C, k) ==
  /\ n \in Sups /\ SameLists(n, s) /\ n.next = s.next + Fresh(s) /\ n.mgr = m
  /\ n.history = [s.history EXCEPT ![w] = @ \cup C]
  /\ n.outstanding = s.outstanding + k /\ n.acked = s.acked /\ n.counts = s.counts
  /\ SameMessages(n, s)

\* The tasks of C, which were waiting or new, run on w.
Filled(n, s, w, C) ==
  /\ n.history = [s.history EXCEPT ![w] = @ \cup C] /\ SameMessages(n, s)
  /\ n.mgr.fDone = s.mgr.fDone
  /\ \A t \in C : t \in TaskId /\ t < TasksOf[s.def] /\ t \notin M!Running(s.mgr) /\ t \notin s.mgr.fDone
  /\ \A t \in TaskId : n.mgr.fTaskToWorker[t] = IF t \in C THEN w ELSE s.mgr.fTaskToWorker[t]
  /\ (\A t \in TaskId : t < s.next => M!TaskExists(s.mgr, t)) =>
       \A t \in TaskId : t < n.next => M!TaskExists(n.mgr, t)

LEMMA FillFields ==
  ASSUME NEW s, Serving(s), NEW w \in Worker, NEW k, k = Replays(s) + Fresh(s), NEW C, C = Range(BatchTasks(s)),
         C \in SUBSET TaskId, NEW m, m = M!AddAndClaim(s.mgr, w, NewTasks(s), k), m \in Managers,
         NEW n, n = Fill(s, w)
  PROVE  FilledFields(n, s, w, m, C, k)
<1> DEFINE X == s.next + Fresh(s)
           H == [s.history EXCEPT ![w] = @ \cup C]
           O == s.outstanding + k
<1>1. s \in Sups /\ Fresh(s) \in Nat /\ Replays(s) \in Nat /\ s.next \in Nat
  BY BatchNumbers DEF Serving
<1>2. s.outstanding \in Nat /\ s.history \in [Worker -> SUBSET TaskId]
  BY <1>1, SupTypes
<1>3. X \in Nat /\ O \in Nat /\ H \in [Worker -> SUBSET TaskId]
  BY <1>1, <1>2
<1>4. n = [s EXCEPT !.mgr = m, !.next = X, !.history = H, !.outstanding = O]
  BY DEF Fill, NewTasks
<1> HIDE DEF X, H, O
<1>5. /\ n \in Sups /\ SameLists(n, s) /\ n.next = X /\ n.mgr = m /\ n.history = H /\ n.outstanding = O
      /\ n.acked = s.acked /\ n.counts = s.counts /\ SameMessages(n, s)
  BY ONLY <1>1, <1>3, <1>4, m \in Managers DEF Sups, SameLists, SameRest, SameMessages
<1> QED BY <1>5 DEF FilledFields, X, H, O

\* The tasks of C run on w, and the books agree.
Fills(n, s, w, C) ==
  /\ n \in Sups /\ SameLists(n, s) /\ Books(n, FALSE)
  /\ \A t \in C : t \in M!Running(n.mgr) /\ n.mgr.fTaskToWorker[t] = w
  /\ Filled(n, s, w, C)

LEMMA FillBooks ==
  ASSUME NEW s, Serving(s), Books(s, FALSE), NEW w \in s.registered, NEW n, n = Fill(s, w),
         NEW C, C = Range(BatchTasks(s))
  PROVE  Fills(n, s, w, C)
<1> DEFINE k == Replays(s) + Fresh(s)
           F == Fresh(s)
           p == Queue(s)
           q == NewTasks(s)
           m == M!AddAndClaim(s.mgr, w, q, k)
           P == s.mgr.fPendingIds
           R == M!Running(s.mgr)
           D == s.mgr.fDone
           h(v) == s.history[v]
           by(t) == s.mgr.fTaskToWorker[t]
<1>1. /\ s \in Sups /\ Sound(s.mgr) /\ Numbered(s) /\ P \in SUBSET TaskId /\ R \in SUBSET TaskId
      /\ D \in SUBSET TaskId /\ s.registered \in SUBSET Worker /\ w \in Worker
      /\ \A v \in Worker : h(v) \in SUBSET TaskId
  BY SoundTypes, SupTypes DEF Books, Serving
<1>2. /\ F \in Nat /\ Replays(s) \in Nat /\ s.next \in Nat /\ s.next + F <= TasksOf[s.def] /\ TasksOf[s.def] \in Nat
  BY BatchNumbers
<1>3. C = Front(p, k)
  BY <1>1, BatchIsFront
<1>4. /\ k \in 0..Len(p) /\ C \in SUBSET TaskId /\ Cardinality(C) = k
      /\ \A t \in C : t \in P \/ t \in s.next..(s.next + F - 1)
  <2> HIDE DEF p, k, P, F
  <2>1. k = Replays(s) + Fresh(s) /\ p = Queue(s) /\ F = Fresh(s) /\ P = s.mgr.fPendingIds
    BY DEF p, k, P, F
  <2> QED BY <1>1, <1>3, <2>1, BatchIsFront
<1>5. /\ q \in Seq(M!Entries) /\ M!Distinct(q) /\ Len(q) = F
      /\ \A i \in 1..Len(q) : ~M!TaskExists(s.mgr, q[i].id) /\ q[i].id = s.next + i - 1
  BY <1>1, NewTasksAreNew
<1>6. Sees(m, (P \cup M!QueuedIds(q)) \ C, R \cup C, D, [t \in TaskId |-> IF t \in C THEN w ELSE by(t)])
  <2>1. p = s.mgr.fPending \o q
    BY DEF Queue
  <2> HIDE DEF p, q, k
  <2>2. /\ Sound(s.mgr) /\ w \in Worker /\ q \in Seq(M!Entries) /\ M!Distinct(q)
        /\ \A i \in 1..Len(q) : ~M!TaskExists(s.mgr, q[i].id)
    BY <1>1, <1>5
  <2>3. k \in 0..Len(p)
    BY <1>4
  <2>4. Claimed(M!AddAndClaim(s.mgr, w, q, k), s.mgr, w, q, C)
    <3>1. w \in Worker /\ CanClaim(s.mgr, q, k, C)
      BY ONLY <1>3, <2>1, <2>2, <2>3 DEF CanClaim
    <3> QED BY ONLY <3>1, AddAndClaimSees
  <2> QED BY <2>4 DEF Claimed
<1>7. /\ Sound(m) /\ m \in Managers /\ m.fPendingIds = (P \cup M!QueuedIds(q)) \ C
      /\ M!Running(m) = R \cup C /\ m.fDone = D
      /\ \A t \in TaskId : m.fTaskToWorker[t] = IF t \in C THEN w ELSE by(t)
  BY <1>6, SoundTypes DEF Sees
<1>8. FilledFields(n, s, w, m, C, k)
  BY <1>1, <1>4, <1>7, FillFields
<1>9. \A t \in M!QueuedIds(q) : t \in s.next..(s.next + F - 1)
  <2>1. \A i \in 1..F : s.next + i - 1 \in s.next..(s.next + F - 1)
    BY <1>2
  <2> QED BY <1>5, <2>1 DEF M!QueuedIds
<1>10. /\ \A t \in R : Only(s, by(t), t) /\ by(t) \in s.registered
       /\ \A t \in D : \E u \in s.registered : Only(s, u, t)
       /\ \A v \in Worker : \A t \in h(v) : v \in s.registered /\ (t \in R \/ t \in D)
  BY DEF Books, Replayable
<1>11. /\ \A v \in Worker : s.counts[v] = Cardinality(D \cap h(v))
       /\ s.acked = Cardinality(D) /\ s.outstanding >= Cardinality(R)
       /\ "send" \notin Faults => s.outstanding = Cardinality(R)
  BY DEF Books, Counted
<1>12. /\ \A t \in TaskId : t >= s.next => t \notin P /\ t \notin R /\ t \notin D
       /\ \A t \in P : t \notin R /\ t \notin D
  BY <1>1, InABucket DEF Numbered
<1>13. \A t \in C : t \notin R /\ t \notin D
  <2>1. \A t \in s.next..(s.next + F - 1) : t >= s.next
    BY <1>2
  <2> QED BY <1>4, <1>12, <2>1
<1> HIDE DEF m, P, R, D, h, by, k, F, q
<1>14. /\ n.mgr.fDone = D /\ M!Running(n.mgr) = R \cup C /\ n.mgr = m
       /\ n.registered = s.registered /\ n.acked = s.acked /\ n.counts = s.counts
       /\ n.outstanding = s.outstanding + k
       /\ \A v \in Worker : n.history[v] = IF v = w THEN h(v) \cup C ELSE h(v)
  <2>1. s.history \in [Worker -> SUBSET TaskId]
    BY <1>1, SupTypes
  <2> QED BY <1>7, <1>8, <2>1 DEF FilledFields, SameLists, h
<1>15. Counted(n)
  <2>1. ASSUME NEW v \in Worker PROVE n.counts[v] = Cardinality(D \cap n.history[v])
    <3>1. D \cap n.history[v] = D \cap h(v)
      BY <1>13, <1>14
    <3> QED BY <1>11, <1>14, <3>1
  <2>2. Cardinality(R \cup C) = Cardinality(R) + k /\ Cardinality(R) \in Nat /\ k \in Nat
    <3>1. R \cap C = {}
      BY <1>13
    <3> QED BY <1>1, <1>4, <3>1, JoinCount, SubsetFacts
  <2>3. s.outstanding \in Nat
    BY <1>1, SupTypes
  <2>4. /\ n.outstanding >= Cardinality(R \cup C)
        /\ "send" \notin Faults => n.outstanding = Cardinality(R \cup C)
    BY <1>11, <1>14, <2>2, <2>3
  <2> QED BY <1>11, <1>14, <2>1, <2>4 DEF Counted
<1>16. Replayable(n, FALSE)
  <2>1. ASSUME NEW t \in TaskId, t \notin C, NEW u, Only(s, u, t) PROVE Only(n, u, t)
    BY <1>14, <2>1 DEF Only, h
  <2>2. ASSUME NEW t \in C PROVE Only(n, w, t)
    <3>1. \A v \in Worker : t \notin h(v)
      BY <1>10, <1>13
    <3> QED BY <1>1, <1>14, <3>1 DEF Only
  <2>3. ASSUME NEW t \in R \cup C
        PROVE  Only(n, n.mgr.fTaskToWorker[t], t) /\ n.mgr.fTaskToWorker[t] \in n.registered
    <3>1. n.mgr.fTaskToWorker[t] = IF t \in C THEN w ELSE by(t)
      BY <1>1, <1>4, <1>7, <1>14
    <3> QED BY <1>1, <1>4, <1>10, <1>14, <2>1, <2>2, <3>1
  <2>4. \A t \in D : \E u \in n.registered : Only(n, u, t)
    BY <1>1, <1>10, <1>13, <1>14, <2>1
  <2>5. \A v \in Worker : \A t \in n.history[v] : v \in n.registered /\ (t \in R \cup C \/ t \in D)
    BY <1>10, <1>14
  <2> QED BY ONLY <1>14, <2>3, <2>4, <2>5 DEF Replayable
<1>17. Numbered(n)
  <2>0. n.next = s.next + F /\ n.def = s.def
    BY <1>8 DEF FilledFields, SameLists, SameRest, F
  <2>1. ASSUME NEW t \in TaskId, t >= n.next PROVE ~M!TaskExists(m, t)
    <3>1. t \in Nat /\ t >= s.next /\ t \notin s.next..(s.next + F - 1)
      BY <1>2, <2>0, <2>1, Tasks
    <3>2. t \notin P /\ t \notin R /\ t \notin D /\ t \notin M!QueuedIds(q) /\ t \notin C
      BY <1>4, <1>9, <1>12, <3>1
    <3> QED BY <1>7, <3>2, InABucket
  <2> QED BY <1>2, <1>14, <2>0, <2>1 DEF Numbered
<1>18. Filled(n, s, w, C)
  <2>1. ASSUME NEW t \in C PROVE t \in TaskId /\ t < TasksOf[s.def]
    <3>1. t \in TaskId /\ t \in Nat /\ TasksOf[s.def] \in Nat
      BY <1>2, <1>4, Tasks
    <3>2. t \in s.next..(s.next + F - 1) => t < TasksOf[s.def]
      BY <1>2
    <3>3. t \in P => t < TasksOf[s.def]
      <4>1. t \in P => ~(t >= s.next)
        BY <1>12, <3>1
      <4>2. s.next <= TasksOf[s.def]
        BY DEF Serving
      <4> QED BY <1>2, <3>1, <4>1, <4>2
    <3> QED BY <1>4, <3>1, <3>2, <3>3
  <2>2. ASSUME \A t \in TaskId : t < s.next => M!TaskExists(s.mgr, t), NEW t \in TaskId, t < n.next
        PROVE  M!TaskExists(n.mgr, t)
    <3>0. n.next = s.next + F /\ t \in Nat
      BY <1>8, Tasks DEF FilledFields, F
    <3>1. CASE t < s.next
      <4>1. t \in P \/ t \in R \/ t \in D
        BY <1>1, <2>2, <3>1, InABucket DEF P, R, D
      <4> QED BY <1>7, <1>14, <4>1, InABucket
    <3>2. CASE ~(t < s.next)
      <4>1. t - s.next + 1 \in 1..F /\ s.next + (t - s.next + 1) - 1 = t
        BY <1>2, <2>2, <3>0, <3>2
      <4>2. t \in M!QueuedIds(q)
        BY <1>5, <4>1 DEF M!QueuedIds
      <4> QED BY <1>7, <1>14, <4>2, InABucket
    <3> QED BY <3>1, <3>2
  <2>3. \A t \in TaskId : n.mgr.fTaskToWorker[t] = IF t \in C THEN w ELSE s.mgr.fTaskToWorker[t]
    BY <1>7, <1>14 DEF by
  <2> QED BY <1>8, <1>13, <1>14, <2>1, <2>2, <2>3 DEF Filled, FilledFields, R, D
<1>19. /\ n \in Sups /\ SameLists(n, s) /\ Books(n, FALSE)
       /\ \A t \in C : t \in M!Running(n.mgr) /\ n.mgr.fTaskToWorker[t] = w
  BY <1>4, <1>7, <1>8, <1>14, <1>15, <1>16, <1>17 DEF Books, FilledFields
<1> QED BY <1>18, <1>19 DEF Fills

\* The message cannot be sent: its tasks go back to the queue.
Refused(s, ids, w, turn) == [s EXCEPT !.mgr = M!RequeueAll(@, ids), !.failed = @ \cup {w}, !.turn = turn]

\* w has just been given the tasks of ids.
Given(s, w, ids) ==
  /\ s \in Sups /\ Books(s, FALSE) /\ w \in s.registered
  /\ ids \in Seq(TaskId) /\ \A i, j \in 1..Len(ids) : ids[i] = ids[j] => i = j
  /\ \A t \in Range(ids) : t \in M!Running(s.mgr) /\ s.mgr.fTaskToWorker[t] = w

\* The tasks of C wait again.
PutBack(n, s, C) ==
  /\ n.history = s.history /\ n.next = s.next /\ SameMessages(n, s)
  /\ n.mgr.fDone = s.mgr.fDone
  /\ \A t \in TaskId : t \notin C => n.mgr.fTaskToWorker[t] = s.mgr.fTaskToWorker[t]
  /\ \A t \in TaskId : M!TaskExists(s.mgr, t) => M!TaskExists(n.mgr, t)

LEMMA RefusedBooks ==
  ASSUME NEW s, NEW w, NEW ids, Given(s, w, ids), "send" \in Faults, NEW turn \in Nat,
         NEW n, n = Refused(s, ids, w, turn)
  PROVE  /\ n \in Sups /\ SameRest(n, s) /\ n.vec = s.vec /\ n.registered = s.registered
         /\ Books(n, TRUE) /\ n.failed = s.failed \cup {w} /\ PutBack(n, s, Range(ids))
<1> DEFINE C == Range(ids)
           m == M!RequeueAll(s.mgr, ids)
           P == s.mgr.fPendingIds
           R == M!Running(s.mgr)
           D == s.mgr.fDone
           F == s.failed \cup {w}
           by(t) == s.mgr.fTaskToWorker[t]
<1>0. /\ s \in Sups /\ Books(s, FALSE) /\ w \in s.registered
      /\ ids \in Seq(TaskId) /\ \A i, j \in 1..Len(ids) : ids[i] = ids[j] => i = j
      /\ \A t \in C : t \in R /\ by(t) = w
  BY DEF Given
<1>1. /\ Sound(s.mgr) /\ P \in SUBSET TaskId /\ R \in SUBSET TaskId /\ D \in SUBSET TaskId
      /\ s.registered \in SUBSET Worker /\ w \in Worker /\ F \in SUBSET Worker
      /\ \A v \in Worker : s.history[v] \in SUBSET TaskId
  <2>1. Sound(s.mgr)
    BY <1>0 DEF Books
  <2>2. P \in SUBSET TaskId /\ R \in SUBSET TaskId /\ D \in SUBSET TaskId
    BY <2>1, SoundTypes
  <2>3. s.registered \in SUBSET Worker /\ s.failed \in SUBSET Worker /\ s.history \in [Worker -> SUBSET TaskId]
    BY <1>0, SupTypes
  <2> QED BY <1>0, <2>1, <2>2, <2>3
<1>2. \A t \in R : t \notin P /\ t \notin D
  BY <1>1, InABucket
<1>3. Sees(m, P \cup C, R \ C, D \ C, [t \in TaskId |-> IF t \in C THEN NoWorker ELSE by(t)])
  <2>1. \A i \in 1..Len(ids) : M!CanRequeue(s.mgr, ids[i])
    BY <1>0, <1>1, InABucket DEF Range
  <2>2. Requeues(M!RequeueAll(s.mgr, ids), s.mgr, C)
    <3>1. Sound(s.mgr) /\ ids \in Seq(TaskId) /\ C = Range(ids) /\ \A i, j \in 1..Len(ids) : ids[i] = ids[j] => i = j
      BY <1>0, <1>1
    <3> HIDE DEF C
    <3> QED BY ONLY <2>1, <3>1, RequeueAllSees
  <2> QED BY <2>2 DEF Requeues
<1>4. C \in SUBSET R
  BY <1>0
<1>5. n = [s EXCEPT !.mgr = m, !.failed = F, !.turn = turn]
  BY DEF Refused
<1> HIDE DEF C, m, P, R, D, F, by
<1>6. /\ Sound(m) /\ m \in Managers /\ m.fPendingIds = P \cup C /\ M!Running(m) = R \ C /\ m.fDone = D
      /\ \A t \in TaskId : m.fTaskToWorker[t] = IF t \in C THEN NoWorker ELSE by(t)
  BY <1>2, <1>3, <1>4, SoundTypes DEF Sees
<1>7. /\ n \in Sups /\ SameRest(n, s) /\ n.vec = s.vec /\ n.registered = s.registered /\ n.failed = F
      /\ n.mgr = m /\ n.history = s.history /\ n.counts = s.counts /\ n.acked = s.acked
      /\ n.outstanding = s.outstanding /\ n.next = s.next /\ SameMessages(n, s)
  BY ONLY <1>0, <1>1, <1>5, <1>6, turn \in Nat DEF Sups, SameRest, SameMessages
<1>8. Counted(n)
  <2>1. /\ \A v \in Worker : s.counts[v] = Cardinality(D \cap s.history[v])
        /\ s.acked = Cardinality(D) /\ s.outstanding >= Cardinality(R)
    BY <1>0 DEF Books, Counted, D, R
  <2>2. Cardinality(R \ C) \in Nat /\ Cardinality(R) \in Nat /\ Cardinality(R \ C) <= Cardinality(R)
    <3>1. R \ C \in SUBSET TaskId
      BY <1>1
    <3> QED BY <1>1, <3>1, SubsetFacts, FS_Subset
  <2>3. s.outstanding \in Nat
    BY <1>0, SupTypes
  <2>4. s.outstanding >= Cardinality(R \ C)
    BY <2>1, <2>2, <2>3
  <2> QED BY <1>6, <1>7, <2>1, <2>4 DEF Counted
<1>9. Replayable(n, TRUE)
  <2>1. /\ \A t \in R : Only(s, by(t), t) /\ by(t) \in s.registered
        /\ \A t \in D : \E u \in s.registered : Only(s, u, t)
        /\ \A v \in Worker : \A t \in s.history[v] : v \in s.registered /\ (t \in R \/ t \in D)
    BY <1>0 DEF Books, Replayable, R, D, by
  <2>2. \A t, u : Only(s, u, t) => Only(n, u, t)
    BY <1>7 DEF Only
  <2>3. \A t \in R \ C : n.mgr.fTaskToWorker[t] = by(t)
    BY <1>1, <1>6, <1>7
  <2>4. ASSUME NEW v \in Worker, NEW t \in s.history[v], t \in C PROVE v = w
    <3>1. Only(s, w, t)
      BY <1>0, <1>4, <2>1, <2>4
    <3> QED BY <2>4, <3>1 DEF Only
  <2>5. \A v \in Worker : \A t \in s.history[v] : t \in R \ C \/ t \in D \/ v \in F
    BY <2>1, <2>4 DEF F
  <2>6. M!Running(n.mgr) = R \ C /\ n.mgr.fDone = D
    BY <1>6, <1>7
  <2>7. \A t \in R \ C : Only(n, n.mgr.fTaskToWorker[t], t) /\ n.mgr.fTaskToWorker[t] \in n.registered
    BY <1>7, <2>1, <2>2, <2>3
  <2>8. \A t \in D : \E u \in n.registered : Only(n, u, t)
    BY <1>7, <2>1, <2>2
  <2>9. \A v \in Worker : \A t \in n.history[v] :
          v \in n.registered /\ (t \in R \ C \/ t \in D \/ (TRUE /\ v \in n.failed))
    BY <1>7, <2>1, <2>5
  <2> QED BY ONLY <2>6, <2>7, <2>8, <2>9 DEF Replayable
<1>10. Numbered(n)
  <2>1. /\ s.def # 0 => s.next <= TasksOf[s.def]
        /\ \A t \in TaskId : t >= s.next => t \notin P /\ t \notin R /\ t \notin D
    BY <1>0, <1>1, InABucket DEF Books, Numbered, P, R, D
  <2>2. \A t \in TaskId : t >= s.next => ~M!TaskExists(m, t)
    BY <1>4, <1>6, <2>1, InABucket
  <2> QED BY <1>7, <2>1, <2>2 DEF Numbered, SameRest
<1>11. PutBack(n, s, Range(ids))
  <2>1. \A t \in TaskId : M!TaskExists(s.mgr, t) => M!TaskExists(m, t)
    <3>1. \A t \in TaskId : M!TaskExists(s.mgr, t) => t \in P \/ t \in R \/ t \in D
      BY <1>1, InABucket DEF P, R, D
    <3> QED BY <1>6, <3>1, InABucket
  <2> QED BY <1>6, <1>7, <2>1 DEF PutBack, C, D, by
<1> QED BY <1>6, <1>7, <1>8, <1>9, <1>10, <1>11 DEF Books, F

-----------------------------------------------------------------------------
(* What the books do not depend on *)

SameBooks(n, s) ==
  /\ n.mgr = s.mgr /\ n.history = s.history /\ n.counts = s.counts /\ n.acked = s.acked
  /\ n.outstanding = s.outstanding /\ n.def = s.def /\ n.next = s.next
  /\ s.registered \subseteq n.registered /\ s.failed \subseteq n.failed

LEMMA BooksKept ==
  ASSUME NEW s, NEW n, NEW c, Books(s, c), SameBooks(n, s)
  PROVE  Books(n, c)
<1>1. /\ n.mgr = s.mgr /\ n.history = s.history /\ n.counts = s.counts /\ n.acked = s.acked
      /\ n.outstanding = s.outstanding /\ n.def = s.def /\ n.next = s.next
      /\ \A v \in s.registered : v \in n.registered
      /\ \A v \in s.failed : v \in n.failed
  BY DEF SameBooks
<1>2. Counted(n) /\ Numbered(n)
  BY <1>1 DEF Books, Counted, Numbered
<1>3. Replayable(n, c)
  <2>1. \A t, u : Only(s, u, t) <=> Only(n, u, t)
    BY <1>1 DEF Only
  <2> QED BY <1>1, <2>1 DEF Books, Replayable
<1> QED BY <1>1, <1>2, <1>3 DEF Books

LEMMA BooksCleaned ==
  ASSUME NEW s, NEW c, NEW e \in BOOLEAN, Books(s, c), c => e \/ s.registered \cap s.failed = {}
  PROVE  Books(s, e)
<1>1. Replayable(s, e)
  BY DEF Books, Replayable
<1> QED BY <1>1 DEF Books

\* n is s with the books of definition d, which are empty.
Begun(n, s, d) ==
  /\ n \in Sups /\ Books(n, FALSE) /\ n.def = d
  /\ n.vec = s.vec /\ n.registered = s.registered /\ n.failed = s.failed
  /\ n.pendingReady = s.pendingReady /\ n.initing = s.initing /\ n.pendingInit = {}
  /\ n.earlyDone = s.earlyDone /\ n.doneWorkers = s.doneWorkers
  /\ n.next = 0 /\ n.mgr.fDone = {} /\ M!Running(n.mgr) = {}
  /\ n.history = [v \in Worker |-> {}]
  /\ n.inFlight = [v \in Worker |-> 0] /\ n.outstandingMessages = 0

LEMMA BeginBooks ==
  ASSUME NEW s \in Sups, NEW d \in Defs, NEW n, n = Begin(s, d)
  PROVE  Begun(n, s, d)
<1> DEFINE expected == Max({1, IF IsTcp THEN Cardinality(Worker) ELSE Len(s.vec)})
           fairCap == Max({1, TasksOf[d] \div (expected * 2)})
           B == Max({1, Min({BatchSize, fairCap})})
           Z == [w \in Worker |-> 0]
           H == [w \in Worker |-> {}]
           m == M!Empty
<1>1. B \in Nat \ {0}
  <2>1. Cardinality(Worker) \in Nat /\ Len(s.vec) \in Nat /\ TasksOf[d] \in Nat /\ BatchSize \in Nat
    BY RunnerConstants, ExecutorConstants, FS_CardinalityType, Tasks, SupTypes
  <2>2. \A x \in Int : Max({1, x}) \in Nat \ {0}
    BY NotNegative
  <2>3. expected \in Nat \ {0}
    BY <2>1, <2>2
  <2> HIDE DEF expected
  <2>4. TasksOf[d] \div (expected * 2) \in Int
    BY <2>1, <2>3
  <2>5. fairCap \in Nat
    BY <2>2, <2>4
  <2> HIDE DEF fairCap
  <2>6. \A a, b \in Nat : Min({a, b}) \in Nat
    BY TwoNumbers
  <2>7. Min({BatchSize, fairCap}) \in Int
    BY <2>1, <2>5, <2>6
  <2> QED BY <2>2, <2>7
<1>2. n = [s EXCEPT !.def = d, !.mgr = m, !.next = 0, !.outstanding = 0, !.outstandingMessages = 0,
               !.acked = 0, !.turn = 0, !.pendingInit = {}, !.batch = B,
               !.inFlight = Z, !.history = H, !.counts = Z]
  BY DEF Begin
<1>3. /\ Sees(m, {}, {}, {}, [t \in TaskId |-> NoWorker]) /\ Sound(m) /\ m \in Managers
      /\ m.fPendingIds = {} /\ M!Running(m) = {} /\ m.fDone = {}
  BY EmptySees, SoundTypes DEF Sees
<1>4. Z \in [Worker -> Nat] /\ H \in [Worker -> SUBSET TaskId] /\ d \in 0..Len(TasksOf)
  BY DEF Defs
<1> HIDE DEF m, Z, H, B
<1>5. /\ n \in Sups /\ n.def = d /\ n.mgr = m /\ n.next = 0 /\ n.outstanding = 0 /\ n.acked = 0
      /\ n.history = H /\ n.counts = Z
      /\ n.vec = s.vec /\ n.registered = s.registered /\ n.failed = s.failed
      /\ n.pendingReady = s.pendingReady /\ n.initing = s.initing /\ n.pendingInit = {}
      /\ n.earlyDone = s.earlyDone /\ n.doneWorkers = s.doneWorkers
      /\ n.inFlight = Z /\ n.outstandingMessages = 0
  BY ONLY <1>1, <1>2, <1>3, <1>4, s \in Sups DEF Sups
<1>6. Counted(n)
  <2>1. \A v \in Worker : n.counts[v] = Cardinality(m.fDone \cap n.history[v])
    BY <1>3, <1>5, FS_EmptySet DEF Z
  <2>2. Cardinality(m.fDone) = 0 /\ Cardinality(M!Running(m)) = 0
    BY <1>3, FS_EmptySet
  <2> QED BY <1>5, <2>1, <2>2 DEF Counted
<1>7. Replayable(n, FALSE)
  BY <1>3, <1>5 DEF Replayable, H
<1>8. Numbered(n)
  <2>1. 0 <= TasksOf[d]
    BY Tasks
  <2>2. \A t \in TaskId : ~M!TaskExists(m, t)
    BY <1>3, InABucket
  <2> QED BY <1>5, <2>1, <2>2 DEF Numbered
<1> QED BY <1>3, <1>5, <1>6, <1>7, <1>8 DEF Books, Begun, Z, H

-----------------------------------------------------------------------------
(* Messages *)

LEMMA MessageTypes ==
  /\ \A c \in {"READY", "INIT", "TASK", "TASKB", "ACK", "ACKB", "DONE", "ERR"}, ids \in Seq(TaskId) :
       Msg(c, ids) \in Messages /\ Msg(c, ids).cmd = c
  /\ \A d \in Defs : SetDef(d) \in Messages
  /\ \A a \in BOOLEAN : Stop(a) \in Messages
  /\ \A r \in {"stop", "abort", "interrupted"} : Shutdown(r) \in Messages /\ Shutdown(r).cmd = "SHUTDOWN"
BY DEF Messages, Msg, SetDef, Stop, Shutdown

LEMMA MessageFields ==
  ASSUME NEW m \in Messages
  PROVE  /\ m.cmd \in {"READY", "INIT", "TASK", "TASKB", "ACK", "ACKB", "DONE", "ERR"} => m.ids \in Seq(TaskId)
         /\ m.cmd = "SETDEF" => m.def \in Defs
         /\ m.cmd = "STOP" => m.abort \in BOOLEAN
BY DEF Messages

\* toWorker grows by one message, for the workers of ws.
LEMMA SendTypes ==
  ASSUME Typed, NEW m \in Messages, NEW ws, SendAll(ws, m) \/ \E w \in Worker : Send(w, m)
  PROVE  toWorker' \in [Worker -> Seq(Messages)]
<1>1. toWorker \in [Worker -> Seq(Messages)] /\ \A w \in Worker : Append(toWorker[w], m) \in Seq(Messages)
  BY DEF Typed
<1>2. CASE SendAll(ws, m)
  BY <1>1, <1>2 DEF SendAll
<1>3. CASE \E w \in Worker : Send(w, m)
  BY <1>1, <1>3 DEF Send
<1> QED BY <1>2, <1>3

LEMMA TakesTypes ==
  ASSUME Typed, NEW w \in Worker, Takes(w)
  PROVE  /\ toSup' \in [Worker -> Seq(Messages)] /\ Head(toSup[w]) \in Messages
         /\ toSup[w] # << >> /\ toSup'[w] = Tail(toSup[w])
         /\ \A v \in Worker : v # w => toSup'[v] = toSup[v]
<1>1. /\ toSup \in [Worker -> Seq(Messages)] /\ toSup[w] \in Seq(Messages) /\ toSup[w] # << >>
      /\ toSup' = [toSup EXCEPT ![w] = Tail(@)]
  BY DEF Typed, Takes
<1>2. Head(toSup[w]) \in Messages /\ Tail(toSup[w]) \in Seq(Messages)
  BY <1>1
<1> QED BY <1>1, <1>2

LEMMA HeardHead ==
  ASSUME NEW s, NEW w, NEW p, NEW q \in Seq(Messages), Heard(s, w, p, q), q # << >>
  PROVE  /\ p # "off" /\ (Head(q).cmd = "READY" => ~Known(s, w))
         /\ \A i \in 1..Len(Tail(q)) : Tail(q)[i].cmd # "READY"
<1>1. /\ Len(q) \in Nat \ {0} /\ Head(q) = q[1] /\ Len(Tail(q)) = Len(q) - 1
      /\ \A i \in 1..Len(Tail(q)) : Tail(q)[i] = q[i + 1]
  OBVIOUS
<1> DEFINE t == Tail(q)
<1> HIDE DEF t
<1>2. /\ Len(q) \in Nat \ {0} /\ Head(q) = q[1] /\ Len(t) = Len(q) - 1 /\ \A i \in 1..Len(t) : t[i] = q[i + 1]
  BY <1>1 DEF t
<1>3. \A i \in 1..Len(t) : i + 1 \in 1..Len(q) /\ i + 1 # 1
  BY <1>2
<1>4. 1 \in 1..Len(q)
  BY <1>2
<1>5. \A i \in 1..Len(t) : t[i].cmd # "READY"
  BY <1>2, <1>3 DEF Heard
<1> QED BY <1>2, <1>4, <1>5 DEF Heard, t

\* A step of the supervisor takes at most the first message of each worker,
\* and knows of no worker more than it knew or heard of now.
Listens ==
  \A v \in Worker :
    /\ wpc'[v] = "off" => wpc[v] = "off"
    /\ \/ toSup'[v] = toSup[v] /\ (Known(sup', v) => Known(sup, v))
       \/ toSup[v] # << >> /\ toSup'[v] = Tail(toSup[v])

LEMMA JoinsKept ==
  ASSUME Typed, Joins, Stages(sup'), Listens
  PROVE  Joins'
<1> SUFFICES ASSUME NEW v \in Worker PROVE Heard(sup', v, wpc'[v], toSup'[v])
  BY DEF Joins
<1>1. Heard(sup, v, wpc[v], toSup[v]) /\ toSup[v] \in Seq(Messages)
  BY DEF Joins, Typed
<1>2. CASE toSup'[v] = toSup[v] /\ (Known(sup', v) => Known(sup, v))
  BY <1>1, <1>2 DEF Heard, Listens
<1>3. CASE toSup[v] # << >> /\ toSup'[v] = Tail(toSup[v])
  BY <1>1, <1>3, HeardHead DEF Heard, Listens
<1> QED BY <1>2, <1>3 DEF Listens

-----------------------------------------------------------------------------
(* The steps of the workers *)

LEMMA ReceivesTypes ==
  ASSUME Typed, NEW w \in Worker, NEW c, Receives(w, c)
  PROVE  /\ toWorker' \in [Worker -> Seq(Messages)] /\ Head(toWorker[w]) \in Messages
         /\ Head(toWorker[w]).cmd = c /\ toWorker[w] # << >>
<1>1. toWorker \in [Worker -> Seq(Messages)] /\ toWorker[w] \in Seq(Messages) /\ toWorker[w] # << >>
  BY DEF Typed, Receives
<1>2. Head(toWorker[w]) \in Messages /\ Tail(toWorker[w]) \in Seq(Messages)
  BY <1>1
<1> QED BY <1>1, <1>2 DEF Receives

\* w goes to p and has sent q.
Turn(w, p, q) ==
  /\ p \in WorkerStates /\ q \in Seq(Messages) /\ Heard(sup, w, p, q)
  /\ wpc' = [wpc EXCEPT ![w] = p] /\ toSup' = [toSup EXCEPT ![w] = q]
  /\ toWorker' \in [Worker -> Seq(Messages)]

LEMMA TurnKeeps ==
  ASSUME Inv, NEW w \in Worker, NEW p, NEW q, Turn(w, p, q), UNCHANGED supervisor
  PROVE  Inv'
<1>1. sup' = sup /\ pc' = pc
  BY DEF supervisor
<1>2. Typed'
  BY <1>1 DEF Inv, Typed, Turn
<1>3. Joins'
  <2>1. ASSUME NEW v \in Worker PROVE Heard(sup, v, wpc'[v], toSup'[v])
    BY DEF Inv, Typed, Joins, Turn
  <2> QED BY <1>1, <2>1 DEF Inv, Joins
<1> QED BY <1>1, <1>2, <1>3 DEF Inv

\* The worker has joined and answers without READY.
LEMMA ReplyTurn ==
  ASSUME Typed, Joins, NEW w \in Worker, wpc[w] # "off", NEW p \in WorkerStates \ {"off"}, Goes(w, p),
         NEW g \in Seq(Messages), \A i \in 1..Len(g) : g[i].cmd # "READY", Reply(w, g),
         toWorker' \in [Worker -> Seq(Messages)]
  PROVE  Turn(w, p, toSup[w] \o g)
<1> DEFINE f == toSup[w]
           q == f \o g
<1>1. f \in Seq(Messages) /\ Heard(sup, w, wpc[w], f) /\ toSup' = [toSup EXCEPT ![w] = q]
  BY DEF Typed, Joins, Reply
<1>2. q \in Seq(Messages)
  BY <1>1
<1>3. \A i \in 1..Len(q) : q[i].cmd = "READY" => i \in 1..Len(f) /\ q[i] = f[i]
  <2> HIDE DEF f
  <2>1. /\ Len(q) = Len(f) + Len(g) /\ Len(f) \in Nat /\ Len(g) \in Nat
        /\ \A i \in 1..Len(q) : q[i] = IF i <= Len(f) THEN f[i] ELSE g[i - Len(f)]
    BY <1>1, Concatenation
  <2> HIDE DEF q
  <2>2. \A i \in 1..Len(q) : IF i <= Len(f) THEN i \in 1..Len(f) ELSE i - Len(f) \in 1..Len(g)
    BY <2>1
  <2> QED BY <2>1, <2>2
<1> HIDE DEF f, q
<1>4. Heard(sup, w, p, q)
  BY <1>1, <1>3 DEF Heard
<1>5. wpc' = [wpc EXCEPT ![w] = p]
  BY DEF Goes
<1>6. Turn(w, p, q)
  BY <1>1, <1>2, <1>4, <1>5 DEF Turn
<1> QED BY <1>6 DEF q, f

\* The worker goes on without a message, or loses some.
LEMMA SilentTurn ==
  ASSUME Typed, Joins, NEW w \in Worker, wpc[w] # "off", NEW p \in WorkerStates \ {"off"}, Goes(w, p),
         NEW q \in Prefixes(toSup[w]), toSup' = [toSup EXCEPT ![w] = q],
         toWorker' \in [Worker -> Seq(Messages)]
  PROVE  Turn(w, p, q)
<1> DEFINE f == toSup[w]
<1>1. f \in Seq(Messages) /\ Heard(sup, w, wpc[w], f)
  BY DEF Typed, Joins
<1>2. PICK n \in 0..Len(f) : q = SubSeq(f, 1, n)
  BY DEF Prefixes
<1> HIDE DEF f
<1>3. /\ q \in Seq(Messages) /\ Len(q) = n /\ n \in Nat /\ n <= Len(f) /\ Len(f) \in Nat
      /\ \A i \in 1..n : q[i] = f[i]
  BY <1>1, <1>2
<1>4. Heard(sup, w, p, q)
  <2>1. \A i \in 1..Len(f) : f[i].cmd = "READY" => i = 1 /\ ~Known(sup, w)
    BY <1>1 DEF Heard
  <2>2. ASSUME NEW i \in 1..Len(q) PROVE i \in 1..Len(f) /\ q[i] = f[i]
    BY <1>3
  <2>3. \A i \in 1..Len(q) : q[i].cmd = "READY" => i = 1 /\ ~Known(sup, w)
    BY <2>1, <2>2
  <2> QED BY <2>3 DEF Heard
<1> QED BY <1>3, <1>4 DEF Turn, Goes

LEMMA NoLoss ==
  ASSUME Typed, NEW w \in Worker, toSup' = toSup
  PROVE  toSup[w] \in Prefixes(toSup[w]) /\ toSup' = [toSup EXCEPT ![w] = toSup[w]]
<1> DEFINE f == toSup[w]
<1>1. f \in Seq(Messages) /\ toSup \in [Worker -> Seq(Messages)]
  BY DEF Typed
<1>2. toSup' = [toSup EXCEPT ![w] = f]
  BY <1>1
<1> HIDE DEF f
<1>3. f = SubSeq(f, 1, Len(f)) /\ Len(f) \in 0..Len(f)
  BY <1>1
<1>4. f \in Prefixes(f)
  BY <1>3 DEF Prefixes
<1> QED BY <1>2, <1>4 DEF f

LEMMA Stays ==
  ASSUME Typed, NEW w \in Worker, wpc' = wpc
  PROVE  Goes(w, wpc[w]) /\ wpc[w] \in WorkerStates
BY DEF Typed, Goes

LEMMA WorkerKeeps ==
  ASSUME Inv, NEW w \in Worker, WorkerStep(w) \/ GiveUpInit(w, Over) \/ WorkerFault(w), UNCHANGED supervisor
  PROVE  Inv'
<1>0. /\ Typed /\ Joins /\ wpc[w] \in WorkerStates /\ toSup[w] \in Seq(Messages)
      /\ toWorker \in [Worker -> Seq(Messages)] /\ toWorker[w] \in Seq(Messages)
  BY DEF Inv, Typed
<1>1. SUFFICES \E p, q : Turn(w, p, q)
  BY TurnKeeps
<1>2. \A c, ids : ids \in Seq(TaskId) /\ c \in {"INIT", "ACK", "ACKB", "DONE", "ERR"} =>
        /\ <<Msg(c, ids)>> \in Seq(Messages) /\ \A i \in 1..Len(<<Msg(c, ids)>>) : <<Msg(c, ids)>>[i].cmd # "READY"
  <2> SUFFICES ASSUME NEW c \in {"INIT", "ACK", "ACKB", "DONE", "ERR"}, NEW ids \in Seq(TaskId)
               PROVE  /\ <<Msg(c, ids)>> \in Seq(Messages)
                      /\ \A i \in 1..Len(<<Msg(c, ids)>>) : <<Msg(c, ids)>>[i].cmd # "READY"
    OBVIOUS
  <2> DEFINE m == Msg(c, ids)
  <2>1. m \in Messages /\ m.cmd # "READY"
    BY MessageTypes
  <2> HIDE DEF m
  <2>2. <<m>> \in Seq(Messages) /\ \A i \in 1..Len(<<m>>) : <<m>>[i].cmd # "READY"
    BY <2>1
  <2> QED BY <2>2 DEF m
<1>3. ASSUME NEW r \in {"stop", "abort", "interrupted"}, NEW m, m = Shutdown(r)
      PROVE  <<m>> \in Seq(Messages) /\ \A i \in 1..Len(<<m>>) : <<m>>[i].cmd # "READY"
  <2>1. m \in Messages /\ m.cmd # "READY"
    BY <1>3, MessageTypes
  <2> HIDE <1>3
  <2> QED BY ONLY <2>1
<1>4. << >> \in Seq(TaskId)
  OBVIOUS
<1>5. CASE Connect(w)
  <2> DEFINE m == Msg("READY", << >>)
             p == IF IsTcp THEN "waitInit" ELSE "loop"
  <2>1. toSup[w] = << >> /\ ~Known(sup, w)
    BY <1>0, <1>5 DEF Connect, Joins, Heard
  <2>2. m \in Messages
    BY <1>4, MessageTypes
  <2>3. toSup' = [toSup EXCEPT ![w] = << >> \o <<m>>]
    BY <1>5, <2>1 DEF Connect, Reply
  <2> HIDE DEF m
  <2>4. << >> \o <<m>> = <<m>> /\ <<m>> \in Seq(Messages) /\ Len(<<m>>) = 1
    BY <2>2
  <2>5. p \in WorkerStates /\ p # "off" /\ wpc' = [wpc EXCEPT ![w] = p] /\ toWorker' = toWorker
    BY <1>5 DEF WorkerStates, Connect, Goes
  <2> HIDE DEF p
  <2>6. Heard(sup, w, p, <<m>>)
    BY <2>1, <2>4, <2>5 DEF Heard
  <2>7. Turn(w, p, <<m>>)
    BY <1>0, <2>3, <2>4, <2>5, <2>6 DEF Turn
  <2> QED BY <2>7
<1>6. CASE ReceiveInit(w)
  <2> DEFINE g == <<Msg("ACK", << >>)>>
  <2>1. /\ wpc[w] # "off" /\ "loop" \in WorkerStates \ {"off"} /\ Goes(w, "loop") /\ Reply(w, g)
        /\ toWorker' \in [Worker -> Seq(Messages)]
    BY <1>0, <1>6, ReceivesTypes DEF ReceiveInit, WorkerStates
  <2>2. g \in Seq(Messages) /\ \A i \in 1..Len(g) : g[i].cmd # "READY"
    BY <1>2, <1>4
  <2> HIDE DEF g
  <2> QED BY <1>0, <2>1, <2>2, ReplyTurn
<1>7. CASE StopBeforeInit(w)
  <2>1. /\ wpc[w] # "off" /\ "exited" \in WorkerStates \ {"off"} /\ Goes(w, "exited") /\ toSup' = toSup
        /\ toWorker' \in [Worker -> Seq(Messages)]
    BY <1>0, <1>7, ReceivesTypes DEF StopBeforeInit, WorkerStates
  <2> QED BY <1>0, <2>1, NoLoss, SilentTurn
<1>8. CASE GiveUpInit(w, Over)
  <2>1. /\ wpc[w] # "off" /\ "exited" \in WorkerStates \ {"off"} /\ Goes(w, "exited") /\ toSup' = toSup
        /\ toWorker' \in [Worker -> Seq(Messages)]
    BY <1>0, <1>8 DEF GiveUpInit, WorkerStates, channels
  <2> QED BY <1>0, <2>1, NoLoss, SilentTurn
<1>9. CASE ReceiveSetDef(w)
  <2>1. /\ wpc[w] # "off" /\ wpc[w] \in WorkerStates \ {"off"} /\ wpc' = wpc /\ toSup' = toSup
        /\ toWorker' \in [Worker -> Seq(Messages)]
    BY <1>0, <1>9, ReceivesTypes DEF ReceiveSetDef, WorkerStates
  <2>2. Goes(w, wpc[w])
    BY <1>0, <2>1, Stays
  <2> QED BY <1>0, <2>1, <2>2, NoLoss, SilentTurn
<1>10. CASE ReceiveTask(w) \/ ReceiveBatch(w)
  <2> DEFINE ids == Head(toWorker[w]).ids
             c == Head(toWorker[w]).cmd
             g == <<Msg(IF c = "TASK" THEN "ACK" ELSE "ACKB", ids)>>
  <2>1. /\ wpc[w] # "off" /\ wpc[w] \in WorkerStates \ {"off"} /\ wpc' = wpc /\ Reply(w, g)
        /\ toWorker' \in [Worker -> Seq(Messages)] /\ ids \in Seq(TaskId)
    BY <1>0, <1>10, ReceivesTypes, MessageFields DEF ReceiveTask, ReceiveBatch, WorkerStates
  <2>2. Goes(w, wpc[w])
    BY <1>0, <2>1, Stays
  <2>3. g \in Seq(Messages) /\ \A i \in 1..Len(g) : g[i].cmd # "READY"
    BY <1>2, <2>1
  <2> HIDE DEF g
  <2> QED BY <1>0, <2>1, <2>2, <2>3, ReplyTurn
<1>11. CASE TaskThrows(w)
  <2> DEFINE ids == Head(toWorker[w]).ids
  <2>1. /\ wpc[w] # "off" /\ "closing" \in WorkerStates \ {"off"} /\ Goes(w, "closing")
        /\ toWorker' \in [Worker -> Seq(Messages)] /\ ids \in Seq(TaskId)
    BY <1>0, <1>11, ReceivesTypes, MessageFields DEF TaskThrows, WorkerStates
  <2>2. PICK k \in 1..Len(ids) : Reply(w, <<Msg("ERR", <<ids[k]>>)>>)
    BY <1>11 DEF TaskThrows
  <2> DEFINE g == <<Msg("ERR", <<ids[k]>>)>>
  <2>3. <<ids[k]>> \in Seq(TaskId)
    <3> HIDE DEF ids
    <3> QED BY <2>1
  <2>4. g \in Seq(Messages) /\ \A i \in 1..Len(g) : g[i].cmd # "READY"
    BY <1>2, <2>3
  <2> HIDE DEF g
  <2>5. Reply(w, g)
    BY <2>2 DEF g
  <2> QED BY <1>0, <2>1, <2>4, <2>5, ReplyTurn
<1>12. CASE AckFails(w)
  <2>1. /\ wpc[w] # "off" /\ "closing" \in WorkerStates \ {"off"} /\ Goes(w, "closing") /\ toSup' = toSup
        /\ toWorker' \in [Worker -> Seq(Messages)]
    BY <1>0, <1>12, ReceivesTypes DEF AckFails, WorkerStates
  <2> QED BY <1>0, <2>1, NoLoss, SilentTurn
<1>13. CASE ReceiveStop(w)
  <2>1. /\ wpc[w] # "off" /\ toWorker' \in [Worker -> Seq(Messages)]
        /\ \E p \in {"closed", "closing"}, r \in {"abort", "stop"} : Goes(w, p) /\ Reply(w, <<Shutdown(r)>>)
    BY <1>0, <1>13, ReceivesTypes DEF ReceiveStop
  <2>2. PICK p \in {"closed", "closing"}, r \in {"abort", "stop"} : Goes(w, p) /\ Reply(w, <<Shutdown(r)>>)
    BY <2>1
  <2> DEFINE g == <<Shutdown(r)>>
  <2>3. g \in Seq(Messages) /\ (\A i \in 1..Len(g) : g[i].cmd # "READY") /\ p \in WorkerStates \ {"off"}
    BY <1>3 DEF WorkerStates
  <2>4. Reply(w, g)
    BY <2>2
  <2> HIDE DEF g
  <2> QED BY <1>0, <2>1, <2>2, <2>3, <2>4, ReplyTurn
<1>14. CASE StopInsideBatch(w) \/ Interrupt(w)
  <2> DEFINE ids == Head(toWorker[w]).ids
             Acks(k) == Msg("ACKB", SubSeq(ids, 1, k))
  <2>1. wpc[w] # "off" /\ toWorker' \in [Worker -> Seq(Messages)]
    BY <1>0, <1>14, ReceivesTypes DEF StopInsideBatch, Interrupt
  <2>2. \A r \in {"stop", "abort", "interrupted"} : Shutdown(r) \in Messages /\ Shutdown(r).cmd # "READY"
    BY MessageTypes
  <2>3. Receives(w, "TASKB") => \A k \in 0..Len(ids) : Acks(k) \in Messages /\ Acks(k).cmd # "READY"
    <3> SUFFICES ASSUME Receives(w, "TASKB"), NEW k \in 0..Len(ids)
                 PROVE  Acks(k) \in Messages /\ Acks(k).cmd # "READY"
      OBVIOUS
    <3>1. ids \in Seq(TaskId)
      BY <1>0, ReceivesTypes, MessageFields
    <3> HIDE DEF ids
    <3>2. SubSeq(ids, 1, k) \in Seq(TaskId)
      BY <3>1
    <3> QED BY <3>2, MessageTypes
  <2>4. \A x, y \in Messages : x.cmd # "READY" /\ y.cmd # "READY" =>
          /\ <<x>> \in Seq(Messages) /\ \A i \in 1..Len(<<x>>) : <<x>>[i].cmd # "READY"
          /\ <<x, y>> \in Seq(Messages) /\ \A i \in 1..Len(<<x, y>>) : <<x, y>>[i].cmd # "READY"
    OBVIOUS
  <2>5. \E p \in {"closed", "closing"}, r \in {"stop", "abort", "interrupted"} :
          /\ Goes(w, p)
          /\ \/ Reply(w, <<Shutdown(r)>>)
             \/ Receives(w, "TASKB") /\ \E k \in 0..Len(ids) : Reply(w, <<Shutdown(r), Acks(k)>>)
    <3>1. CASE Interrupt(w)
      <4>1. CASE Reply(w, <<Shutdown("interrupted")>>)
        BY <3>1, <4>1 DEF Interrupt
      <4>2. CASE Receives(w, "TASKB") /\ \E k \in 1..(Len(ids) - 1) : Reply(w, <<Shutdown("interrupted"), Acks(k)>>)
        <5>1. ids \in Seq(TaskId)
          BY <1>0, <4>2, ReceivesTypes, MessageFields
        <5>2. \A k \in 1..(Len(ids) - 1) : k \in 0..Len(ids)
          BY <5>1
        <5> QED BY <3>1, <4>2, <5>2 DEF Interrupt
      <4> QED BY <3>1, <4>1, <4>2 DEF Interrupt
    <3>2. CASE StopInsideBatch(w)
      <4>1. Receives(w, "TASKB") /\ ids \in Seq(TaskId)
        BY <1>0, <3>2, ReceivesTypes, MessageFields DEF StopInsideBatch
      <4> DEFINE rest == Tail(toWorker[w])
                 r(p) == IF rest[p].abort THEN "abort" ELSE "stop"
                 after(k) == IF k = 0 THEN << >> ELSE <<Acks(k)>>
      <4>2. \E p \in 1..Len(rest) : \E k \in (p - 1)..(Len(ids) - 1) :
              Goes(w, IF rest[p].abort THEN "closed" ELSE "closing") /\ Reply(w, <<Shutdown(r(p))>> \o after(k))
        BY <3>2 DEF StopInsideBatch
      <4> HIDE DEF ids, Acks
      <4>p. PICK p \in 1..Len(rest) : \E k \in (p - 1)..(Len(ids) - 1) :
              Goes(w, IF rest[p].abort THEN "closed" ELSE "closing") /\ Reply(w, <<Shutdown(r(p))>> \o after(k))
        BY <4>2
      <4>k. PICK k \in (p - 1)..(Len(ids) - 1) :
              Goes(w, IF rest[p].abort THEN "closed" ELSE "closing") /\ Reply(w, <<Shutdown(r(p))>> \o after(k))
        BY <4>p
      <4>3. k \in 0..Len(ids)
        BY <4>1, <4>p, <4>k
      <4>4. ASSUME NEW x \in Messages, NEW y \in Messages
            PROVE  <<x>> \o << >> = <<x>> /\ <<x>> \o <<y>> = <<x, y>>
        <5>1. <<x>> \o << >> = <<x>>
          OBVIOUS
        <5>2. <<x>> \o <<y>> = <<x, y>>
          <6> DEFINE a == <<x>> \o <<y>>
                     b == <<x, y>>
          <6>1. a \in Seq(Messages) /\ Len(a) = 2 /\ a[1] = x /\ a[2] = y
            OBVIOUS
          <6>2. b \in Seq(Messages) /\ Len(b) = 2 /\ b[1] = x /\ b[2] = y
            OBVIOUS
          <6> HIDE DEF a, b
          <6>3. \A i \in 1..2 : a[i] = b[i]
            BY <6>1, <6>2
          <6>4. a = b
            BY ONLY <6>1, <6>2, <6>3, SameSeq
          <6> QED BY <6>4 DEF a, b
        <5> QED BY <5>1, <5>2
      <4>5. r(p) \in {"stop", "abort", "interrupted"} /\ \E u \in {"closed", "closing"} : Goes(w, u)
        BY <4>k
      <4> HIDE DEF r, rest
      <4>6. Reply(w, <<Shutdown(r(p))>>) \/ Reply(w, <<Shutdown(r(p)), Acks(k)>>)
        <5>1. Shutdown(r(p)) \in Messages /\ Acks(k) \in Messages
          BY <2>2, <2>3, <4>1, <4>3, <4>5
        <5>2. <<Shutdown(r(p))>> \o after(k) \in {<<Shutdown(r(p))>>, <<Shutdown(r(p)), Acks(k)>>}
          BY <4>4, <5>1
        <5> QED BY <4>k, <5>2
      <4> QED BY <4>1, <4>3, <4>5, <4>6
    <3> QED BY <1>14, <3>1, <3>2
  <2> HIDE DEF ids, Acks
  <2>6. \E p \in {"closed", "closing"} : \E g : /\ Goes(w, p) /\ Reply(w, g) /\ g \in Seq(Messages)
                                                /\ \A i \in 1..Len(g) : g[i].cmd # "READY"
    <3>1. PICK p \in {"closed", "closing"}, r \in {"stop", "abort", "interrupted"} :
            /\ Goes(w, p)
            /\ \/ Reply(w, <<Shutdown(r)>>)
               \/ Receives(w, "TASKB") /\ \E k \in 0..Len(ids) : Reply(w, <<Shutdown(r), Acks(k)>>)
      BY <2>5
    <3>2. CASE Reply(w, <<Shutdown(r)>>)
      BY <2>2, <2>4, <3>1, <3>2
    <3>3. CASE Receives(w, "TASKB") /\ \E k \in 0..Len(ids) : Reply(w, <<Shutdown(r), Acks(k)>>)
      <4>1. PICK k \in 0..Len(ids) : Reply(w, <<Shutdown(r), Acks(k)>>)
        BY <3>3
      <4>2. Acks(k) \in Messages /\ Acks(k).cmd # "READY" /\ Shutdown(r) \in Messages /\ Shutdown(r).cmd # "READY"
        BY <2>2, <2>3, <3>3
      <4>3. /\ <<Shutdown(r), Acks(k)>> \in Seq(Messages)
            /\ \A i \in 1..Len(<<Shutdown(r), Acks(k)>>) : <<Shutdown(r), Acks(k)>>[i].cmd # "READY"
        BY <2>4, <4>2
      <4> QED BY <3>1, <4>1, <4>3
    <3> QED BY <3>1, <3>2, <3>3
  <2>7. \A p \in {"closed", "closing"} : p \in WorkerStates \ {"off"}
    BY DEF WorkerStates
  <2> QED BY <1>0, <2>1, <2>6, <2>7, ReplyTurn
<1>15. CASE CloseFile(w)
  <2> DEFINE g == <<Msg("DONE", << >>)>>
  <2>1. /\ wpc[w] # "off" /\ "closed" \in WorkerStates \ {"off"} /\ Goes(w, "closed") /\ Reply(w, g)
        /\ toWorker' \in [Worker -> Seq(Messages)]
    BY <1>0, <1>15 DEF CloseFile, WorkerStates
  <2>2. g \in Seq(Messages) /\ \A i \in 1..Len(g) : g[i].cmd # "READY"
    BY <1>2, <1>4
  <2> HIDE DEF g
  <2> QED BY <1>0, <2>1, <2>2, ReplyTurn
<1>16. CASE Exit(w) \/ Crash(w)
  <2>1. /\ wpc[w] # "off" /\ toWorker' \in [Worker -> Seq(Messages)]
        /\ \E p \in {"exited", "dead"} : Goes(w, p)
    BY <1>0, <1>16 DEF Exit, Crash
  <2>2. \E q \in Prefixes(toSup[w]) : toSup' = [toSup EXCEPT ![w] = q]
    BY <1>0, <1>16, NoLoss DEF Exit, Crash
  <2>3. \A p \in {"exited", "dead"} : p \in WorkerStates \ {"off"}
    BY DEF WorkerStates
  <2> QED BY <1>0, <2>1, <2>2, <2>3, SilentTurn
<1> QED BY <1>5, <1>6, <1>7, <1>8, <1>9, <1>10, <1>11, <1>12, <1>13, <1>14, <1>15, <1>16
        DEF WorkerStep, WorkerFault

-----------------------------------------------------------------------------
(* The steps of the supervisor *)

Looping == {"top", "dispatch", "cleanup", "receive", "idle"}

LEMMA SupKeeps ==
  ASSUME Inv, toWorker' \in [Worker -> Seq(Messages)], toSup' \in [Worker -> Seq(Messages)],
         wpc' \in [Worker -> WorkerStates], sup' \in Sups, Stages(sup'), Listens,
         Books(sup', pc' = "cleanup"), pc' \in Looping => sup'.def # 0
  PROVE  Inv'
<1>1. Joins'
  BY JoinsKept DEF Inv
<1> QED BY <1>1 DEF Inv, Typed, Looping

\* A step that leaves the books alone.
LEMMA SmallKeeps ==
  ASSUME Inv, toWorker' \in [Worker -> Seq(Messages)], toSup' \in [Worker -> Seq(Messages)],
         wpc' \in [Worker -> WorkerStates], sup' \in Sups, Stages(sup'), Listens,
         SameBooks(sup', sup), pc = "cleanup" => pc' = "cleanup" \/ sup.registered \cap sup.failed = {},
         pc' \in Looping => sup'.def # 0
  PROVE  Inv'
<1>1. (pc' = "cleanup") \in BOOLEAN
  OBVIOUS
<1>2. Books(sup, pc = "cleanup")
  BY DEF Inv
<1>3. Books(sup, pc' = "cleanup")
  BY <1>1, <1>2, BooksCleaned
<1>4. Books(sup', pc' = "cleanup")
  BY <1>3, BooksKept
<1> QED BY <1>4, SupKeeps

\* A step that leaves the supervisor's data and what it has received alone.
LEMMA StillKeeps ==
  ASSUME Inv, sup' = sup, toSup' = toSup, toWorker' \in [Worker -> Seq(Messages)],
         wpc' \in [Worker -> WorkerStates], \A v \in Worker : wpc'[v] = "off" => wpc[v] = "off",
         pc = "cleanup" => pc' = "cleanup" \/ sup.registered \cap sup.failed = {},
         pc' \in Looping => sup.def # 0
  PROVE  Inv'
<1>1. Listens
  BY DEF Listens
<1>2. SameBooks(sup', sup)
  BY DEF SameBooks
<1>3. Stages(sup') /\ sup' \in Sups /\ toSup' \in [Worker -> Seq(Messages)]
  BY DEF Inv, Joins, Typed
<1> QED BY <1>1, <1>2, <1>3, SmallKeeps

\* The members that say who is at which stage of joining.
SameStages(n, s) ==
  /\ n.vec = s.vec /\ n.registered = s.registered /\ n.pendingReady = s.pendingReady
  /\ n.pendingInit \subseteq s.pendingInit /\ n.initing = s.initing /\ (IsTcp \/ n.failed = s.failed)

LEMMA StagesSame ==
  ASSUME NEW s, NEW n, Stages(s), SameStages(n, s)
  PROVE  Stages(n) /\ \A v \in Worker : Known(n, v) => Known(s, v)
BY DEF Stages, SameStages, Known

LEMMA StagesJoin ==
  ASSUME NEW s \in Sups, NEW n, Stages(s), NEW w \in Worker, w \notin Range(s.vec), w \notin Range(s.pendingReady),
         w # n.initing, w \notin n.pendingInit,
         n.vec = Append(s.vec, w), n.registered = s.registered \cup {w}, n.pendingReady = s.pendingReady,
         n.pendingInit \subseteq s.pendingInit, n.initing \in {s.initing, NoWorker}, n.failed = s.failed
  PROVE  Stages(n) /\ \A v \in Worker : Known(n, v) => Known(s, v) \/ v = w
<1>1. s.vec \in Seq(Worker) /\ OneToOne(s.vec) /\ NoWorker \notin Worker
  BY SupTypes, Tasks DEF Stages
<1>2. OneToOne(n.vec) /\ Range(n.vec) = Range(s.vec) \cup {w}
  BY <1>1, AppendWorker
<1> QED BY <1>1, <1>2 DEF Stages, Known

LEMMA StagesLeave ==
  ASSUME NEW s \in Sups, NEW n, Stages(s), NEW w \in Worker, SameRest(n, s),
         n.vec = Erase(s.vec, w), n.registered = s.registered \ {w}, n.failed = s.failed \ {w}
  PROVE  Stages(n) /\ \A v \in Worker : Known(n, v) => Known(s, v)
<1>1. s.vec \in Seq(Worker) /\ OneToOne(s.vec)
  BY SupTypes DEF Stages
<1>2. OneToOne(n.vec) /\ Range(n.vec) = Range(s.vec) \ {w}
  BY <1>1, EraseRemoves
<1> QED BY <1>1, <1>2 DEF Stages, Known, SameRest

\* A worker is given up.
LEMMA FailureKeeps ==
  ASSUME Inv, NEW w \in Worker, NEW n, n = HandleWorkerFailure(sup, w),
         sup' \in Sups, SameBooks(sup', n), SameStages(sup', n),
         toWorker' = toWorker, wpc' = wpc,
         toSup' = toSup \/ (\E v \in Worker : Takes(v)), pc = "cleanup" => pc' = "cleanup", pc \in Looping
  PROVE  Inv'
<1> DEFINE c == pc = "cleanup"
<1>1. sup \in Sups /\ Books(sup, c) /\ Stages(sup) /\ OneToOne(sup.vec) /\ Typed
  BY DEF Inv, Typed, Joins, Stages
<1> HIDE DEF c
<1>2. /\ n \in Sups /\ SameRest(n, sup) /\ Books(n, c)
      /\ n.vec = Erase(sup.vec, w) /\ n.registered = sup.registered \ {w} /\ n.failed = sup.failed \ {w}
  BY <1>1, FailureBooks
<1>3. Stages(n) /\ \A v \in Worker : Known(n, v) => Known(sup, v)
  BY <1>1, <1>2, StagesLeave
<1>4. Stages(sup') /\ \A v \in Worker : Known(sup', v) => Known(sup, v)
  BY <1>3, StagesSame
<1>5. Books(sup', pc' = "cleanup")
  <2>1. (pc' = "cleanup") \in BOOLEAN /\ (c => pc' = "cleanup")
    BY DEF c
  <2>2. Books(n, pc' = "cleanup")
    BY <1>2, <2>1, BooksCleaned
  <2> QED BY <2>2, BooksKept
<1>6. toSup' \in [Worker -> Seq(Messages)] /\ Listens
  <2>1. CASE toSup' = toSup
    BY <1>1, <1>4, <2>1 DEF Typed, Listens
  <2>2. CASE \E v \in Worker : Takes(v)
    <3>1. PICK v \in Worker : Takes(v)
      BY <2>2
    <3>2. /\ toSup' \in [Worker -> Seq(Messages)] /\ toSup[v] # << >> /\ toSup'[v] = Tail(toSup[v])
          /\ \A u \in Worker : u # v => toSup'[u] = toSup[u]
      BY <1>1, <3>1, TakesTypes
    <3> QED BY <1>4, <3>2 DEF Listens
  <2> QED BY <2>1, <2>2
<1>7. sup'.def = sup.def /\ sup.def # 0
  BY <1>2 DEF SameBooks, SameRest, Inv, Looping
<1> QED BY <1>1, <1>4, <1>5, <1>6, <1>7, SupKeeps DEF Typed

LEMMA TakesListens ==
  ASSUME Typed, NEW w \in Worker, Takes(w), wpc' = wpc,
         \A v \in Worker : Known(sup', v) => Known(sup, v) \/ v = w
  PROVE  Listens /\ toSup' \in [Worker -> Seq(Messages)]
<1>1. /\ toSup' \in [Worker -> Seq(Messages)] /\ toSup[w] # << >> /\ toSup'[w] = Tail(toSup[w])
      /\ \A v \in Worker : v # w => toSup'[v] = toSup[v]
  BY TakesTypes
<1> QED BY <1>1 DEF Listens

\* Nothing of interest changes in sup while w's message is taken.
LEMMA TakesKeeps ==
  ASSUME Inv, NEW w \in Worker, Takes(w), wpc' = wpc, toWorker' \in [Worker -> Seq(Messages)],
         sup' \in Sups, SameBooks(sup', sup), SameStages(sup', sup), pc # "cleanup",
         pc' \in Looping => sup.def # 0
  PROVE  Inv'
<1>1. Typed /\ Stages(sup) /\ wpc' \in [Worker -> WorkerStates]
  BY DEF Inv, Joins, Typed
<1>2. Stages(sup') /\ \A v \in Worker : Known(sup', v) => Known(sup, v)
  BY <1>1, StagesSame
<1>3. Listens /\ toSup' \in [Worker -> Seq(Messages)]
  BY <1>1, <1>2, TakesListens
<1>4. sup'.def = sup.def
  BY DEF SameBooks
<1> QED BY <1>1, <1>2, <1>3, <1>4, SmallKeeps

LEMMA UnchangedSup == ASSUME sup' = sup PROVE SameBooks(sup', sup) /\ SameStages(sup', sup)
BY DEF SameBooks, SameStages

\* READY comes from a worker the supervisor does not know.
LEMMA ReadyIsNew ==
  ASSUME Inv, NEW w \in Worker, Takes(w), Head(toSup[w]).cmd = "READY"
  PROVE  ~Known(sup, w)
<1>1. toSup[w] \in Seq(Messages) /\ toSup[w] # << >> /\ Heard(sup, w, wpc[w], toSup[w])
  BY DEF Inv, Typed, Joins, Takes
<1> QED BY <1>1, HeardHead

\* w is put on the list of workers.
LEMMA JoinKeeps ==
  ASSUME Inv, NEW w \in Worker, Takes(w), wpc' = wpc, toWorker' \in [Worker -> Seq(Messages)],
         w \notin Range(sup.vec), w \notin Range(sup.pendingReady), w # sup'.initing, w \notin sup'.pendingInit,
         sup' \in Sups, sup'.vec = Append(sup.vec, w), sup'.registered = sup.registered \cup {w},
         sup'.pendingReady = sup.pendingReady, sup'.pendingInit \subseteq sup.pendingInit,
         sup'.initing \in {sup.initing, NoWorker}, sup'.failed = sup.failed,
         SameBooks(sup', sup), pc # "cleanup", pc' \in Looping => sup.def # 0
  PROVE  Inv'
<1>1. Typed /\ Stages(sup) /\ wpc' \in [Worker -> WorkerStates] /\ sup \in Sups
  BY DEF Inv, Joins, Typed
<1>2. Stages(sup') /\ \A v \in Worker : Known(sup', v) => Known(sup, v) \/ v = w
  BY <1>1, StagesJoin
<1>3. Listens /\ toSup' \in [Worker -> Seq(Messages)]
  BY <1>1, <1>2, TakesListens
<1>4. sup'.def = sup.def
  BY DEF SameBooks
<1> QED BY <1>1, <1>2, <1>3, <1>4, SmallKeeps

LEMMA StartReadyKeeps ==
  ASSUME Inv, NEW w \in Worker, StartReady(w)
  PROVE  Inv'
<1>1. /\ Typed /\ sup \in Sups /\ Takes(w) /\ wpc' = wpc /\ toWorker' \in [Worker -> Seq(Messages)]
      /\ pc = "start" /\ pc' = pc
  BY DEF StartReady, Inv, Typed, workers
<1>2. CASE Head(toSup[w]).cmd # "READY"
  <2>1. sup' = sup
    BY <1>2 DEF StartReady
  <2> QED BY <1>1, <2>1, UnchangedSup, TakesKeeps DEF Looping
<1>3. CASE Head(toSup[w]).cmd = "READY"
  <2> DEFINE R == sup.registered \cup {w}
             V == Append(sup.vec, w)
  <2>1. sup' = [sup EXCEPT !.registered = R, !.vec = V]
    BY <1>3 DEF StartReady, Join
  <2>2. R \in SUBSET Worker /\ V \in Seq(Worker)
    BY <1>1, SupTypes
  <2>3. ~Known(sup, w)
    BY <1>1, <1>3, ReadyIsNew
  <2> HIDE DEF R, V
  <2>4. /\ sup' \in Sups /\ sup'.vec = V /\ sup'.registered = R /\ sup'.pendingReady = sup.pendingReady
        /\ sup'.pendingInit = sup.pendingInit /\ sup'.initing = sup.initing /\ sup'.failed = sup.failed
        /\ sup'.mgr = sup.mgr /\ sup'.history = sup.history /\ sup'.counts = sup.counts /\ sup'.acked = sup.acked
        /\ sup'.outstanding = sup.outstanding /\ sup'.def = sup.def /\ sup'.next = sup.next
    BY <1>1, <2>1, <2>2 DEF Sups
  <2>5. SameBooks(sup', sup)
    BY <2>4 DEF SameBooks, R
  <2>6. w \notin Range(sup.vec) /\ w \notin Range(sup.pendingReady) /\ w # sup'.initing /\ w \notin sup'.pendingInit
    BY <2>3, <2>4 DEF Known
  <2> QED BY <1>1, <2>4, <2>5, <2>6, JoinKeeps DEF Looping, R, V
<1> QED BY <1>2, <1>3

LEMMA StartTcpKeeps ==
  ASSUME Inv, NEW w \in Worker, StartTcp(w)
  PROVE  Inv'
<1>1. /\ Typed /\ sup \in Sups /\ Stages(sup) /\ wpc' = wpc /\ pc = "start" /\ pc' \in {"start", "initWait"}
      /\ wpc' \in [Worker -> WorkerStates]
  BY DEF StartTcp, InitTcpWorker, Step, Inv, Typed, Joins, workers
<1>2. toWorker' \in [Worker -> Seq(Messages)]
  <2>1. Msg("INIT", << >>) \in Messages
    <3>1. << >> \in Seq(TaskId)
      OBVIOUS
    <3> QED BY <3>1, MessageTypes
  <2>2. Send(w, Msg("INIT", << >>)) \/ toWorker' = toWorker
    BY DEF StartTcp, InitTcpWorker
  <2> QED BY <1>1, <2>1, <2>2, SendTypes DEF Typed
<1>3. CASE sup.pendingReady # << >>
  <2> DEFINE Q == Tail(sup.pendingReady)
  <2>1. /\ w = Head(sup.pendingReady) /\ toSup' = toSup
        /\ sup' = [sup EXCEPT !.pendingReady = Q, !.initing = w] \/ sup' = [sup EXCEPT !.pendingReady = Q]
    BY <1>1, <1>3 DEF StartTcp, InitTcpWorker, Sups
  <2>2. /\ Q \in Seq(Worker) /\ OneToOne(Q) /\ Range(Q) = Range(sup.pendingReady) \ {w} /\ w \in Range(sup.pendingReady)
    BY <1>1, <1>3, <2>1, SupTypes, TailWorkers DEF Stages
  <2> HIDE DEF Q
  <2>3. /\ sup' \in Sups /\ sup'.vec = sup.vec /\ sup'.registered = sup.registered /\ sup'.pendingReady = Q
        /\ sup'.pendingInit = sup.pendingInit /\ sup'.initing \in {w, sup.initing} /\ sup'.failed = sup.failed
        /\ sup'.mgr = sup.mgr /\ sup'.history = sup.history /\ sup'.counts = sup.counts /\ sup'.acked = sup.acked
        /\ sup'.outstanding = sup.outstanding /\ sup'.def = sup.def /\ sup'.next = sup.next
    <3>1. CASE sup' = [sup EXCEPT !.pendingReady = Q, !.initing = w]
      BY <1>1, <2>2, <3>1 DEF Sups
    <3>2. CASE sup' = [sup EXCEPT !.pendingReady = Q]
      BY <1>1, <2>2, <3>2 DEF Sups
    <3> QED BY <2>1, <3>1, <3>2
  <2>4. SameBooks(sup', sup)
    BY <2>3 DEF SameBooks
  <2>5. Stages(sup')
    BY <1>1, <2>2, <2>3 DEF Stages
  <2>6. Listens
    BY <1>1, <2>1, <2>2, <2>3 DEF Listens, Known
  <2> QED BY <1>1, <1>2, <2>1, <2>3, <2>4, <2>5, <2>6, SmallKeeps DEF Typed, Looping
<1>4. CASE sup.pendingReady = << >>
  <2>1. Takes(w) /\ Head(toSup[w]).cmd = "READY" /\ (sup' = [sup EXCEPT !.initing = w] \/ sup' = sup)
    BY <1>4 DEF StartTcp, InitTcpWorker
  <2>2. ~Known(sup, w)
    BY <2>1, ReadyIsNew
  <2>3. /\ sup' \in Sups /\ sup'.vec = sup.vec /\ sup'.registered = sup.registered
        /\ sup'.pendingReady = sup.pendingReady
        /\ sup'.pendingInit = sup.pendingInit /\ sup'.initing \in {w, sup.initing} /\ sup'.failed = sup.failed
        /\ sup'.mgr = sup.mgr /\ sup'.history = sup.history /\ sup'.counts = sup.counts /\ sup'.acked = sup.acked
        /\ sup'.outstanding = sup.outstanding /\ sup'.def = sup.def /\ sup'.next = sup.next
    <3>1. CASE sup' = [sup EXCEPT !.initing = w]
      BY <1>1, <3>1 DEF Sups
    <3>2. CASE sup' = sup
      BY <1>1, <3>2
    <3> QED BY <2>1, <3>1, <3>2
  <2>4. SameBooks(sup', sup)
    BY <2>3 DEF SameBooks
  <2>5. Stages(sup')
    BY <1>1, <2>2, <2>3 DEF Stages, Known
  <2>6. \A v \in Worker : Known(sup', v) => Known(sup, v) \/ v = w
    BY <2>3 DEF Known
  <2>7. Listens /\ toSup' \in [Worker -> Seq(Messages)]
    BY <1>1, <2>1, <2>6, TakesListens
  <2> QED BY <1>1, <1>2, <2>3, <2>4, <2>5, <2>7, SmallKeeps DEF Looping
<1> QED BY <1>3, <1>4

LEMMA InitReceiveKeeps ==
  ASSUME Inv, NEW w \in Worker, InitReceive(w)
  PROVE  Inv'
<1>1. /\ Typed /\ sup \in Sups /\ Stages(sup) /\ wpc' = wpc /\ pc = "initWait" /\ Takes(w)
      /\ toWorker' \in [Worker -> Seq(Messages)] /\ wpc' \in [Worker -> WorkerStates]
  BY DEF InitReceive, Inv, Typed, Joins, workers
<1>2. CASE w = sup.initing /\ Head(toSup[w]).cmd = "ACK" /\ pc' = "start"
           /\ sup' = [Join(sup, w) EXCEPT !.seen = @ \cup {w}, !.initing = NoWorker]
  <2> DEFINE R == sup.registered \cup {w}
             V == Append(sup.vec, w)
             E == sup.seen \cup {w}
  <2>1. sup' = [[sup EXCEPT !.registered = R, !.vec = V] EXCEPT !.seen = E, !.initing = NoWorker]
    BY <1>1, <1>2 DEF Join, Sups
  <2>2. R \in SUBSET Worker /\ V \in Seq(Worker) /\ E \in SUBSET Worker
    <3>1. sup.registered \in SUBSET Worker /\ sup.vec \in Seq(Worker) /\ sup.seen \in SUBSET Worker
      BY <1>1 DEF Sups
    <3> QED BY ONLY <3>1, w \in Worker
  <2> HIDE DEF R, V, E
  <2>3. /\ sup' \in Sups /\ sup'.vec = V /\ sup'.registered = R /\ sup'.pendingReady = sup.pendingReady
        /\ sup'.pendingInit = sup.pendingInit /\ sup'.initing = NoWorker /\ sup'.failed = sup.failed
        /\ sup'.mgr = sup.mgr /\ sup'.history = sup.history /\ sup'.counts = sup.counts /\ sup'.acked = sup.acked
        /\ sup'.outstanding = sup.outstanding /\ sup'.def = sup.def /\ sup'.next = sup.next
    BY <1>1, <2>1, <2>2 DEF Sups
  <2>4. SameBooks(sup', sup)
    BY <2>3 DEF SameBooks, R
  <2>5. w \notin Range(sup.vec) /\ w \notin Range(sup.pendingReady) /\ w # sup'.initing /\ w \notin sup'.pendingInit
    BY <1>1, <1>2, <2>3, Tasks DEF Stages
  <2> QED BY <1>1, <1>2, <2>3, <2>4, <2>5, JoinKeeps DEF Looping, R, V
<1>3. CASE w # sup.initing /\ Head(toSup[w]).cmd = "READY" /\ pc' = pc
           /\ sup' = [sup EXCEPT !.pendingReady = Append(@, w)]
  <2> DEFINE Q == Append(sup.pendingReady, w)
  <2>1. ~Known(sup, w)
    BY <1>1, <1>3, ReadyIsNew
  <2>2. Q \in Seq(Worker) /\ OneToOne(Q) /\ Range(Q) = Range(sup.pendingReady) \cup {w}
    BY <1>1, <2>1, SupTypes, AppendWorker DEF Stages, Known
  <2>3. sup' = [sup EXCEPT !.pendingReady = Q]
    BY <1>3
  <2> HIDE DEF Q
  <2>4. /\ sup' \in Sups /\ sup'.vec = sup.vec /\ sup'.registered = sup.registered /\ sup'.pendingReady = Q
        /\ sup'.pendingInit = sup.pendingInit /\ sup'.initing = sup.initing /\ sup'.failed = sup.failed
        /\ sup'.mgr = sup.mgr /\ sup'.history = sup.history /\ sup'.counts = sup.counts /\ sup'.acked = sup.acked
        /\ sup'.outstanding = sup.outstanding /\ sup'.def = sup.def /\ sup'.next = sup.next
    BY <1>1, <2>2, <2>3 DEF Sups
  <2>5. SameBooks(sup', sup)
    BY <2>4 DEF SameBooks
  <2>6. Stages(sup')
    BY <1>1, <2>1, <2>2, <2>4 DEF Stages, Known
  <2>7. \A v \in Worker : Known(sup', v) => Known(sup, v) \/ v = w
    BY <2>2, <2>4 DEF Known
  <2>8. Listens /\ toSup' \in [Worker -> Seq(Messages)]
    BY <1>1, <2>7, TakesListens
  <2> QED BY <1>1, <1>3, <2>4, <2>5, <2>6, <2>8, SmallKeeps DEF Looping
<1>4. CASE sup' = sup /\ pc' = pc
  BY <1>1, <1>4, UnchangedSup, TakesKeeps DEF Looping
<1> QED BY <1>2, <1>3, <1>4 DEF InitReceive

LEMMA StartKeeps ==
  ASSUME Inv, StartStep \/ InitTimeout \/ StartTimeout
  PROVE  Inv'
<1>0. /\ Typed /\ sup \in Sups /\ Stages(sup) /\ toWorker \in [Worker -> Seq(Messages)]
      /\ toSup \in [Worker -> Seq(Messages)] /\ wpc \in [Worker -> WorkerStates]
  BY DEF Inv, Typed, Joins
<1>1. CASE \E w \in Worker : StartDrops(w)
  <2>1. PICK w \in Worker : StartDrops(w)
    BY <1>1
  <2>2. Takes(w) /\ sup' = sup /\ pc = "start" /\ pc' = pc /\ toWorker' = toWorker /\ wpc' = wpc
    BY <2>1 DEF StartDrops, workers
  <2> QED BY <1>0, <2>2, UnchangedSup, TakesKeeps DEF Looping
<1>2. CASE StartDone
  <2>1. sup' = sup /\ pc = "start" /\ pc' = "define" /\ toWorker' = toWorker /\ toSup' = toSup /\ wpc' = wpc
    BY <1>2 DEF StartDone, workers, channels
  <2> QED BY <1>0, <2>1, StillKeeps DEF Looping
<1>3. CASE InitTimeout
  <2>1. /\ sup' = [sup EXCEPT !.initing = NoWorker] /\ pc = "initWait" /\ pc' = "start"
        /\ toWorker' = toWorker /\ toSup' = toSup /\ wpc' = wpc
    BY <1>3 DEF InitTimeout, Step, workers, channels
  <2>2. /\ sup' \in Sups /\ sup'.vec = sup.vec /\ sup'.registered = sup.registered
        /\ sup'.pendingReady = sup.pendingReady
        /\ sup'.pendingInit = sup.pendingInit /\ sup'.initing = NoWorker /\ sup'.failed = sup.failed
        /\ sup'.mgr = sup.mgr /\ sup'.history = sup.history /\ sup'.counts = sup.counts /\ sup'.acked = sup.acked
        /\ sup'.outstanding = sup.outstanding /\ sup'.def = sup.def /\ sup'.next = sup.next
    BY <1>0, <2>1 DEF Sups
  <2>3. SameBooks(sup', sup)
    BY <2>2 DEF SameBooks
  <2>4. Stages(sup') /\ \A v \in Worker : Known(sup', v) => Known(sup, v)
    BY <1>0, <2>2, Tasks DEF Stages, Known
  <2>5. Listens
    BY <2>1, <2>4 DEF Listens
  <2> QED BY <1>0, <2>1, <2>2, <2>3, <2>4, <2>5, SmallKeeps DEF Looping
<1>4. CASE StartTimeout
  <2>1. /\ sup' = sup /\ toSup' = toSup /\ toWorker' = toWorker /\ pc = "start" /\ pc' = "failed"
        /\ wpc' \in [Worker -> WorkerStates] /\ \A v \in Worker : wpc'[v] = "off" => wpc[v] = "off"
    BY <1>0, <1>4 DEF StartTimeout, channels, WorkerStates
  <2> QED BY <1>0, <2>1, StillKeeps DEF Looping
<1> QED BY <1>1, <1>2, <1>3, <1>4, StartReadyKeeps, StartTcpKeeps, InitReceiveKeeps DEF StartStep

LEMMA StartDefinitionKeeps ==
  ASSUME Inv, StartDefinition
  PROVE  Inv'
<1> DEFINE d == sup.def + 1
           n == Begin(sup, d)
<1>0. /\ Typed /\ sup \in Sups /\ Stages(sup) /\ wpc' = wpc /\ toSup' = toSup /\ pc = "define"
  BY DEF Inv, Typed, Joins, StartDefinition, workers
<1>1. d \in Defs /\ d # 0 /\ d \in Nat
  <2>1. sup.def \in 0..Len(TasksOf) /\ sup.def < Len(TasksOf) /\ Len(TasksOf) \in Nat
    BY <1>0, SupTypes, ExecutorConstants DEF StartDefinition
  <2> QED BY <2>1 DEF Defs
<1> HIDE DEF d
<1>2. /\ n \in Sups /\ Books(n, FALSE) /\ n.def = d
      /\ n.vec = sup.vec /\ n.registered = sup.registered /\ n.failed = sup.failed
      /\ n.pendingReady = sup.pendingReady /\ n.initing = sup.initing /\ n.pendingInit = {}
  <2>1. Begun(n, sup, d)
    BY <1>0, <1>1, BeginBooks
  <2> HIDE DEF n
  <2> QED BY <2>1 DEF Begun
<1>3. toWorker' \in [Worker -> Seq(Messages)]
  <2>1. SetDef(d) \in Messages
    BY <1>1, MessageTypes
  <2>2. \E ws : SendAll(ws, SetDef(d))
    BY DEF StartDefinition, d
  <2> QED BY <1>0, <2>1, <2>2, SendTypes
<1>4. /\ pc' \in {"top", "throw"}
      /\ sup' = n \/ (IsTcp /\ \E w \in Range(sup.vec) : sup' = [n EXCEPT !.failed = @ \cup {w}])
  BY DEF StartDefinition, Throw, d
<1> HIDE DEF n
<1>5. sup' \in Sups /\ SameBooks(sup', n) /\ SameStages(sup', n)
  <2>1. CASE sup' = n
    BY <1>2, <2>1 DEF SameBooks, SameStages
  <2>2. CASE IsTcp /\ \E w \in Range(sup.vec) : sup' = [n EXCEPT !.failed = @ \cup {w}]
    <3>1. PICK w \in Range(sup.vec) : sup' = [n EXCEPT !.failed = @ \cup {w}]
      BY <2>2
    <3> DEFINE F == n.failed \cup {w}
    <3>2. F \in SUBSET Worker /\ n.failed \subseteq F
      BY <1>0, <1>2, SupTypes DEF Stages
    <3>3. sup' = [n EXCEPT !.failed = F]
      BY <3>1
    <3> HIDE DEF F
    <3> QED BY <1>2, <2>2, <3>2, <3>3 DEF Sups, SameBooks, SameStages
  <2> QED BY <1>4, <2>1, <2>2
<1>6. Stages(n) /\ \A v \in Worker : Known(n, v) => Known(sup, v)
  <2>1. SameStages(n, sup)
    BY <1>2 DEF SameStages
  <2> QED BY <1>0, <2>1, StagesSame
<1>7. Stages(sup') /\ \A v \in Worker : Known(sup', v) => Known(sup, v)
  BY <1>5, <1>6, StagesSame
<1>8. Listens
  BY <1>0, <1>7 DEF Listens
<1>9. Books(sup', pc' = "cleanup")
  <2>1. (pc' = "cleanup") = FALSE
    BY <1>4
  <2>2. Books(n, FALSE) /\ SameBooks(sup', n)
    BY <1>2, <1>5
  <2>3. Books(sup', FALSE)
    BY ONLY <2>2, BooksKept
  <2> QED BY <2>1, <2>3
<1>10. sup'.def = d
  BY <1>2, <1>5 DEF SameBooks
<1> QED BY <1>0, <1>1, <1>3, <1>5, <1>7, <1>8, <1>9, <1>10, SupKeeps DEF Typed

\* The next worker in turn is on the list.
LEMMA SlotOnList ==
  ASSUME NEW s \in Sups, s.vec # << >>, NEW j \in Nat
  PROVE  Slot(s, j) \in Range(s.vec)
<1> DEFINE L == Len(s.vec)
           a == s.turn + j
<1>1. L \in Nat \ {0} /\ s.turn \in Nat /\ s.vec \in Seq(Worker)
  BY SupTypes
<1>2. a \in Nat
  BY <1>1
<1> HIDE DEF a, L
<1>3. a % L \in 0..(L - 1)
  BY <1>1, <1>2
<1>4. (a % L) + 1 \in 1..L
  BY <1>1, <1>3
<1>5. s.vec[(a % L) + 1] \in Range(s.vec)
  BY <1>1, <1>4 DEF Range, L
<1> QED BY <1>5 DEF Slot, a, L

LEMMA FirstOffer ==
  ASSUME NEW s \in Sups, Offers(s) # {}, NEW j, j = CHOOSE i \in Offers(s) : \A k \in Offers(s) : i <= k
  PROVE  j \in Nat /\ j \in Offers(s)
<1>1. Offers(s) \in SUBSET Nat
  <2>1. Len(s.vec) \in Nat
    BY SupTypes
  <2> QED BY <2>1 DEF Offers
<1>2. \E i \in Offers(s) : \A k \in Offers(s) : i <= k
  BY <1>1, LeastNat
<1> QED BY <1>1, <1>2

LEMMA DispatchKeeps ==
  ASSUME Inv, Dispatch
  PROVE  Inv'
<1> DEFINE j == CHOOSE i \in Offers(sup) : \A k \in Offers(sup) : i <= k
           w == Slot(sup, j)
           ids == BatchTasks(sup)
           f == Fill(sup, w)
           C == Range(ids)
<1>0. /\ Typed /\ sup \in Sups /\ Stages(sup) /\ wpc' = wpc /\ toSup' = toSup /\ pc = "dispatch"
      /\ sup.vec # << >> /\ Offers(sup) # {} /\ sup.def # 0
  BY DEF Inv, Typed, Joins, Dispatch, workers, CanDispatch, WantsDispatch
<1>1. Books(sup, FALSE) /\ Serving(sup)
  <2>1. (pc = "cleanup") = FALSE
    BY <1>0
  <2>2. Books(sup, FALSE)
    BY <2>1 DEF Inv
  <2> QED BY <1>0, <2>2 DEF Serving, Books, Numbered
<1>2. j \in Nat
  BY <1>0, FirstOffer
<1> HIDE DEF j
<1>3. w \in sup.registered /\ w \in Worker
  BY <1>0, <1>2, SlotOnList, SupTypes DEF Stages
<1>4. \/ /\ Send(w, Msg(IF Len(ids) = 1 THEN "TASK" ELSE "TASKB", ids))
         /\ sup' = [f EXCEPT !.turn = (@ + j + 1) % Turns, !.outstandingMessages = @ + 1, !.inFlight[w] = @ + 1]
         /\ pc' = pc
      \/ /\ Spend("send") /\ toWorker' = toWorker
         /\ \/ /\ IsTcp /\ pc' = "cleanup"
               /\ sup' = [f EXCEPT !.mgr = M!RequeueAll(@, ids), !.failed = @ \cup {w}, !.turn = (@ + j) % Turns]
            \/ pc' = "throw" /\ sup' = f
  BY DEF Dispatch, Throw, j
<1> HIDE DEF w
<1>5. ids \in Seq(TaskId) /\ \A i, k \in 1..Len(ids) : ids[i] = ids[k] => i = k
  BY <1>1, BatchIsFront DEF Books
<1>6. /\ f \in Sups /\ SameLists(f, sup) /\ Books(f, FALSE)
      /\ \A t \in C : t \in M!Running(f.mgr) /\ f.mgr.fTaskToWorker[t] = w
  <2>1. /\ Serving(sup) /\ Books(sup, FALSE) /\ w \in sup.registered /\ f = Fill(sup, w)
        /\ C = Range(BatchTasks(sup))
    BY <1>1, <1>3
  <2> HIDE DEF f, C
  <2>2. Fills(f, sup, w, C)
    BY ONLY <2>1, FillBooks
  <2> QED BY <2>2 DEF Fills
<1>7. Stages(f) /\ \A v \in Worker : Known(f, v) => Known(sup, v)
  <2>1. SameStages(f, sup)
    BY <1>6 DEF SameStages, SameLists, SameRest
  <2> QED BY <1>0, <2>1, StagesSame
<1>8. f.turn \in Nat /\ \A k \in Nat : (f.turn + k) % Turns \in Nat
  <2>1. f.turn \in Nat /\ Turns \in Nat \ {0}
    BY <1>6, TurnsPositive, SupTypes
  <2> QED BY <2>1
<1> HIDE DEF f, ids, C
<1>9. CASE /\ Send(w, Msg(IF Len(ids) = 1 THEN "TASK" ELSE "TASKB", ids))
           /\ sup' = [f EXCEPT !.turn = (@ + j + 1) % Turns, !.outstandingMessages = @ + 1, !.inFlight[w] = @ + 1]
           /\ pc' = pc
  <2> DEFINE T == (f.turn + j + 1) % Turns
             O == f.outstandingMessages + 1
             I == [f.inFlight EXCEPT ![w] = @ + 1]
  <2>1. sup' = [f EXCEPT !.turn = T, !.outstandingMessages = O, !.inFlight = I]
    BY <1>9
  <2>2. T \in Nat /\ O \in Nat /\ I \in [Worker -> Nat]
    <3>1. f.outstandingMessages \in Nat /\ f.inFlight \in [Worker -> Nat]
      BY <1>6, SupTypes
    <3>2. O \in Nat /\ I \in [Worker -> Nat]
      BY <1>3, <3>1
    <3>3. j + 1 \in Nat /\ f.turn + j + 1 = f.turn + (j + 1)
      BY <1>2, <1>8
    <3>4. T \in Nat
      BY <1>8, <3>3
    <3> QED BY <3>2, <3>4
  <2> HIDE DEF T, O, I
  <2>3. sup' \in Sups /\ SameBooks(sup', f) /\ SameStages(sup', f)
    BY <1>6, <2>1, <2>2 DEF Sups, SameBooks, SameStages
  <2>4. Stages(sup') /\ \A v \in Worker : Known(sup', v) => Known(sup, v)
    BY <1>7, <2>3, StagesSame
  <2>5. Books(sup', FALSE) /\ (pc' = "cleanup") = FALSE
    BY <1>0, <1>6, <1>9, <2>3, BooksKept
  <2>6. sup'.def = sup.def
    BY <1>6, <2>3 DEF SameBooks, SameLists, SameRest
  <2>7. toWorker' \in [Worker -> Seq(Messages)]
    <3>1. Msg(IF Len(ids) = 1 THEN "TASK" ELSE "TASKB", ids) \in Messages
      BY <1>5, MessageTypes
    <3> QED BY <1>0, <1>3, <1>9, <3>1, SendTypes
  <2>8. Listens
    BY <1>0, <2>4 DEF Listens
  <2>9. Books(sup', pc' = "cleanup")
    BY <2>5
  <2> QED BY <1>0, <2>3, <2>4, <2>6, <2>7, <2>8, <2>9, SupKeeps DEF Typed
<1>10. CASE /\ Spend("send") /\ toWorker' = toWorker /\ IsTcp /\ pc' = "cleanup"
            /\ sup' = [f EXCEPT !.mgr = M!RequeueAll(@, ids), !.failed = @ \cup {w}, !.turn = (@ + j) % Turns]
  <2> DEFINE T == (f.turn + j) % Turns
  <2>1. T \in Nat /\ "send" \in Faults
    BY <1>2, <1>8, <1>10 DEF Spend
  <2>2. sup' = [f EXCEPT !.mgr = M!RequeueAll(@, ids), !.failed = @ \cup {w}, !.turn = T]
    BY <1>10
  <2> HIDE DEF T
  <2>3. w \in f.registered
    BY <1>3, <1>6 DEF SameLists
  <2>4. /\ sup' \in Sups /\ SameRest(sup', f) /\ sup'.vec = f.vec /\ sup'.registered = f.registered
        /\ Books(sup', TRUE)
    <3>1. sup' = Refused(f, ids, w, T)
      BY <2>2 DEF Refused
    <3>2. Given(f, w, ids)
      BY <1>5, <1>6, <2>3 DEF Given, C
    <3> DEFINE n == Refused(f, ids, w, T)
    <3>3. /\ n \in Sups /\ SameRest(n, f) /\ n.vec = f.vec /\ n.registered = f.registered
          /\ Books(n, TRUE) /\ n.failed = f.failed \cup {w} /\ PutBack(n, f, Range(ids))
      BY ONLY <2>1, <3>2, RefusedBooks, Zenon
    <3> QED BY <3>1, <3>3
  <2>5. SameStages(sup', f)
    BY <1>10, <2>4 DEF SameStages, SameRest
  <2>6. Stages(sup') /\ \A v \in Worker : Known(sup', v) => Known(sup, v)
    BY <1>7, <2>5, StagesSame
  <2>7. Books(sup', pc' = "cleanup") /\ sup'.def = sup.def
    <3>1. (pc' = "cleanup") = TRUE
      BY <1>10
    <3> QED BY <1>6, <2>4, <3>1 DEF SameLists, SameRest
  <2>8. Listens
    BY <1>0, <2>6 DEF Listens
  <2> QED BY <1>0, <1>10, <2>4, <2>6, <2>7, <2>8, SupKeeps DEF Typed
<1>11. CASE toWorker' = toWorker /\ pc' = "throw" /\ sup' = f
  <2>1. Listens
    BY <1>0, <1>7, <1>11 DEF Listens
  <2>2. Books(sup', pc' = "cleanup")
    <3>1. (pc' = "cleanup") = FALSE
      BY <1>11
    <3> QED BY <1>6, <1>11, <3>1
  <2> QED BY <1>0, <1>6, <1>7, <1>11, <2>1, <2>2, SupKeeps DEF Typed, Looping
<1> QED BY <1>4, <1>9, <1>10, <1>11

LEMMA LoopKeeps ==
  ASSUME Inv, LoopStep \/ UserInterrupt \/ GraceExpires \/ Stall \/ \E w \in Worker : InactiveTcpWorker(w)
  PROVE  Inv'
<1>0. /\ Typed /\ sup \in Sups /\ Stages(sup) /\ toWorker \in [Worker -> Seq(Messages)]
      /\ toSup \in [Worker -> Seq(Messages)] /\ wpc \in [Worker -> WorkerStates]
      /\ pc \in Looping => sup.def # 0
  BY DEF Inv, Typed, Joins, Looping
<1>1. CASE LoopTop \/ GraceExpires \/ LoopFails \/ NothingReceived \/ IdleDone \/ Stall
  <2>1. /\ sup' = sup /\ toWorker' = toWorker /\ toSup' = toSup /\ wpc' = wpc /\ pc # "cleanup" /\ pc \in Looping
    BY <1>1 DEF LoopTop, GraceExpires, LoopFails, NothingReceived, IdleDone, Stall, Throw, Step, channels,
                workers, Looping
  <2> QED BY <1>0, <2>1, StillKeeps
<1>2. CASE LoopEnd
  <2>1. /\ toWorker' = toWorker /\ toSup' = toSup /\ wpc' = wpc /\ pc = "top" /\ pc' \in {"throw", "define"}
        /\ sup' = sup \/ sup' = [sup EXCEPT !.nProcessed = sup.counts]
    BY <1>2 DEF LoopEnd, Throw, channels, workers
  <2>2. sup' \in Sups /\ SameBooks(sup', sup) /\ SameStages(sup', sup)
    <3>1. CASE sup' = sup
      BY <1>0, <3>1, UnchangedSup
    <3>2. CASE sup' = [sup EXCEPT !.nProcessed = sup.counts]
      BY <1>0, <3>2 DEF Sups, SameBooks, SameStages
    <3> QED BY <2>1, <3>1, <3>2
  <2>3. Stages(sup') /\ Listens
    BY <1>0, <2>1, <2>2, StagesSame DEF Listens
  <2> QED BY <1>0, <2>1, <2>2, <2>3, SmallKeeps DEF Looping
<1>3. CASE UserInterrupt
  <2>1. /\ sup' = sup /\ toSup' = toSup /\ toWorker' = toWorker /\ pc # "cleanup" /\ pc' = "throw"
        /\ wpc' \in [Worker -> WorkerStates] /\ \A v \in Worker : wpc'[v] = "off" => wpc[v] = "off"
    BY <1>0, <1>3 DEF UserInterrupt, Throw, channels, WorkerStates
  <2> QED BY <1>0, <2>1, StillKeeps DEF Looping
<1>4. CASE \E w \in Worker : InactiveTcpWorker(w)
  <2>1. PICK w \in Worker : InactiveTcpWorker(w)
    BY <1>4
  <2> DEFINE n == HandleWorkerFailure(sup, w)
  <2>2. /\ sup' = n /\ toSup' = toSup /\ toWorker' = toWorker /\ wpc' = wpc /\ pc \in Looping /\ pc # "cleanup"
    BY <2>1 DEF InactiveTcpWorker, channels, workers, Looping
  <2>3. n \in Sups /\ SameBooks(n, n) /\ SameStages(n, n)
    <3>1. n \in Sups
      BY <1>0, FailureBooks DEF Inv, Stages
    <3> HIDE DEF n
    <3> QED BY <3>1 DEF SameBooks, SameStages
  <2> HIDE DEF n
  <2> QED BY <2>2, <2>3, FailureKeeps DEF n
<1>5. CASE DispatchDone
  <2>1. /\ toWorker' = toWorker /\ toSup' = toSup /\ wpc' = wpc /\ pc = "dispatch" /\ pc' = "cleanup"
        /\ sup' = sup \/ sup' = [sup EXCEPT !.turn = (@ + Len(sup.vec)) % Turns]
    BY <1>5 DEF DispatchDone, Step, channels, workers
  <2>2. sup' \in Sups /\ SameBooks(sup', sup) /\ SameStages(sup', sup)
    <3>1. CASE sup' = sup
      BY <1>0, <3>1, UnchangedSup
    <3>2. CASE sup' = [sup EXCEPT !.turn = (@ + Len(sup.vec)) % Turns]
      <4> DEFINE T == (sup.turn + Len(sup.vec)) % Turns
      <4>1. sup.turn \in Nat /\ Len(sup.vec) \in Nat /\ Turns \in Nat \ {0}
        BY <1>0, SupTypes, TurnsPositive
      <4>2. T \in Nat
        BY <4>1
      <4>3. sup' = [sup EXCEPT !.turn = T]
        BY <3>2
      <4> HIDE DEF T
      <4> QED BY <1>0, <4>2, <4>3 DEF Sups, SameBooks, SameStages
    <3> QED BY <2>1, <3>1, <3>2
  <2>3. Stages(sup') /\ Listens
    BY <1>0, <2>1, <2>2, StagesSame DEF Listens
  <2>4. sup.def # 0 /\ sup'.def = sup.def
    BY <1>0, <2>1, <2>2 DEF Looping, SameBooks
  <2> QED BY <1>0, <2>1, <2>2, <2>3, <2>4, SmallKeeps
<1>6. CASE Cleanup
  <2>1. toWorker' = toWorker /\ toSup' = toSup /\ wpc' = wpc /\ pc = "cleanup" /\ pc \in Looping
    BY <1>6 DEF Cleanup, channels, workers, Looping
  <2>2. CASE \E k \in 1..Len(sup.vec) : sup' = HandleWorkerFailure(sup, sup.vec[k]) /\ pc' = pc
    <3>1. PICK k \in 1..Len(sup.vec) : sup' = HandleWorkerFailure(sup, sup.vec[k]) /\ pc' = pc
      BY <2>2
    <3> DEFINE w == sup.vec[k]
               n == HandleWorkerFailure(sup, w)
    <3>2. w \in Worker
      BY <1>0, SupTypes
    <3> HIDE DEF w
    <3>3. n \in Sups
      <4>1. Books(sup, pc = "cleanup") /\ OneToOne(sup.vec)
        BY <1>0 DEF Inv, Stages
      <4> QED BY <1>0, <3>2, <4>1, FailureBooks
    <3> HIDE DEF n
    <3>4. SameBooks(n, n) /\ SameStages(n, n)
      BY DEF SameBooks, SameStages
    <3>5. sup' = n
      BY <3>1 DEF n, w
    <3> QED BY <2>1, <3>1, <3>2, <3>3, <3>4, <3>5, FailureKeeps DEF n
  <2>3. CASE Range(sup.vec) \cap sup.failed = {} /\ sup' = sup
    <3>1. sup.registered \cap sup.failed = {}
      BY <1>0, <2>3 DEF Stages
    <3> QED BY <1>0, <2>1, <2>3, <3>1, StillKeeps
  <2> QED BY <1>6, <2>2, <2>3 DEF Cleanup
<1>7. CASE ChildExited
  <2> DEFINE w == CHOOSE v \in Exited : \A u \in Exited : v <= u
             n == HandleWorkerFailure(sup, w)
  <2>1. /\ toWorker' = toWorker /\ toSup' = toSup /\ wpc' = wpc /\ pc = "idle"
        /\ Exited # {} /\ sup' = [n EXCEPT !.reaped = @ \cup {w}]
    BY <1>7 DEF ChildExited, channels, workers
  <2>2. w \in Worker
    <3>1. Exited \in SUBSET Worker
      BY DEF Exited
    <3>2. Exited \in SUBSET Nat
      BY <3>1, RunnerConstants
    <3>3. \E v \in Exited : \A u \in Exited : v <= u
      BY <2>1, <3>2, LeastNat
    <3> QED BY <3>1, <3>3
  <2> HIDE DEF w
  <2>3. n \in Sups
    BY <1>0, <2>2, FailureBooks DEF Inv, Stages
  <2> HIDE DEF n
  <2>4. sup' \in Sups /\ SameBooks(sup', n) /\ SameStages(sup', n)
    BY <2>1, <2>2, <2>3 DEF Sups, SameBooks, SameStages
  <2> QED BY <2>1, <2>2, <2>4, FailureKeeps DEF n, Looping
<1> QED BY <1>1, <1>2, <1>3, <1>4, <1>5, <1>6, <1>7, StartDefinitionKeeps, DispatchKeeps DEF LoopStep

LEMMA ReceiveReadyKeeps ==
  ASSUME Inv, NEW w \in Worker, ReceiveReady(w)
  PROVE  Inv'
<1> DEFINE E == sup.seen \cup {w}
           I == sup.pendingInit \cup {w}
<1>1. /\ Typed /\ sup \in Sups /\ Stages(sup) /\ wpc' = wpc /\ pc = "receive" /\ pc' = "top" /\ sup.def # 0
      /\ Takes(w) /\ Head(toSup[w]).cmd = "READY" /\ wpc' \in [Worker -> WorkerStates]
  BY DEF ReceiveReady, Got, Inv, Typed, Joins, workers
<1>2. ~Known(sup, w)
  BY <1>1, ReadyIsNew
<1>3. E \in SUBSET Worker /\ I \in SUBSET Worker
  BY <1>1 DEF Sups
<1>4. toWorker' \in [Worker -> Seq(Messages)]
  <2>1. << >> \in Seq(TaskId)
    OBVIOUS
  <2>2. Msg("INIT", << >>) \in Messages
    BY <2>1, MessageTypes
  <2>3. Send(w, Msg("INIT", << >>)) \/ toWorker' = toWorker
    BY DEF ReceiveReady
  <2> QED BY <1>1, <2>2, <2>3, SendTypes DEF Typed
<1>5. sup' = [sup EXCEPT !.seen = E, !.pendingInit = I] \/ sup' = [sup EXCEPT !.seen = E]
  BY <1>1 DEF ReceiveReady, Sups
<1> HIDE DEF E, I
<1>6. /\ sup' \in Sups /\ sup'.vec = sup.vec /\ sup'.registered = sup.registered
      /\ sup'.pendingReady = sup.pendingReady /\ sup'.pendingInit \in {sup.pendingInit, I}
      /\ sup'.initing = sup.initing /\ sup'.failed = sup.failed
      /\ sup'.mgr = sup.mgr /\ sup'.history = sup.history /\ sup'.counts = sup.counts /\ sup'.acked = sup.acked
      /\ sup'.outstanding = sup.outstanding /\ sup'.def = sup.def /\ sup'.next = sup.next
  <2>1. CASE sup' = [sup EXCEPT !.seen = E, !.pendingInit = I]
    BY <1>1, <1>3, <2>1 DEF Sups
  <2>2. CASE sup' = [sup EXCEPT !.seen = E]
    BY <1>1, <1>3, <2>2 DEF Sups
  <2> QED BY <1>5, <2>1, <2>2
<1>7. SameBooks(sup', sup)
  BY <1>6 DEF SameBooks
<1>8. Stages(sup') /\ \A v \in Worker : Known(sup', v) => Known(sup, v) \/ v = w
  BY <1>1, <1>2, <1>6 DEF Stages, Known, I
<1>9. Listens /\ toSup' \in [Worker -> Seq(Messages)]
  BY <1>1, <1>8, TakesListens
<1> QED BY <1>1, <1>4, <1>6, <1>7, <1>8, <1>9, SmallKeeps

\* In the loop, the definition is one of the session's.
LEMMA AtDefinition ==
  ASSUME Inv
  PROVE  sup.def \in Nat /\ (pc \in Looping => sup.def \in Defs)
<1>1. sup.def \in 0..Len(TasksOf) /\ (pc \in Looping => sup.def # 0) /\ Len(TasksOf) \in Nat
  BY SupTypes, ExecutorConstants DEF Inv, Typed, Looping
<1> QED BY <1>1 DEF Defs

LEMMA ReceiveInitAckKeeps ==
  ASSUME Inv, NEW w \in Worker, ReceiveInitAck(w)
  PROVE  Inv'
<1>1. /\ Typed /\ sup \in Sups /\ Stages(sup) /\ wpc' = wpc /\ pc = "receive" /\ pc' = "top" /\ sup.def # 0
      /\ Takes(w) /\ wpc' \in [Worker -> WorkerStates]
  BY DEF ReceiveInitAck, Got, Inv, Typed, Joins, workers
<1>2. CASE w \notin sup.pendingInit
  <2>1. sup' = sup /\ toWorker' = toWorker
    BY <1>2 DEF ReceiveInitAck
  <2> QED BY <1>1, <2>1, UnchangedSup, TakesKeeps DEF Typed
<1>3. CASE w \in sup.pendingInit
  <2> DEFINE R == sup.registered \cup {w}
             V == Append(sup.vec, w)
             I == sup.pendingInit \ {w}
  <2>1. /\ sup' = [[sup EXCEPT !.registered = R, !.vec = V] EXCEPT !.pendingInit = I]
        /\ Send(w, SetDef(sup.def)) \/ toWorker' = toWorker
    BY <1>1, <1>3 DEF ReceiveInitAck, Join, Sups
  <2>2. R \in SUBSET Worker /\ V \in Seq(Worker) /\ I \in SUBSET Worker
    <3>1. sup.registered \in SUBSET Worker /\ sup.vec \in Seq(Worker) /\ sup.pendingInit \in SUBSET Worker
      BY <1>1, SupTypes
    <3> QED BY ONLY <3>1, w \in Worker
  <2>3. toWorker' \in [Worker -> Seq(Messages)]
    <3>1. SetDef(sup.def) \in Messages
      BY <1>1, AtDefinition, MessageTypes DEF Looping
    <3> QED BY <1>1, <2>1, <3>1, SendTypes DEF Typed
  <2> HIDE DEF R, V, I
  <2>4. /\ sup' \in Sups /\ sup'.vec = V /\ sup'.registered = R /\ sup'.pendingReady = sup.pendingReady
        /\ sup'.pendingInit = I /\ sup'.initing = sup.initing /\ sup'.failed = sup.failed
        /\ sup'.mgr = sup.mgr /\ sup'.history = sup.history /\ sup'.counts = sup.counts /\ sup'.acked = sup.acked
        /\ sup'.outstanding = sup.outstanding /\ sup'.def = sup.def /\ sup'.next = sup.next
    BY <1>1, <2>1, <2>2 DEF Sups
  <2>5. SameBooks(sup', sup)
    BY <2>4 DEF SameBooks, R
  <2>6. /\ w \notin Range(sup.vec) /\ w \notin Range(sup.pendingReady) /\ w # sup'.initing /\ w \notin sup'.pendingInit
        /\ sup'.pendingInit \subseteq sup.pendingInit
    BY <1>1, <1>3, <2>4 DEF Stages, I
  <2> QED BY <1>1, <2>3, <2>4, <2>5, <2>6, JoinKeeps DEF R, V
<1> QED BY <1>2, <1>3

LEMMA ReceiveAckKeeps ==
  ASSUME Inv, NEW w \in Worker, ReceiveAck(w)
  PROVE  Inv'
<1> DEFINE h == Head(toSup[w])
           own == Owned(sup, w, h.ids)
           k == IF h.cmd = "ACKB" \/ own # {} THEN 1 ELSE 0
           n == Settle(sup, w, own, k)
<1>1. /\ Typed /\ sup \in Sups /\ Stages(sup) /\ wpc' = wpc /\ pc = "receive" /\ sup.def # 0
      /\ Takes(w) /\ wpc' \in [Worker -> WorkerStates] /\ toWorker' \in [Worker -> Seq(Messages)]
      /\ h.cmd \in {"ACK", "ACKB"}
  BY DEF ReceiveAck, Got, Inv, Typed, Joins, workers
<1>2. h.ids \in Seq(TaskId)
  BY <1>1, TakesTypes, MessageFields
<1>3. \/ sup' = sup /\ pc' \in {"top", "throw"}
      \/ sup' = n /\ pc' = "top" /\ ~(k > sup.outstandingMessages)
  BY DEF ReceiveAck, Throw
<1>4. CASE sup' = sup
  BY <1>1, <1>3, <1>4, UnchangedSup, TakesKeeps
<1>5. CASE sup' = n /\ pc' = "top" /\ ~(k > sup.outstandingMessages)
  <2>1. k \in {0, 1} /\ k <= sup.outstandingMessages
    <3>1. k \in {0, 1} /\ sup.outstandingMessages \in Nat
      BY <1>1, SupTypes
    <3> HIDE DEF k
    <3> QED BY <1>5, <3>1
  <2>2. Books(sup, pc = "cleanup")
    BY DEF Inv
  <2> DEFINE c == pc = "cleanup"
  <2> HIDE DEF k, own, c
  <2>3. n \in Sups /\ SameLists(n, sup) /\ Books(n, c)
    <3>1. sup \in Sups /\ Books(sup, c) /\ w \in Worker /\ h.ids \in Seq(TaskId) /\ own = Owned(sup, w, h.ids)
          /\ k \in {0, 1} /\ k <= sup.outstandingMessages /\ n = Settle(sup, w, own, k)
      BY <1>1, <1>2, <2>1, <2>2 DEF c, own
    <3> HIDE DEF h, n
    <3> QED BY ONLY <3>1, SettleBooks
  <2> HIDE DEF n
  <2>4. SameStages(n, sup) /\ n.def = sup.def
    BY <2>3 DEF SameStages, SameLists, SameRest
  <2>5. Stages(sup') /\ \A v \in Worker : Known(sup', v) => Known(sup, v)
    BY <1>1, <1>5, <2>4, StagesSame
  <2>6. Listens /\ toSup' \in [Worker -> Seq(Messages)]
    BY <1>1, <2>5, TakesListens
  <2>7. Books(sup', pc' = "cleanup")
    <3>1. c = FALSE /\ (pc' = "cleanup") = FALSE
      BY <1>1, <1>5 DEF c
    <3>2. Books(n, FALSE)
      BY <2>3, <3>1
    <3> QED BY <1>5, <3>1, <3>2
  <2> QED BY <1>1, <1>5, <2>3, <2>4, <2>5, <2>6, <2>7, SupKeeps
<1> QED BY <1>3, <1>4, <1>5

LEMMA ReceiveKeeps ==
  ASSUME Inv, NEW w \in Worker, Receive(w)
  PROVE  Inv'
<1>0. /\ Typed /\ sup \in Sups /\ Stages(sup) /\ toWorker \in [Worker -> Seq(Messages)]
      /\ wpc \in [Worker -> WorkerStates]
  BY DEF Inv, Typed, Joins
<1>1. CASE ReceiveShutdown(w)
  <2>1. /\ Takes(w) /\ toWorker' = toWorker /\ wpc' = wpc /\ pc = "receive" /\ pc \in Looping /\ sup.def # 0
    BY <1>1 DEF ReceiveShutdown, Got, workers, Looping, Inv
  <2>2. CASE sup' = sup
    BY <1>0, <2>1, <2>2, UnchangedSup, TakesKeeps
  <2>3. CASE sup' = HandleWorkerFailure(sup, w)
    <3> DEFINE n == HandleWorkerFailure(sup, w)
    <3>1. n \in Sups
      <4>1. Books(sup, pc = "cleanup") /\ OneToOne(sup.vec)
        BY <1>0 DEF Inv, Stages
      <4> QED BY <1>0, <4>1, FailureBooks
    <3> HIDE DEF n
    <3>2. SameBooks(n, n) /\ SameStages(n, n)
      BY DEF SameBooks, SameStages
    <3>3. sup' = n
      BY <2>3 DEF n
    <3> QED BY <2>1, <3>1, <3>2, <3>3, FailureKeeps DEF n
  <2> QED BY <1>1, <2>2, <2>3 DEF ReceiveShutdown
<1>2. CASE ReceiveDone(w)
  <2> DEFINE E == sup.earlyDone \cup ({w} \cap sup.registered)
  <2>1. /\ Takes(w) /\ toWorker' = toWorker /\ wpc' = wpc /\ pc = "receive" /\ sup.def # 0
        /\ sup' = [sup EXCEPT !.earlyDone = E]
    BY <1>2 DEF ReceiveDone, Got, workers, Inv
  <2>2. E \in SUBSET Worker
    BY <1>0 DEF Sups
  <2> HIDE DEF E
  <2>3. sup' \in Sups /\ SameBooks(sup', sup) /\ SameStages(sup', sup)
    BY <1>0, <2>1, <2>2 DEF Sups, SameBooks, SameStages
  <2> QED BY <1>0, <2>1, <2>3, TakesKeeps
<1>3. CASE ReceiveErr(w)
  <2>1. Takes(w) /\ toWorker' = toWorker /\ wpc' = wpc /\ pc = "receive" /\ sup' = sup /\ pc' = "throw"
    BY <1>3 DEF ReceiveErr, Got, Throw, workers
  <2> QED BY <1>0, <2>1, UnchangedSup, TakesKeeps DEF Looping
<1> QED BY <1>1, <1>2, <1>3, ReceiveReadyKeeps, ReceiveInitAckKeeps, ReceiveAckKeeps DEF Receive

LEMMA FinishKeeps ==
  ASSUME Inv, FinishStep \/ FinishTimeout
  PROVE  Inv'
<1>0. /\ Typed /\ sup \in Sups /\ Stages(sup) /\ toWorker \in [Worker -> Seq(Messages)]
      /\ toSup \in [Worker -> Seq(Messages)] /\ wpc \in [Worker -> WorkerStates]
  BY DEF Inv, Typed, Joins
<1>1. CASE SendStop
  <2> DEFINE D == sup.earlyDone \cap sup.registered
  <2>1. /\ sup' = [sup EXCEPT !.doneWorkers = D, !.shutdownWorkers = {}]
        /\ toSup' = toSup /\ wpc' = wpc /\ pc # "cleanup" /\ pc' \notin Looping
        /\ \E ws, a : a \in BOOLEAN /\ SendAll(ws, Stop(a))
    BY <1>1 DEF SendStop, workers, Looping
  <2>2. D \in SUBSET Worker
    BY <1>0 DEF Sups
  <2> HIDE DEF D
  <2>3. sup' \in Sups /\ SameBooks(sup', sup) /\ SameStages(sup', sup)
    BY <1>0, <2>1, <2>2 DEF Sups, SameBooks, SameStages
  <2>4. Stages(sup') /\ Listens
    BY <1>0, <2>1, <2>3, StagesSame DEF Listens
  <2>5. toWorker' \in [Worker -> Seq(Messages)]
    <3>1. PICK ws, a : a \in BOOLEAN /\ SendAll(ws, Stop(a))
      BY <2>1
    <3>2. Stop(a) \in Messages
      BY <3>1, MessageTypes
    <3> QED BY <1>0, <3>1, <3>2, SendTypes
  <2> QED BY <1>0, <2>1, <2>3, <2>4, <2>5, SmallKeeps
<1>2. CASE WaitChildren
  <2>1. /\ sup' = sup /\ toSup' = toSup /\ toWorker' = toWorker /\ pc # "cleanup" /\ pc' \notin Looping
        /\ wpc' \in [Worker -> WorkerStates] /\ \A v \in Worker : wpc'[v] = "off" => wpc[v] = "off"
    BY <1>0, <1>2 DEF WaitChildren, channels, WorkerStates, Looping
  <2> QED BY <1>0, <2>1, StillKeeps
<1>3. CASE \E w \in Worker : FinishReceive(w)
  <2>1. PICK w \in Worker : FinishReceive(w)
    BY <1>3
  <2> DEFINE m == Head(toSup[w])
             by == {w} \cap sup.registered
             D == IF m.cmd = "DONE" THEN sup.doneWorkers \cup by ELSE sup.doneWorkers
             T == IF m.cmd = "SHUTDOWN" THEN sup.shutdownWorkers \cup by ELSE sup.shutdownWorkers
  <2>2. /\ Takes(w) /\ wpc' = wpc /\ pc = "waitDone" /\ pc' = pc
        /\ sup' = [sup EXCEPT !.doneWorkers = D, !.shutdownWorkers = T]
        /\ Send(w, Stop(FALSE)) \/ toWorker' = toWorker
    BY <2>1 DEF FinishReceive, workers
  <2>3. D \in SUBSET Worker /\ T \in SUBSET Worker
    BY <1>0 DEF Sups
  <2> HIDE DEF D, T
  <2>4. sup' \in Sups /\ SameBooks(sup', sup) /\ SameStages(sup', sup)
    BY <1>0, <2>2, <2>3 DEF Sups, SameBooks, SameStages
  <2>5. toWorker' \in [Worker -> Seq(Messages)]
    <3>1. Stop(FALSE) \in Messages
      BY MessageTypes
    <3> QED BY <1>0, <2>2, <3>1, SendTypes
  <2> QED BY <1>0, <2>2, <2>4, <2>5, TakesKeeps DEF Looping
<1>4. CASE FinishDone \/ FinishTimeout \/ Merge
  <2>1. /\ sup' = sup /\ toSup' = toSup /\ toWorker' = toWorker /\ wpc' = wpc /\ pc # "cleanup" /\ pc' \notin Looping
    BY <1>4 DEF FinishDone, FinishTimeout, Merge, Step, channels, workers, Looping
  <2> QED BY <1>0, <2>1, StillKeeps
<1> QED BY <1>1, <1>2, <1>3, <1>4 DEF FinishStep

-----------------------------------------------------------------------------
(* The session *)

LEMMA InitInv ==
  ASSUME Init
  PROVE  Inv
<1> DEFINE m == M!Empty
           Z == [w \in Worker |-> 0]
           H == [w \in Worker |-> {}]
           R == IF IsTcp THEN {} ELSE Worker
           Q == [w \in Worker |-> << >>]
<1>1. /\ Sees(m, {}, {}, {}, [t \in TaskId |-> NoWorker]) /\ Sound(m) /\ m \in Managers
      /\ m.fPendingIds = {} /\ M!Running(m) = {} /\ m.fDone = {}
  BY EmptySees, SoundTypes DEF Sees
<1>2. /\ Z \in [Worker -> Nat] /\ H \in [Worker -> SUBSET TaskId] /\ 0 \in 0..Len(TasksOf)
      /\ R \in SUBSET Worker
  BY ExecutorConstants
<1>3. << >> \in Seq(Worker) /\ 0 \in Nat /\ 1 \in Nat \ {0}
  OBVIOUS
<1>4. sup = [ mgr |-> m, def |-> 0, next |-> 0, outstanding |-> 0, outstandingMessages |-> 0,
              acked |-> 0, turn |-> 0, batch |-> 1, inFlight |-> Z, history |-> H,
              counts |-> Z, nProcessed |-> Z, registered |-> R, vec |-> << >>, seen |-> {}, failed |-> {},
              pendingInit |-> {}, pendingReady |-> << >>, initing |-> NoWorker,
              earlyDone |-> {}, doneWorkers |-> {}, shutdownWorkers |-> {}, reaped |-> {} ]
  BY DEF Init, ExecutorInit
<1>5. toWorker = Q /\ toSup = Q /\ wpc = [w \in Worker |-> "off"] /\ pc = "start"
  BY DEF Init, ExecutorInit, RunnerInit
<1> HIDE DEF m, Z, H, R
<1>6. /\ sup \in Sups /\ sup.def = 0 /\ sup.mgr = m /\ sup.next = 0 /\ sup.outstanding = 0 /\ sup.acked = 0
      /\ sup.history = H /\ sup.counts = Z /\ sup.registered = R /\ sup.vec = << >> /\ sup.failed = {}
      /\ sup.pendingReady = << >> /\ sup.initing = NoWorker /\ sup.pendingInit = {}
  BY ONLY <1>1, <1>2, <1>3, <1>4 DEF Sups
<1>7. Counted(sup)
  <2>1. \A v \in Worker : sup.counts[v] = Cardinality(m.fDone \cap sup.history[v])
    BY <1>1, <1>6, FS_EmptySet DEF Z
  <2>2. Cardinality(m.fDone) = 0 /\ Cardinality(M!Running(m)) = 0
    BY <1>1, FS_EmptySet
  <2> QED BY <1>6, <2>1, <2>2 DEF Counted
<1>8. Replayable(sup, FALSE)
  BY <1>1, <1>6 DEF Replayable, H
<1>9. Numbered(sup)
  <2>1. \A t \in TaskId : ~M!TaskExists(m, t)
    BY <1>1, InABucket
  <2> QED BY <1>6, <2>1 DEF Numbered
<1>10. Books(sup, pc = "cleanup")
  <2>1. (pc = "cleanup") = FALSE
    BY <1>5
  <2> QED BY <1>1, <1>6, <1>7, <1>8, <1>9, <2>1 DEF Books
<1>11. Range(sup.vec) = {} /\ Range(sup.pendingReady) = {} /\ Len(sup.vec) = 0 /\ Len(sup.pendingReady) = 0
  BY <1>6 DEF Range
<1>12. Joins
  <2>1. Stages(sup)
    BY <1>6, <1>11, ExecutorConstants DEF Stages, OneToOne, R
  <2>2. \A w \in Worker : ~Known(sup, w)
    BY <1>6, <1>11, ExecutorConstants DEF Known
  <2> QED BY <1>5, <2>1, <2>2 DEF Joins, Heard
<1>13. Typed
  <2>1. << >> \in Seq(Messages)
    OBVIOUS
  <2> QED BY <1>5, <1>6, <2>1 DEF Typed, WorkerStates
<1> QED BY <1>5, <1>10, <1>12, <1>13 DEF Inv

LEMMA NextInv ==
  ASSUME Inv, [Next]_vars
  PROVE  Inv'
<1>1. CASE UNCHANGED vars
  <2>1. /\ sup' = sup /\ toSup' = toSup /\ toWorker' = toWorker /\ wpc' = wpc /\ pc' = pc
    BY <1>1 DEF vars
  <2>2. /\ toWorker' \in [Worker -> Seq(Messages)] /\ wpc' \in [Worker -> WorkerStates]
        /\ pc' \in Looping => sup.def # 0
    BY <2>1 DEF Inv, Typed, Looping
  <2> QED BY <2>1, <2>2, StillKeeps
<1>2. CASE Next
  <2>1. CASE SupervisorStep \/ Deadline \/ UserInterrupt
    BY <2>1, StartKeeps, LoopKeeps, FinishKeeps DEF SupervisorStep, Deadline
  <2>2. CASE \E w \in Worker : Receive(w)
    BY <2>2, ReceiveKeeps
  <2>3. CASE \E w \in Worker : WorkerNext(w)
    BY <2>3, WorkerKeeps DEF WorkerNext, supervisor
  <2>4. CASE \E w \in Worker : WorkerFault(w) /\ UNCHANGED supervisor
    BY <2>4, WorkerKeeps DEF supervisor
  <2> QED BY <1>2, <2>1, <2>2, <2>3, <2>4 DEF Next
<1> QED BY <1>1, <1>2

\* The books of the supervisor agree with one another in every state of a
\* session: a worker joins once (READY, the INIT round trip, the lists of
\* IpcSession), the task manager is consistent, a task is in the replay history
\* of one registered worker as long as it is running or done, the counts are
\* those of the histories, and the task numbers from the next one on are unused
\* (ExecuteCurrentBoundsProcessIpc and HandleWorkerFailure).
THEOREM InvAlways == Spec => []Inv
BY InitInv, NextInv, PTL DEF Spec

\* Unless a send fails, the loop's counters mean what its comment says, for any
\* number of workers and tasks and through every replay: outstanding counts the
\* tasks sent and not acknowledged, acked the tasks done
\* (ExecuteCurrentBoundsProcessIpc and HandleWorkerFailure).
THEOREM CountersAgreeAlways ==
  ASSUME "send" \notin Faults
  PROVE  Spec => []CountersAgree
<1>1. Inv => CountersAgree
  BY DEF Inv, Books, Counted, CountersAgree, mgr
<1> QED BY <1>1, InvAlways, PTL


-----------------------------------------------------------------------------
(* The second invariant *)

IsTask(m) == m.cmd \in {"TASK", "TASKB"}

\* The tasks a message carries, and the first of them.
Load(m) == IF m.cmd \in {"TASK", "TASKB", "ACK", "ACKB"} THEN Range(m.ids) ELSE {}

Lead(m) == IF Load(m) = {} THEN {} ELSE {m.ids[1]}

Cargo(q) == UNION {Load(q[i]) : i \in 1..Len(q)}

Leads(q) == UNION {Lead(q[i]) : i \in 1..Len(q)}

\* No task is in two messages.
Apart(q) == \A i, j \in 1..Len(q) : i # j => Load(q[i]) \cap Load(q[j]) = {}

\* A message of kind c is in q.
Carries(q, c) == \E i \in 1..Len(q) : q[i].cmd = c

\* No message of tasks is empty.
Solid(q) == \A i \in 1..Len(q) : q[i].cmd \in {"TASK", "TASKB", "ACKB"} => q[i].ids # << >>

\* The definition reaches every worker that joins late.
CatchUpsSucceed == "catchup" \notin Faults

\* Unless a catch-up may have failed, a worker whose definition is d0 will be
\* at definition d when it has read the messages before position i.
Under(q, d0, i, d) ==
  CatchUpsSucceed =>
    \/ d0 = d /\ \A k \in 1..(i - 1) : q[k].cmd # "SETDEF"
    \/ \E k \in 1..(i - 1) :
         q[k].cmd = "SETDEF" /\ q[k].def = d /\ \A j \in (k + 1)..(i - 1) : q[j].cmd # "SETDEF"

\* The tasks of q are tasks of the definition their worker will then be at.
Dated(q, d0) ==
  \A i \in 1..Len(q) : IsTask(q[i]) =>
    \E d \in Defs : Under(q, d0, i, d) /\ \A t \in Range(q[i].ids) : t < TasksOf[d]

-----------------------------------------------------------------------------
(* Queues of messages *)

LEMMA LoadTypes ==
  ASSUME NEW m \in Messages
  PROVE  Load(m) \in SUBSET TaskId /\ Lead(m) \subseteq Load(m)
<1>1. CASE m.cmd \in {"TASK", "TASKB", "ACK", "ACKB"}
  <2>1. m.ids \in Seq(TaskId)
    BY <1>1 DEF Messages
  <2>2. Range(m.ids) \in SUBSET TaskId /\ (Range(m.ids) # {} => m.ids[1] \in Range(m.ids))
    BY <2>1 DEF Range
  <2> QED BY <1>1, <2>2 DEF Load, Lead
<1>2. CASE m.cmd \notin {"TASK", "TASKB", "ACK", "ACKB"}
  BY <1>2 DEF Load, Lead
<1> QED BY <1>1, <1>2

LEMMA CargoTypes ==
  ASSUME NEW q \in Seq(Messages)
  PROVE  Cargo(q) \in SUBSET TaskId /\ Leads(q) \subseteq Cargo(q)
<1>1. \A i \in 1..Len(q) : q[i] \in Messages
  OBVIOUS
<1> QED BY <1>1, LoadTypes DEF Cargo, Leads

\* A sequence with the messages of q and perhaps fewer: its tail, a prefix.
LEMMA FewerMessages ==
  ASSUME NEW q \in Seq(Messages), NEW p \in Seq(Messages), NEW k \in Nat,
         Len(p) + k <= Len(q), \A i \in 1..Len(p) : p[i] = q[i + k]
  PROVE  /\ Cargo(p) \subseteq Cargo(q) /\ Leads(p) \subseteq Leads(q)
         /\ Apart(q) => Apart(p)
         /\ Solid(q) => Solid(p)
         /\ \A c : Carries(p, c) => Carries(q, c)
<1>1. \A i \in 1..Len(p) : i + k \in 1..Len(q)
  OBVIOUS
<1>2. \A i, j \in 1..Len(p) : i # j => i + k # j + k
  OBVIOUS
<1>3. Cargo(p) \subseteq Cargo(q) /\ Leads(p) \subseteq Leads(q)
  BY <1>1 DEF Cargo, Leads
<1>4. Apart(q) => Apart(p)
  BY <1>1, <1>2 DEF Apart
<1>5. Solid(q) => Solid(p)
  BY <1>1 DEF Solid
<1>6. \A c : Carries(p, c) => Carries(q, c)
  BY <1>1 DEF Carries
<1> QED BY <1>3, <1>4, <1>5, <1>6

LEMMA TailMessages ==
  ASSUME NEW q \in Seq(Messages), q # << >>
  PROVE  /\ Head(q) \in Messages /\ Tail(q) \in Seq(Messages)
         /\ Cargo(q) = Load(Head(q)) \cup Cargo(Tail(q))
         /\ Leads(q) = Lead(Head(q)) \cup Leads(Tail(q))
         /\ Apart(q) => Apart(Tail(q)) /\ Load(Head(q)) \cap Cargo(Tail(q)) = {}
         /\ Solid(q) => Solid(Tail(q))
         /\ \A c : Carries(q, c) <=> Head(q).cmd = c \/ Carries(Tail(q), c)
<1> DEFINE p == Tail(q)
<1>1. /\ p \in Seq(Messages) /\ Len(q) \in Nat \ {0} /\ Len(p) = Len(q) - 1 /\ Head(q) = q[1]
      /\ \A i \in 1..Len(p) : p[i] = q[i + 1]
  OBVIOUS
<1>2. \A i \in 1..Len(q) : i = 1 \/ (i - 1 \in 1..Len(p) /\ q[i] = p[i - 1])
  BY <1>1
<1>3. q[1] \in Messages /\ \A i \in 1..Len(p) : i + 1 \in 1..Len(q) /\ i + 1 # 1
  BY <1>1
<1>4. Len(p) + 1 <= Len(q) /\ 1 \in Nat
  BY <1>1
<1> HIDE DEF p
<1>5. /\ Cargo(p) \subseteq Cargo(q) /\ Leads(p) \subseteq Leads(q) /\ (Apart(q) => Apart(p))
      /\ (Solid(q) => Solid(p))
  BY <1>1, <1>4, FewerMessages
<1>6. Cargo(q) = Load(q[1]) \cup Cargo(p)
  <2>1. Load(q[1]) \subseteq Cargo(q)
    BY <1>1 DEF Cargo
  <2>2. Cargo(q) \subseteq Load(q[1]) \cup Cargo(p)
    BY <1>2 DEF Cargo
  <2> QED BY <1>5, <2>1, <2>2
<1>7. Leads(q) = Lead(q[1]) \cup Leads(p)
  <2>1. Lead(q[1]) \subseteq Leads(q)
    BY <1>1 DEF Leads
  <2>2. Leads(q) \subseteq Lead(q[1]) \cup Leads(p)
    BY <1>2 DEF Leads
  <2> QED BY <1>5, <2>1, <2>2
<1>8. Apart(q) => Load(q[1]) \cap Cargo(p) = {}
  <2>1. 1 \in 1..Len(q)
    BY <1>1
  <2>2. ASSUME Apart(q), NEW i \in 1..Len(p) PROVE Load(q[1]) \cap Load(p[i]) = {}
    BY <1>1, <1>3, <2>1, <2>2 DEF Apart
  <2> QED BY <2>2 DEF Cargo
<1>9. \A c : Carries(q, c) <=> q[1].cmd = c \/ Carries(p, c)
  <2>1. 1 \in 1..Len(q)
    BY <1>1
  <2>2. ASSUME NEW c, q[1].cmd = c \/ Carries(p, c) PROVE Carries(q, c)
    BY <1>1, <1>3, <2>1, <2>2 DEF Carries
  <2>3. ASSUME NEW c, Carries(q, c) PROVE q[1].cmd = c \/ Carries(p, c)
    BY <1>2, <2>3 DEF Carries
  <2> QED BY <2>2, <2>3
<1> QED BY <1>1, <1>3, <1>5, <1>6, <1>7, <1>8, <1>9 DEF p

LEMMA AppendMessage ==
  ASSUME NEW q \in Seq(Messages), NEW m \in Messages
  PROVE  /\ Append(q, m) \in Seq(Messages)
         /\ Cargo(Append(q, m)) = Cargo(q) \cup Load(m)
         /\ Leads(Append(q, m)) = Leads(q) \cup Lead(m)
         /\ Apart(q) /\ Cargo(q) \cap Load(m) = {} => Apart(Append(q, m))
         /\ Solid(q) /\ (m.cmd \in {"TASK", "TASKB", "ACKB"} => m.ids # << >>) => Solid(Append(q, m))
         /\ \A c : Carries(Append(q, m), c) <=> m.cmd = c \/ Carries(q, c)
<1> DEFINE p == Append(q, m)
<1>1. /\ p \in Seq(Messages) /\ Len(q) \in Nat /\ Len(p) = Len(q) + 1 /\ p[Len(q) + 1] = m
      /\ \A i \in 1..Len(q) : p[i] = q[i]
  OBVIOUS
<1>2. \A i \in 1..Len(p) : (i = Len(q) + 1 /\ p[i] = m) \/ (i \in 1..Len(q) /\ p[i] = q[i])
  BY <1>1
<1>3. Len(q) + 1 \in 1..Len(p) /\ \A i \in 1..Len(q) : i \in 1..Len(p) /\ i # Len(q) + 1
  BY <1>1
<1> HIDE DEF p
<1>4. Cargo(p) = Cargo(q) \cup Load(m)
  <2>1. Cargo(p) \subseteq Cargo(q) \cup Load(m)
    BY <1>2 DEF Cargo
  <2>2. Load(m) \subseteq Cargo(p)
    BY <1>1, <1>3 DEF Cargo
  <2>3. Cargo(q) \subseteq Cargo(p)
    BY <1>1, <1>3 DEF Cargo
  <2> QED BY <2>1, <2>2, <2>3
<1>5. Leads(p) = Leads(q) \cup Lead(m)
  <2>1. Leads(p) \subseteq Leads(q) \cup Lead(m)
    BY <1>2 DEF Leads
  <2>2. Lead(m) \subseteq Leads(p)
    BY <1>1, <1>3 DEF Leads
  <2>3. Leads(q) \subseteq Leads(p)
    BY <1>1, <1>3 DEF Leads
  <2> QED BY <2>1, <2>2, <2>3
<1>6. ASSUME Apart(q), Cargo(q) \cap Load(m) = {} PROVE Apart(p)
  <2>1. \A i \in 1..Len(q) : Load(q[i]) \cap Load(m) = {}
    BY <1>6 DEF Cargo
  <2>2. ASSUME NEW i \in 1..Len(p), NEW j \in 1..Len(p), i # j PROVE Load(p[i]) \cap Load(p[j]) = {}
    <3>1. CASE p[i] = m /\ i = Len(q) + 1
      <4>1. j \in 1..Len(q) /\ p[j] = q[j]
        BY <1>2, <2>2, <3>1
      <4> QED BY <2>1, <3>1, <4>1
    <3>2. CASE i \in 1..Len(q) /\ p[i] = q[i]
      BY <1>2, <1>6, <2>1, <2>2, <3>2 DEF Apart
    <3> QED BY <1>2, <3>1, <3>2
  <2> QED BY <2>2 DEF Apart
<1>7. Solid(q) /\ (m.cmd \in {"TASK", "TASKB", "ACKB"} => m.ids # << >>) => Solid(p)
  BY <1>2 DEF Solid
<1>8. \A c : Carries(p, c) <=> m.cmd = c \/ Carries(q, c)
  <2>1. ASSUME NEW c, m.cmd = c \/ Carries(q, c) PROVE Carries(p, c)
    BY <1>1, <1>3, <2>1 DEF Carries
  <2>2. ASSUME NEW c, Carries(p, c) PROVE m.cmd = c \/ Carries(q, c)
    BY <1>2, <2>2 DEF Carries
  <2> QED BY <2>1, <2>2
<1> QED BY <1>1, <1>4, <1>5, <1>6, <1>7, <1>8 DEF p

\* A message behind others does not change what they are under.
LEMMA UnderAppend ==
  ASSUME NEW q \in Seq(Messages), NEW m \in Messages, NEW p, p = Append(q, m), NEW d0, NEW d
  PROVE  /\ \A i \in 1..(Len(q) + 1) : Under(q, d0, i, d) => Under(p, d0, i, d)
         /\ m.cmd = "SETDEF" /\ m.def = d => Under(p, d0, Len(p) + 1, d)
         /\ m.cmd # "SETDEF" /\ Under(q, d0, Len(q) + 1, d) => Under(p, d0, Len(p) + 1, d)
<1> DEFINE L == Len(q)
<1>1. /\ L \in Nat /\ Len(p) = L + 1 /\ p[L + 1] = m
      /\ \A i \in 1..L : p[i] = q[i]
  OBVIOUS
<1> HIDE DEF L
<1>2. ASSUME NEW i \in 1..(L + 1), Under(q, d0, i, d) PROVE Under(p, d0, i, d)
  <2>0. i \in Nat
    BY <1>1
  <2>1. \A k \in 1..(i - 1) : k \in 1..L
    BY <1>1, <2>0
  <2>2. \A k \in 1..(i - 1) : \A j \in (k + 1)..(i - 1) : j \in 1..(i - 1)
    BY <2>0
  <2> QED BY <1>1, <1>2, <2>1, <2>2 DEF Under
<1>3. ASSUME m.cmd = "SETDEF", m.def = d PROVE Under(p, d0, L + 2, d)
  <2>1. L + 1 \in 1..((L + 2) - 1) /\ \A j \in (L + 1 + 1)..((L + 2) - 1) : FALSE
    BY <1>1
  <2> QED BY <1>1, <1>3, <2>1 DEF Under
<1>4. ASSUME m.cmd # "SETDEF", Under(q, d0, L + 1, d) PROVE Under(p, d0, L + 2, d)
  <2>1. \A k \in 1..((L + 2) - 1) : k \in 1..((L + 1) - 1) \/ k = L + 1
    BY <1>1
  <2>2. \A k \in 1..((L + 1) - 1) : k \in 1..((L + 2) - 1) /\ k \in 1..L
    BY <1>1
  <2>3. CASE d0 = d /\ \A k \in 1..((L + 1) - 1) : q[k].cmd # "SETDEF"
    BY <1>1, <1>4, <2>1, <2>2, <2>3 DEF Under
  <2>4. CASE \E k \in 1..((L + 1) - 1) :
               q[k].cmd = "SETDEF" /\ q[k].def = d /\ \A j \in (k + 1)..((L + 1) - 1) : q[j].cmd # "SETDEF"
    <3>1. PICK k \in 1..((L + 1) - 1) :
                 q[k].cmd = "SETDEF" /\ q[k].def = d /\ \A j \in (k + 1)..((L + 1) - 1) : q[j].cmd # "SETDEF"
      BY <2>4
    <3>2. \A j \in (k + 1)..((L + 2) - 1) : j = L + 1 \/ (j \in (k + 1)..((L + 1) - 1) /\ j \in 1..L)
      BY <1>1
    <3>3. k \in 1..((L + 2) - 1) /\ p[k] = q[k] /\ \A j \in (k + 1)..((L + 2) - 1) : p[j].cmd # "SETDEF"
      BY <1>1, <1>4, <2>2, <3>1, <3>2
    <3> QED BY <3>1, <3>3 DEF Under
  <2> QED BY <1>4, <2>3, <2>4 DEF Under
<1>5. Len(p) + 1 = L + 2
  BY <1>1
<1> QED BY <1>2, <1>3, <1>4, <1>5 DEF L

\* Reading the first message changes the definition as that message says.
LEMMA UnderTail ==
  ASSUME NEW q \in Seq(Messages), q # << >>, NEW p, p = Tail(q), NEW d0, NEW d,
         NEW e, e = IF Head(q).cmd = "SETDEF" THEN Head(q).def ELSE d0,
         NEW i \in 1..Len(q), Under(q, d0, i + 1, d)
  PROVE  Under(p, e, i, d)
<1>1. /\ Len(q) \in Nat \ {0} /\ Len(p) = Len(q) - 1 /\ Head(q) = q[1]
      /\ \A k \in 1..Len(p) : p[k] = q[k + 1]
  OBVIOUS
<1>2. i - 1 <= Len(p) /\ \A k \in 1..(i - 1) : k + 1 \in 1..(i + 1 - 1) /\ p[k] = q[k + 1]
  BY <1>1
<1>3. CASE d0 = d /\ \A k \in 1..(i + 1 - 1) : q[k].cmd # "SETDEF"
  <2>1. 1 \in 1..(i + 1 - 1)
    BY <1>1
  <2>2. e = d
    BY <1>1, <1>3, <2>1
  <2> QED BY <1>2, <1>3, <2>2 DEF Under
<1>4. CASE \E k \in 1..(i + 1 - 1) :
             q[k].cmd = "SETDEF" /\ q[k].def = d /\ \A j \in (k + 1)..(i + 1 - 1) : q[j].cmd # "SETDEF"
  <2>1. PICK k \in 1..(i + 1 - 1) :
               q[k].cmd = "SETDEF" /\ q[k].def = d /\ \A j \in (k + 1)..(i + 1 - 1) : q[j].cmd # "SETDEF"
    BY <1>4
  <2>2. CASE k = 1
    <3>1. e = d
      BY <1>1, <2>1, <2>2
    <3>2. \A j \in 1..(i - 1) : j + 1 \in (k + 1)..(i + 1 - 1)
      BY <2>2
    <3>3. \A j \in 1..(i - 1) : p[j].cmd # "SETDEF"
      BY <1>2, <2>1, <3>2
    <3> QED BY <3>1, <3>3 DEF Under
  <2>3. CASE k # 1
    <3>1. k - 1 \in 1..(i - 1) /\ k - 1 + 1 = k
      BY <2>3
    <3>2. p[k - 1] = q[k]
      BY <1>2, <3>1
    <3>3. ASSUME NEW j \in (k - 1 + 1)..(i - 1) PROVE p[j].cmd # "SETDEF"
      <4>1. j \in 1..(i - 1) /\ j + 1 \in (k + 1)..(i + 1 - 1)
        BY <1>1
      <4> QED BY <1>2, <2>1, <4>1
    <3> QED BY <2>1, <3>1, <3>2, <3>3 DEF Under
  <2> QED BY <2>2, <2>3
<1>5. CASE ~CatchUpsSucceed
  BY <1>5 DEF Under
<1>6. CatchUpsSucceed =>
        \/ d0 = d /\ \A k \in 1..(i + 1 - 1) : q[k].cmd # "SETDEF"
        \/ \E k \in 1..(i + 1 - 1) :
             q[k].cmd = "SETDEF" /\ q[k].def = d /\ \A j \in (k + 1)..(i + 1 - 1) : q[j].cmd # "SETDEF"
  BY DEF Under
<1> QED BY <1>3, <1>4, <1>5, <1>6

LEMMA DatedTail ==
  ASSUME NEW q \in Seq(Messages), q # << >>, NEW d0, Dated(q, d0)
  PROVE  Dated(Tail(q), IF Head(q).cmd = "SETDEF" THEN Head(q).def ELSE d0)
<1> DEFINE p == Tail(q)
           e == IF Head(q).cmd = "SETDEF" THEN Head(q).def ELSE d0
<1>1. /\ Len(q) \in Nat \ {0} /\ Len(p) = Len(q) - 1 /\ \A k \in 1..Len(p) : p[k] = q[k + 1]
  OBVIOUS
<1>2. ASSUME NEW i \in 1..Len(p), IsTask(p[i])
      PROVE  \E d \in Defs : Under(p, e, i, d) /\ \A t \in Range(p[i].ids) : t < TasksOf[d]
  <2>1. i + 1 \in 1..Len(q) /\ p[i] = q[i + 1] /\ i \in 1..Len(q)
    BY <1>1
  <2>2. PICK d \in Defs : Under(q, d0, i + 1, d) /\ \A t \in Range(q[i + 1].ids) : t < TasksOf[d]
    BY <1>2, <2>1 DEF Dated
  <2>3. Under(p, e, i, d)
    BY <2>1, <2>2, UnderTail
  <2> QED BY <2>1, <2>2, <2>3
<1> QED BY <1>2 DEF Dated

\* A message of tasks must be of the definition the worker will be at.
LEMMA DatedAppend ==
  ASSUME NEW q \in Seq(Messages), NEW m \in Messages, NEW d0, Dated(q, d0),
         IsTask(m) => \E d \in Defs : Under(q, d0, Len(q) + 1, d) /\ \A t \in Range(m.ids) : t < TasksOf[d]
  PROVE  Dated(Append(q, m), d0)
<1> DEFINE p == Append(q, m)
<1>1. /\ Len(q) \in Nat /\ Len(p) = Len(q) + 1 /\ p[Len(q) + 1] = m /\ \A i \in 1..Len(q) : p[i] = q[i]
  OBVIOUS
<1>2. ASSUME NEW i \in 1..Len(p), IsTask(p[i])
      PROVE  \E d \in Defs : Under(p, d0, i, d) /\ \A t \in Range(p[i].ids) : t < TasksOf[d]
  <2>1. i \in 1..(Len(q) + 1) /\ (i = Len(q) + 1 \/ i \in 1..Len(q))
    BY <1>1
  <2>2. PICK d \in Defs : Under(q, d0, i, d) /\ \A t \in Range(p[i].ids) : t < TasksOf[d]
    BY <1>1, <1>2, <2>1 DEF Dated
  <2>3. Under(p, d0, i, d)
    BY <2>1, <2>2, UnderAppend
  <2> QED BY <2>2, <2>3
<1> QED BY <1>2 DEF Dated

\* What p, after r, may hold of the tasks of S, of which those of L lead a
\* message; READY and DONE are new only when in C.
Sent(p, r, S, L, C) ==
  /\ Cargo(p) \subseteq Cargo(r) \cup S /\ Leads(p) \subseteq Leads(r) \cup L
  /\ Apart(r) /\ Cargo(r) \cap S = {} => Apart(p)
  /\ Solid(r) => Solid(p)
  /\ \A c \in {"READY", "DONE"} \ C : Carries(p, c) => Carries(r, c)

LEMMA SentFewer ==
  ASSUME NEW r \in Seq(Messages), NEW p \in Prefixes(r), NEW S, NEW L, NEW C
  PROVE  Sent(p, r, S, L, C)
<1>1. PICK n \in 0..Len(r) : p = SubSeq(r, 1, n)
  BY DEF Prefixes
<1>2. p \in Seq(Messages) /\ 0 \in Nat /\ Len(p) + 0 <= Len(r) /\ \A i \in 1..Len(p) : p[i] = r[i + 0]
  BY <1>1
<1>3. /\ Cargo(p) \subseteq Cargo(r) /\ Leads(p) \subseteq Leads(r) /\ (Apart(r) => Apart(p)) /\ (Solid(r) => Solid(p))
      /\ \A c : Carries(p, c) => Carries(r, c)
  BY ONLY <1>2, FewerMessages, r \in Seq(Messages)
<1> QED BY <1>3 DEF Sent

LEMMA SentAll ==
  ASSUME NEW r \in Seq(Messages), NEW S, NEW L, NEW C
  PROVE  Sent(r, r, S, L, C)
BY DEF Sent

\* One message is sent.
LEMMA SentOne ==
  ASSUME NEW r \in Seq(Messages), NEW m \in Messages, NEW S, NEW L, Load(m) \subseteq S, Lead(m) \subseteq L,
         m.cmd \in {"TASK", "TASKB", "ACKB"} => m.ids # << >>, NEW C, m.cmd \in {"READY", "DONE"} => m.cmd \in C
  PROVE  Sent(r \o <<m>>, r, S, L, C)
<1>1. r \o <<m>> = Append(r, m)
  OBVIOUS
<1> DEFINE p == Append(r, m)
<1>2. /\ Cargo(p) = Cargo(r) \cup Load(m) /\ Leads(p) = Leads(r) \cup Lead(m)
      /\ (Apart(r) /\ Cargo(r) \cap Load(m) = {} => Apart(p)) /\ (Solid(r) => Solid(p))
      /\ \A c : Carries(p, c) <=> m.cmd = c \/ Carries(r, c)
  BY AppendMessage
<1> HIDE DEF p
<1>3. Sent(p, r, S, L, C)
  BY <1>2 DEF Sent
<1> QED BY <1>1, <1>3 DEF p

LEMMA TwoAppended ==
  ASSUME NEW S, NEW r \in Seq(S), NEW a \in S, NEW m \in S
  PROVE  r \o <<a, m>> = Append(Append(r, a), m)
<1>1. ASSUME NEW g \in Seq(S), Len(g) = 2, g[1] = a, g[2] = m PROVE r \o g = Append(Append(r, a), m)
  <2> DEFINE x == r \o g
             q == Append(Append(r, a), m)
  <2>1. /\ x \in Seq(S) /\ Len(x) = Len(r) + Len(g) /\ Len(r) \in Nat
        /\ \A i \in 1..(Len(r) + Len(g)) : x[i] = IF i <= Len(r) THEN r[i] ELSE g[i - Len(r)]
    BY Concatenation
  <2>2. /\ q \in Seq(S) /\ Len(q) = Len(r) + 2 /\ q[Len(r) + 1] = a /\ q[Len(r) + 2] = m
        /\ \A i \in 1..Len(r) : q[i] = r[i]
    OBVIOUS
  <2> HIDE DEF x, q
  <2>3. ASSUME NEW i \in 1..Len(x) PROVE x[i] = q[i]
    <3>1. i \in 1..Len(r) \/ i = Len(r) + 1 \/ i = Len(r) + 2
      BY <1>1, <2>1
    <3>2. Len(r) + 1 - Len(r) = 1 /\ Len(r) + 2 - Len(r) = 2
      BY <2>1
    <3> QED BY <1>1, <2>1, <2>2, <3>1, <3>2
  <2>4. x = q
    BY <1>1, <2>1, <2>2, <2>3, SameSeq
  <2> QED BY <2>4 DEF x, q
<1>2. <<a, m>> \in Seq(S) /\ Len(<<a, m>>) = 2 /\ <<a, m>>[1] = a /\ <<a, m>>[2] = m
  OBVIOUS
<1> QED BY <1>1, <1>2

\* Two messages are sent, the first of which carries nothing.
LEMMA SentTwo ==
  ASSUME NEW r \in Seq(Messages), NEW a \in Messages, Load(a) = {}, Lead(a) = {}, a.cmd = "SHUTDOWN",
         NEW m \in Messages, NEW S, NEW L, Load(m) \subseteq S, Lead(m) \subseteq L,
         m.cmd \in {"TASK", "TASKB", "ACKB"} => m.ids # << >>, m.cmd \notin {"READY", "DONE"}
  PROVE  Sent(r \o <<a, m>>, r, S, L, {})
<1> DEFINE p == Append(r, a)
           q == Append(p, m)
           x == r \o <<a, m>>
<1>1. x = q
  BY TwoAppended
<1>2. /\ p \in Seq(Messages) /\ Cargo(p) = Cargo(r) \cup Load(a) /\ Leads(p) = Leads(r) \cup Lead(a)
      /\ (Apart(r) /\ Cargo(r) \cap Load(a) = {} => Apart(p)) /\ (Solid(r) => Solid(p))
      /\ \A c : Carries(p, c) <=> a.cmd = c \/ Carries(r, c)
  BY AppendMessage
<1> HIDE DEF p
<1>3. /\ Cargo(q) = Cargo(p) \cup Load(m) /\ Leads(q) = Leads(p) \cup Lead(m)
      /\ (Apart(p) /\ Cargo(p) \cap Load(m) = {} => Apart(q)) /\ (Solid(p) => Solid(q))
      /\ \A c : Carries(q, c) <=> m.cmd = c \/ Carries(p, c)
  BY <1>2, AppendMessage
<1> HIDE DEF q, x
<1>4. Sent(q, r, S, L, {})
  BY <1>2, <1>3 DEF Sent
<1> QED BY <1>1, <1>4 DEF x

-----------------------------------------------------------------------------
(* What the worker does to its queues and its memory *)

\* w reads a message or not, and processes the tasks of S.
Moves(w, S, C) ==
  /\ \A v \in Worker : v # w =>
       toWorker'[v] = toWorker[v] /\ toSup'[v] = toSup[v]
  /\ \/ /\ S = {} /\ toWorker'[w] = toWorker[w] /\ wdef' = wdef
        /\ Sent(toSup'[w], toSup[w], {}, {}, C)
     \/ /\ toWorker[w] # << >> /\ toWorker'[w] = Tail(toWorker[w])
        /\ S \subseteq Load(Head(toWorker[w])) /\ (S # {} => IsTask(Head(toWorker[w])))
        /\ wdef' = IF Head(toWorker[w]).cmd = "SETDEF"
                   THEN [wdef EXCEPT ![w] = Head(toWorker[w]).def] ELSE wdef
        /\ Solid(toWorker[w]) => Sent(toSup'[w], toSup[w], S, Lead(Head(toWorker[w])), C)
  /\ (mem' = mem /\ S = {}) \/ mem' = [mem EXCEPT ![w] = @ \cup {<<wdef[w], t>> : t \in S}]
  /\ ("READY" \in C => wpc[w] = "off") /\ ("DONE" \in C => CloseFile(w))

\* The first k tasks of a message, as an acknowledgement of a batch.
LEMMA FirstTasks ==
  ASSUME NEW h \in Messages, IsTask(h), NEW k \in 0..Len(h.ids), NEW p, p = SubSeq(h.ids, 1, k),
         NEW m, m = Msg("ACKB", p)
  PROVE  /\ h.ids \in Seq(TaskId) /\ Load(h) = Range(h.ids) /\ p \in Seq(TaskId)
         /\ Range(p) \subseteq Load(h) /\ m \in Messages /\ Load(m) = Range(p) /\ Lead(m) \subseteq Lead(h)
         /\ k # 0 => m.ids # << >>
<1>1. h.ids \in Seq(TaskId) /\ Load(h) = Range(h.ids)
  BY MessageFields DEF IsTask, Load
<1> DEFINE ids == h.ids
<1> HIDE DEF ids
<1>2. /\ ids \in Seq(TaskId) /\ p \in Seq(TaskId) /\ Len(p) = k /\ k \in Nat /\ k <= Len(ids)
      /\ \A i \in 1..k : p[i] = ids[i] /\ i \in 1..Len(ids)
  BY <1>1 DEF ids
<1>3. Range(p) \subseteq Range(ids) /\ (k # 0 => p # << >> /\ p[1] = ids[1])
  <2>1. Range(p) \subseteq Range(ids)
    <3>1. DOMAIN p = 1..k /\ DOMAIN ids = 1..Len(ids)
      BY <1>2
    <3> QED BY <1>2, <3>1 DEF Range
  <2>2. k # 0 => 1 \in 1..k /\ Len(p) # 0
    BY <1>2
  <2>3. k # 0 => p # << >> /\ p[1] = ids[1]
    BY <1>2, <2>2
  <2> QED BY <2>1, <2>3
<1>4. m \in Messages /\ m.cmd = "ACKB" /\ m.ids = p
  BY <1>2, MessageTypes DEF Msg
<1>5. Load(m) = Range(p)
  BY <1>4 DEF Load
<1>6. Lead(m) \subseteq Lead(h)
  <2>1. CASE k = 0
    <3>1. Range(p) = {}
      BY <1>2, <2>1 DEF Range
    <3> QED BY <1>5, <3>1 DEF Lead
  <2>2. CASE k # 0
    BY <1>1, <1>3, <1>4, <1>5, <2>2 DEF Lead, ids
  <2> QED BY <2>1, <2>2
<1> QED BY <1>1, <1>2, <1>3, <1>4, <1>5, <1>6 DEF ids

\* A reply of one or two messages, of which the last carries at most S.
LEMMA ReplySends ==
  ASSUME Typed, NEW w \in Worker, NEW S, NEW L, NEW m \in Messages, Load(m) \subseteq S, Lead(m) \subseteq L,
         m.cmd \in {"TASK", "TASKB", "ACKB"} => m.ids # << >>, m.cmd \notin {"READY", "DONE"},
         Reply(w, <<m>>) \/ \E r \in {"stop", "abort", "interrupted"} : Reply(w, <<Shutdown(r), m>>)
  PROVE  Sent(toSup'[w], toSup[w], S, L, {}) /\ \A v \in Worker : v # w => toSup'[v] = toSup[v]
<1> DEFINE f == toSup[w]
<1>1. toSup \in [Worker -> Seq(Messages)] /\ f \in Seq(Messages)
  BY DEF Typed
<1>2. CASE Reply(w, <<m>>)
  <2>1. toSup' = [toSup EXCEPT ![w] = f \o <<m>>]
    BY <1>2 DEF Reply
  <2> HIDE DEF f
  <2>2. Sent(f \o <<m>>, f, S, L, {})
    BY <1>1, SentOne
  <2> QED BY <1>1, <2>1, <2>2 DEF f
<1>3. CASE \E r \in {"stop", "abort", "interrupted"} : Reply(w, <<Shutdown(r), m>>)
  <2>1. PICK r \in {"stop", "abort", "interrupted"} : Reply(w, <<Shutdown(r), m>>)
    BY <1>3
  <2> DEFINE a == Shutdown(r)
  <2>2. a \in Messages /\ a.cmd = "SHUTDOWN"
    BY MessageTypes
  <2>3. Load(a) = {} /\ Lead(a) = {}
    BY <2>2 DEF Load, Lead
  <2>4. toSup' = [toSup EXCEPT ![w] = f \o <<a, m>>]
    BY <2>1 DEF Reply
  <2> HIDE DEF f, a
  <2>5. Sent(f \o <<a, m>>, f, S, L, {})
    BY <1>1, <2>2, <2>3, SentTwo
  <2> QED BY <1>1, <2>4, <2>5 DEF f
<1> QED BY <1>2, <1>3

LEMMA PlainMessages ==
  /\ \A c \in {"READY", "INIT", "DONE", "ERR"}, ids \in Seq(TaskId) :
       Msg(c, ids) \in Messages /\ Msg(c, ids).cmd = c /\ Load(Msg(c, ids)) = {} /\ Lead(Msg(c, ids)) = {}
  /\ LET m == Msg("ACK", << >>) IN m \in Messages /\ m.cmd = "ACK" /\ Load(m) = {} /\ Lead(m) = {}
  /\ \A r \in {"stop", "abort", "interrupted"} :
       /\ Shutdown(r) \in Messages /\ Shutdown(r).cmd = "SHUTDOWN"
       /\ Load(Shutdown(r)) = {} /\ Lead(Shutdown(r)) = {}
  /\ \A a \in BOOLEAN : Stop(a) \in Messages /\ Stop(a).cmd = "STOP" /\ Load(Stop(a)) = {} /\ Lead(Stop(a)) = {}
  /\ \A d \in Defs : SetDef(d) \in Messages /\ SetDef(d).cmd = "SETDEF" /\ SetDef(d).def = d
                    /\ Load(SetDef(d)) = {} /\ Lead(SetDef(d)) = {}
<1>1. \A c \in {"READY", "INIT", "DONE", "ERR"}, ids \in Seq(TaskId) :
        Msg(c, ids) \in Messages /\ Msg(c, ids).cmd = c
  BY MessageTypes
<1>2. \A c \in {"READY", "INIT", "DONE", "ERR"}, ids \in Seq(TaskId) :
        Load(Msg(c, ids)) = {} /\ Lead(Msg(c, ids)) = {}
  BY <1>1 DEF Load, Lead
<1>3. \A r \in {"stop", "abort", "interrupted"} :
        /\ Shutdown(r) \in Messages /\ Shutdown(r).cmd = "SHUTDOWN"
        /\ Load(Shutdown(r)) = {} /\ Lead(Shutdown(r)) = {}
  BY MessageTypes DEF Load, Lead
<1>4. \A a \in BOOLEAN : Stop(a) \in Messages /\ Stop(a).cmd = "STOP" /\ Load(Stop(a)) = {} /\ Lead(Stop(a)) = {}
  BY DEF Messages, Stop, Load, Lead
<1>5. \A d \in Defs : SetDef(d) \in Messages /\ SetDef(d).cmd = "SETDEF" /\ SetDef(d).def = d
                     /\ Load(SetDef(d)) = {} /\ Lead(SetDef(d)) = {}
  BY DEF Messages, SetDef, Load, Lead
<1>6. LET m == Msg("ACK", << >>) IN m \in Messages /\ m.cmd = "ACK" /\ Load(m) = {} /\ Lead(m) = {}
  <2> DEFINE m == Msg("ACK", << >>)
  <2>1. << >> \in Seq(TaskId)
    OBVIOUS
  <2>2. m \in Messages /\ m.cmd = "ACK" /\ m.ids = << >>
    BY <2>1, MessageTypes DEF Msg
  <2> HIDE DEF m
  <2>3. Load(m) = {}
    BY <2>2 DEF Load, Range
  <2>4. Lead(m) = {}
    BY <2>3 DEF Lead
  <2> QED BY <2>2, <2>3, <2>4 DEF m
<1> QED BY <1>1, <1>2, <1>3, <1>4, <1>5, <1>6

LEMMA WorkerMoves ==
  ASSUME Typed, NEW w \in Worker, WorkerStep(w) \/ GiveUpInit(w, Over) \/ WorkerFault(w)
  PROVE  \E S, C : Moves(w, S, C)
<1> DEFINE q == toWorker[w]
           r == toSup[w]
           h == Head(toWorker[w])
           Empty == {}
<1>0. /\ q \in Seq(Messages) /\ r \in Seq(Messages)
      /\ toWorker \in [Worker -> Seq(Messages)] /\ toSup \in [Worker -> Seq(Messages)]
  BY DEF Typed
<1>1. ASSUME NEW c, Receives(w, c)
      PROVE  /\ q # << >> /\ h \in Messages /\ h.cmd = c /\ toWorker'[w] = Tail(q)
             /\ \A v \in Worker : v # w => toWorker'[v] = toWorker[v]
  BY <1>0, <1>1, ReceivesTypes DEF Receives
<1>2. ASSUME toSup' = toSup, NEW S, NEW L
      PROVE  Sent(toSup'[w], r, S, L, {}) /\ \A v \in Worker : v # w => toSup'[v] = toSup[v]
  BY <1>0, <1>2, SentAll
<1>3. << >> \in Seq(TaskId)
  OBVIOUS
<1>4. CASE Connect(w)
  <2> DEFINE m == Msg("READY", << >>)
  <2>1. m \in Messages /\ m.cmd = "READY" /\ Load(m) = {} /\ Lead(m) = {}
    BY <1>3, PlainMessages
  <2>2. Reply(w, <<m>>) /\ toWorker' = toWorker /\ wdef' = wdef /\ mem' = mem
    BY <1>4 DEF Connect
  <2> HIDE DEF m
  <2>3. toSup' = [toSup EXCEPT ![w] = r \o <<m>>]
    BY <2>2 DEF Reply
  <2>4. Sent(r \o <<m>>, r, {}, {}, {"READY"})
    <3> HIDE DEF r
    <3> QED BY <1>0, <2>1, SentOne
  <2>5. Sent(toSup'[w], toSup[w], {}, {}, {"READY"}) /\ \A v \in Worker : v # w => toSup'[v] = toSup[v]
    BY <1>0, <2>3, <2>4
  <2>6. Moves(w, {}, {"READY"})
    BY <1>4, <2>2, <2>5 DEF Moves, Connect
  <2> QED BY <2>6
<1>5. CASE GiveUpInit(w, Over)
  <2>1. toSup' = toSup /\ toWorker' = toWorker /\ wdef' = wdef /\ mem' = mem
    BY <1>5 DEF GiveUpInit, channels
  <2>2. Moves(w, {}, {})
    BY <1>2, <2>1 DEF Moves
  <2> QED BY <2>2
<1>6. CASE ReceiveInit(w) \/ StopBeforeInit(w) \/ ReceiveStop(w)
  <2>1. /\ \E c \in {"INIT", "STOP"} : Receives(w, c)
        /\ wdef' = wdef /\ mem' = mem
    BY <1>6 DEF ReceiveInit, StopBeforeInit, ReceiveStop
  <2>2. Sent(toSup'[w], r, {}, Lead(h), {}) /\ \A v \in Worker : v # w => toSup'[v] = toSup[v]
    <3>1. CASE toSup' = toSup
      BY <1>2, <3>1
    <3>2. CASE \E m \in Messages : Load(m) = {} /\ Lead(m) = {} /\ m.cmd \in {"ACK", "SHUTDOWN"} /\ Reply(w, <<m>>)
      <4>1. PICK m \in Messages : Load(m) = {} /\ Lead(m) = {} /\ m.cmd \in {"ACK", "SHUTDOWN"} /\ Reply(w, <<m>>)
        BY <3>2
      <4> QED BY <4>1, ReplySends
    <3>3. toSup' = toSup \/ Reply(w, <<Msg("ACK", << >>)>>)
          \/ \E a \in {"stop", "abort", "interrupted"} : Reply(w, <<Shutdown(a)>>)
      BY <1>6 DEF ReceiveInit, StopBeforeInit, ReceiveStop
    <3> QED BY <3>1, <3>2, <3>3, PlainMessages
  <2>3. /\ q # << >> /\ toWorker'[w] = Tail(q) /\ h.cmd # "SETDEF"
        /\ \A v \in Worker : v # w => toWorker'[v] = toWorker[v]
    BY <1>1, <2>1
  <2>4. Moves(w, {}, {})
    BY <2>1, <2>2, <2>3 DEF Moves
  <2> QED BY <2>4
<1>7. CASE ReceiveSetDef(w)
  <2>1. Receives(w, "SETDEF") /\ wdef' = [wdef EXCEPT ![w] = h.def] /\ mem' = mem /\ toSup' = toSup
    BY <1>7 DEF ReceiveSetDef, workers
  <2>2. Sent(toSup'[w], r, {}, Lead(h), {}) /\ \A v \in Worker : v # w => toSup'[v] = toSup[v]
    BY <1>2, <2>1
  <2>3. /\ q # << >> /\ toWorker'[w] = Tail(q) /\ h.cmd = "SETDEF"
        /\ \A v \in Worker : v # w => toWorker'[v] = toWorker[v]
    BY <1>1, <2>1
  <2>4. Moves(w, {}, {})
    BY <2>1, <2>2, <2>3 DEF Moves
  <2> QED BY <2>4
<1>8. CASE CloseFile(w)
  <2> DEFINE m == Msg("DONE", << >>)
  <2>1. m \in Messages /\ m.cmd = "DONE" /\ Load(m) = {} /\ Lead(m) = {}
    BY <1>3, PlainMessages
  <2>2. Reply(w, <<m>>) /\ toWorker' = toWorker /\ wdef' = wdef /\ mem' = mem
    BY <1>8 DEF CloseFile
  <2> HIDE DEF m
  <2>3. toSup' = [toSup EXCEPT ![w] = r \o <<m>>]
    BY <2>2 DEF Reply
  <2>4. Sent(r \o <<m>>, r, {}, {}, {"DONE"})
    <3> HIDE DEF r
    <3> QED BY <1>0, <2>1, SentOne
  <2>5. Sent(toSup'[w], toSup[w], {}, {}, {"DONE"}) /\ \A v \in Worker : v # w => toSup'[v] = toSup[v]
    BY <1>0, <2>3, <2>4
  <2>6. Moves(w, {}, {"DONE"})
    BY <1>8, <2>2, <2>5 DEF Moves
  <2> QED BY <2>6
<1>9. CASE Exit(w) \/ Crash(w)
  <2>1. toSup' = toSup \/ \E p \in Prefixes(r) : toSup' = [toSup EXCEPT ![w] = p]
    BY <1>9 DEF Exit, Crash
  <2>2. Sent(toSup'[w], toSup[w], {}, {}, {}) /\ \A v \in Worker : v # w => toSup'[v] = toSup[v]
    <3>1. CASE toSup' = toSup
      BY <1>2, <3>1
    <3>2. CASE \E p \in Prefixes(r) : toSup' = [toSup EXCEPT ![w] = p]
      <4>1. PICK p \in Prefixes(r) : toSup' = [toSup EXCEPT ![w] = p]
        BY <3>2
      <4>2. toSup'[w] = p /\ \A v \in Worker : v # w => toSup'[v] = toSup[v]
        BY <1>0, <4>1
      <4> HIDE DEF r
      <4>3. Sent(p, r, {}, {}, {})
        BY <1>0, SentFewer
      <4> QED BY <4>2, <4>3 DEF r
    <3> QED BY <2>1, <3>1, <3>2
  <2>3. toWorker' = toWorker /\ wdef' = wdef /\ mem' = mem
    BY <1>9 DEF Exit, Crash
  <2>4. Moves(w, {}, {})
    BY <2>2, <2>3 DEF Moves
  <2> QED BY <2>4
\* A message of tasks is read, of which those of S are processed.
<1>10. ASSUME NEW c \in {"TASK", "TASKB"}, Receives(w, c), wdef' = wdef, NEW S \in SUBSET Load(h),
              (mem' = mem /\ S = {}) \/ mem' = [mem EXCEPT ![w] = @ \cup {<<wdef[w], t>> : t \in S}],
              Solid(q) => \/ toSup' = toSup
                          \/ \E m \in Messages :
                               /\ Load(m) \subseteq S /\ Lead(m) \subseteq Lead(h)
                               /\ (m.cmd \in {"TASK", "TASKB", "ACKB"} => m.ids # << >>) /\ m.cmd \notin {"READY", "DONE"}
                               /\ \/ Reply(w, <<m>>)
                                  \/ \E a \in {"stop", "abort", "interrupted"} : Reply(w, <<Shutdown(a), m>>),
              \A v \in Worker : v # w => toSup'[v] = toSup[v]
       PROVE  Moves(w, S, {})
  <2>1. /\ q # << >> /\ toWorker'[w] = Tail(q) /\ IsTask(h) /\ h.cmd # "SETDEF"
        /\ \A v \in Worker : v # w => toWorker'[v] = toWorker[v]
    BY <1>1, <1>10 DEF IsTask
  <2>2. Solid(q) => Sent(toSup'[w], toSup[w], S, Lead(h), {})
    <3> SUFFICES ASSUME Solid(q) PROVE Sent(toSup'[w], toSup[w], S, Lead(h), {})
      OBVIOUS
    <3>1. CASE toSup' = toSup
      BY <1>2, <3>1
    <3>2. CASE toSup' # toSup
      <4>1. PICK m \in Messages :
                  /\ Load(m) \subseteq S /\ Lead(m) \subseteq Lead(h)
                  /\ (m.cmd \in {"TASK", "TASKB", "ACKB"} => m.ids # << >>) /\ m.cmd \notin {"READY", "DONE"}
                  /\ \/ Reply(w, <<m>>)
                     \/ \E a \in {"stop", "abort", "interrupted"} : Reply(w, <<Shutdown(a), m>>)
        BY <1>10, <3>2
      <4> HIDE DEF h
      <4> QED BY <4>1, ReplySends
    <3> QED BY <3>1, <3>2
  <2> QED BY <1>10, <2>1, <2>2 DEF Moves
\* A part of the message, or all of it, is processed.
<1>11. ASSUME NEW c \in {"TASK", "TASKB"}, Receives(w, c), wdef' = wdef,
              NEW k \in 0..Len(h.ids), Process(w, SubSeq(h.ids, 1, k)),
              Solid(q) => \/ toSup' = toSup
                          \/ \E m \in Messages :
                               /\ Load(m) \subseteq Range(SubSeq(h.ids, 1, k)) /\ Lead(m) \subseteq Lead(h)
                               /\ (m.cmd \in {"TASK", "TASKB", "ACKB"} => m.ids # << >>) /\ m.cmd \notin {"READY", "DONE"}
                               /\ \/ Reply(w, <<m>>)
                                  \/ \E a \in {"stop", "abort", "interrupted"} : Reply(w, <<Shutdown(a), m>>),
              \A v \in Worker : v # w => toSup'[v] = toSup[v]
       PROVE  \E S, C : Moves(w, S, C)
  <2> DEFINE p == SubSeq(h.ids, 1, k)
             S == Range(p)
  <2>1. h \in Messages /\ IsTask(h)
    BY <1>1, <1>11 DEF IsTask
  <2>2. S \in SUBSET Load(h)
    <3> HIDE DEF h
    <3> QED BY <2>1, FirstTasks
  <2>3. mem' = [mem EXCEPT ![w] = @ \cup {<<wdef[w], t>> : t \in S}]
    BY <1>11 DEF Process
  <2> HIDE DEF S
  <2>4. Moves(w, S, {})
    BY <1>10, <1>11, <2>2, <2>3 DEF S
  <2> QED BY <2>4
<1>12. ASSUME NEW c \in {"TASK", "TASKB"}, Receives(w, c)
       PROVE  /\ h \in Messages /\ IsTask(h) /\ h.ids \in Seq(TaskId) /\ Len(h.ids) \in 0..Len(h.ids)
              /\ SubSeq(h.ids, 1, Len(h.ids)) = h.ids /\ (Solid(q) => h.ids # << >>)
  <2>1. h \in Messages /\ IsTask(h) /\ q # << >> /\ h.ids \in Seq(TaskId)
    BY <1>1, <1>12, MessageFields DEF IsTask
  <2>2. 1 \in 1..Len(q) /\ h = q[1]
    BY <1>0, <2>1
  <2>3. Solid(q) => h.ids # << >>
    BY <2>1, <2>2 DEF Solid, IsTask
  <2>4. ASSUME NEW s \in Seq(TaskId) PROVE Len(s) \in 0..Len(s) /\ SubSeq(s, 1, Len(s)) = s
    OBVIOUS
  <2> QED BY <2>1, <2>3, <2>4
<1>13. CASE ReceiveTask(w) \/ ReceiveBatch(w)
  <2>1. PICK c \in {"TASK", "TASKB"}, a \in {"ACK", "ACKB"} :
          Receives(w, c) /\ Process(w, h.ids) /\ Reply(w, <<Msg(a, h.ids)>>) /\ wdef' = wdef
    BY <1>13 DEF ReceiveTask, ReceiveBatch
  <2> DEFINE ids == h.ids
             m == Msg(a, ids)
             k == Len(ids)
  <2>2. /\ h \in Messages /\ IsTask(h) /\ ids \in Seq(TaskId) /\ k \in 0..Len(ids)
        /\ SubSeq(ids, 1, k) = ids /\ (Solid(q) => ids # << >>)
    BY <1>12, <2>1
  <2>3. m \in Messages /\ m.cmd \in {"ACK", "ACKB"} /\ m.ids = ids
    BY <2>2, MessageTypes DEF Msg
  <2>4. Load(m) = Range(ids) /\ Load(h) = Range(ids) /\ Lead(m) = Lead(h)
    BY <2>2, <2>3 DEF Load, Lead, IsTask
  <2>5. toSup' = [toSup EXCEPT ![w] = @ \o <<m>>]
    BY <2>1 DEF Reply
  <2>6. \A v \in Worker : v # w => toSup'[v] = toSup[v]
    BY <1>0, <2>5
  <2>7. Reply(w, <<m>>) /\ Receives(w, c) /\ wdef' = wdef /\ Process(w, SubSeq(ids, 1, k))
    BY <2>1, <2>2
  <2>8. Solid(q) => \E x \in Messages : /\ Load(x) \subseteq Range(SubSeq(ids, 1, k)) /\ Lead(x) \subseteq Lead(h)
                                        /\ (x.cmd \in {"TASK", "TASKB", "ACKB"} => x.ids # << >>) /\ x.cmd \notin {"READY", "DONE"}
                                        /\ Reply(w, <<x>>)
    BY <2>2, <2>3, <2>4, <2>7
  <2> HIDE DEF m, k, h
  <2> QED BY <1>11, <2>2, <2>6, <2>7, <2>8
<1>14. CASE TaskThrows(w)
  <2>1. PICK c \in {"TASK", "TASKB"} : Receives(w, c)
    BY <1>14 DEF TaskThrows
  <2> DEFINE ids == h.ids
  <2>2. ids \in Seq(TaskId)
    BY <1>12, <2>1
  <2>3. PICK i \in 1..Len(ids) : Process(w, SubSeq(ids, 1, i - 1)) /\ Reply(w, <<Msg("ERR", <<ids[i]>>)>>)
    BY <1>14 DEF TaskThrows
  <2> DEFINE m == Msg("ERR", <<ids[i]>>)
             k == i - 1
  <2>4. k \in 0..Len(ids) /\ <<ids[i]>> \in Seq(TaskId)
    <3> HIDE DEF ids
    <3> QED BY <2>2
  <2>5. m \in Messages /\ m.cmd = "ERR" /\ Load(m) = {} /\ Lead(m) = {}
    BY <2>4, PlainMessages
  <2>6. toSup' = [toSup EXCEPT ![w] = @ \o <<m>>]
    BY <2>3 DEF Reply
  <2>7. (\A v \in Worker : v # w => toSup'[v] = toSup[v]) /\ wdef' = wdef
    BY <1>0, <1>14, <2>6 DEF TaskThrows
  <2>8. Reply(w, <<m>>) /\ Process(w, SubSeq(ids, 1, k))
    BY <2>3
  <2> HIDE DEF m, k, h
  <2> QED BY <1>11, <2>1, <2>4, <2>5, <2>7, <2>8
<1>15. CASE AckFails(w)
  <2>1. PICK c \in {"TASK", "TASKB"} : Receives(w, c)
    BY <1>15 DEF AckFails
  <2>2. toSup' = toSup /\ wdef' = wdef /\ Process(w, h.ids)
    BY <1>15 DEF AckFails
  <2>3. Len(h.ids) \in 0..Len(h.ids) /\ Process(w, SubSeq(h.ids, 1, Len(h.ids)))
    BY <1>12, <2>1, <2>2
  <2> HIDE DEF h
  <2> QED BY <1>11, <2>1, <2>2, <2>3
<1> DEFINE Part(k) == SubSeq(h.ids, 1, k)
\* The worker stops after the first k tasks.
<1>16. ASSUME Receives(w, "TASKB"), wdef' = wdef, NEW k \in 0..Len(h.ids), Process(w, Part(k)),
              NEW a \in {"stop", "abort", "interrupted"},
              \/ Reply(w, <<Shutdown(a)>>)
              \/ k # 0 /\ Reply(w, <<Shutdown(a), Msg("ACKB", Part(k))>>)
       PROVE  \E S, C : Moves(w, S, C)
  <2>1. h \in Messages /\ IsTask(h)
    BY <1>12, <1>16
  <2>2. \A v \in Worker : v # w => toSup'[v] = toSup[v]
    BY <1>0, <1>16 DEF Reply
  <2>3. \E m \in Messages :
          /\ Load(m) \subseteq Range(Part(k)) /\ Lead(m) \subseteq Lead(h)
          /\ (m.cmd \in {"TASK", "TASKB", "ACKB"} => m.ids # << >>) /\ m.cmd \notin {"READY", "DONE"}
          /\ \/ Reply(w, <<m>>)
             \/ \E b \in {"stop", "abort", "interrupted"} : Reply(w, <<Shutdown(b), m>>)
    <3>1. CASE Reply(w, <<Shutdown(a)>>)
      <4> DEFINE m == Shutdown(a)
      <4>1. m \in Messages /\ m.cmd = "SHUTDOWN" /\ Load(m) = {} /\ Lead(m) = {}
        BY PlainMessages
      <4>2. Reply(w, <<m>>)
        BY <3>1
      <4> HIDE DEF m
      <4> QED BY <4>1, <4>2
    <3>2. CASE k # 0 /\ Reply(w, <<Shutdown(a), Msg("ACKB", Part(k))>>)
      <4> DEFINE m == Msg("ACKB", Part(k))
      <4>0. \E p : p = SubSeq(h.ids, 1, k) /\ m = Msg("ACKB", p) /\ p = Part(k)
        OBVIOUS
      <4> HIDE DEF h, m, Part
      <4>1. /\ Load(m) = Range(Part(k)) /\ m \in Messages /\ m.cmd = "ACKB" /\ Lead(m) \subseteq Lead(h)
            /\ m.ids # << >>
        <5>1. PICK p : p = SubSeq(h.ids, 1, k) /\ m = Msg("ACKB", p) /\ p = Part(k)
          BY <4>0
        <5>2. /\ h \in Messages /\ IsTask(h) /\ k \in 0..Len(h.ids)
              /\ p = SubSeq(h.ids, 1, k) /\ m = Msg("ACKB", p)
          BY ONLY <1>16, <2>1, <5>1
        <5>3. /\ m \in Messages /\ Load(m) = Range(p) /\ Lead(m) \subseteq Lead(h)
              /\ k # 0 => m.ids # << >>
              /\ p \in Seq(TaskId)
          BY ONLY <5>2, FirstTasks
        <5>4. m.cmd = "ACKB"
          BY <5>1, <5>3, MessageTypes
        <5> QED BY <3>2, <5>1, <5>3, <5>4
      <4>2. Reply(w, <<Shutdown(a), m>>)
        BY <3>2 DEF m, Part
      <4> QED BY <4>1, <4>2
    <3> QED BY <1>16, <3>1, <3>2
  <2> HIDE DEF h
  <2> QED BY <1>11, <1>16, <2>2, <2>3
<1>17. \A a \in {"stop", "abort", "interrupted"} : Shutdown(a) \in Messages
  BY PlainMessages
<1>18. CASE StopInsideBatch(w)
  <2> DEFINE ids == h.ids
             rest == Tail(toWorker[w])
             why(p) == IF rest[p].abort THEN "abort" ELSE "stop"
             Acks(k) == Msg("ACKB", Part(k))
             after(k) == IF k = 0 THEN << >> ELSE <<Acks(k)>>
  <2>1. Receives(w, "TASKB") /\ ids \in Seq(TaskId) /\ wdef' = wdef /\ h \in Messages /\ IsTask(h)
    BY <1>12, <1>18 DEF StopInsideBatch
  <2>2. \E p \in 1..Len(rest) : \E k \in (p - 1)..(Len(ids) - 1) :
          Process(w, Part(k)) /\ Reply(w, <<Shutdown(why(p))>> \o after(k))
    BY <1>18 DEF StopInsideBatch
  <2>p. PICK p \in 1..Len(rest) : \E k \in (p - 1)..(Len(ids) - 1) :
          Process(w, Part(k)) /\ Reply(w, <<Shutdown(why(p))>> \o after(k))
    BY <2>2
  <2>k. PICK k \in (p - 1)..(Len(ids) - 1) :
          Process(w, Part(k)) /\ Reply(w, <<Shutdown(why(p))>> \o after(k))
    BY <2>p
  <2>3. k \in 0..Len(ids)
    <3> HIDE DEF ids, rest
    <3> QED BY <2>1, <2>p, <2>k
  <2>4. why(p) \in {"stop", "abort", "interrupted"}
    OBVIOUS
  <2> HIDE DEF why, rest
  <2>5. CASE k = 0
    <3>1. ASSUME NEW x \in Messages PROVE <<x>> \o << >> = <<x>>
      OBVIOUS
    <3>2. Shutdown(why(p)) \in Messages
      BY <1>17, <2>4
    <3>3. Reply(w, <<Shutdown(why(p))>>)
      BY <2>k, <2>5, <3>1, <3>2
    <3> HIDE DEF h, Part
    <3> QED BY <1>16, <2>1, <2>3, <2>4, <2>k, <3>3
  <2>6. CASE k # 0
    <3>1. ASSUME NEW x \in Messages, NEW y \in Messages PROVE <<x>> \o <<y>> = <<x, y>>
      <4> DEFINE a == <<x>> \o <<y>>
                 b == <<x, y>>
      <4>1. a \in Seq(Messages) /\ Len(a) = 2 /\ a[1] = x /\ a[2] = y
        OBVIOUS
      <4>2. b \in Seq(Messages) /\ Len(b) = 2 /\ b[1] = x /\ b[2] = y
        OBVIOUS
      <4> HIDE DEF a, b
      <4>3. \A i \in 1..2 : a[i] = b[i]
        BY <4>1, <4>2
      <4>4. a = b
        BY ONLY <4>1, <4>2, <4>3, SameSeq
      <4> QED BY <4>4 DEF a, b
    <3>2. Shutdown(why(p)) \in Messages /\ Acks(k) \in Messages
      <4>1. Part(k) \in Seq(TaskId)
        <5> HIDE DEF h
        <5> QED BY <2>1, <2>3, FirstTasks
      <4> QED BY <1>17, <2>4, <4>1, MessageTypes
    <3>3. Reply(w, <<Shutdown(why(p)), Acks(k)>>)
      BY <2>k, <2>6, <3>1, <3>2
    <3> HIDE DEF h, Part
    <3> QED BY <1>16, <2>1, <2>3, <2>4, <2>6, <2>k, <3>3
  <2> QED BY <2>5, <2>6
<1>19. CASE Interrupt(w)
  <2>1. CASE toWorker' = toWorker /\ mem' = mem /\ Reply(w, <<Shutdown("interrupted")>>)
    <3> DEFINE m == Shutdown("interrupted")
    <3>1. m \in Messages /\ m.cmd = "SHUTDOWN" /\ Load(m) = {} /\ Lead(m) = {}
      BY PlainMessages
    <3>2. Reply(w, <<m>>) /\ wdef' = wdef
      BY <1>19, <2>1 DEF Interrupt
    <3> HIDE DEF m
    <3>3. Sent(toSup'[w], toSup[w], {}, {}, {}) /\ \A v \in Worker : v # w => toSup'[v] = toSup[v]
      BY <3>1, <3>2, ReplySends
    <3>4. Moves(w, {}, {})
      BY <2>1, <3>2, <3>3 DEF Moves
    <3> QED BY <3>4
  <2>2. CASE /\ Receives(w, "TASKB")
             /\ \E k \in 1..(Len(h.ids) - 1) :
                  Process(w, Part(k)) /\ Reply(w, <<Shutdown("interrupted"), Msg("ACKB", Part(k))>>)
    <3>1. PICK k \in 1..(Len(h.ids) - 1) :
                 Process(w, Part(k)) /\ Reply(w, <<Shutdown("interrupted"), Msg("ACKB", Part(k))>>)
      BY <2>2
    <3> DEFINE ids == h.ids
    <3>2. ids \in Seq(TaskId) /\ wdef' = wdef
      BY <1>12, <1>19, <2>2 DEF Interrupt
    <3>3. k \in 0..Len(ids) /\ k # 0
      <4>1. k \in 1..(Len(ids) - 1)
        BY <3>1
      <4> HIDE DEF ids
      <4> QED BY <3>2, <4>1
    <3> HIDE DEF h, Part
    <3> QED BY <1>16, <2>2, <3>1, <3>2, <3>3
  <2> QED BY <1>19, <2>1, <2>2 DEF Interrupt
<1> QED BY <1>4, <1>5, <1>6, <1>7, <1>8, <1>9, <1>13, <1>14, <1>15, <1>18, <1>19 DEF WorkerStep, WorkerFault

-----------------------------------------------------------------------------
(* What the supervisor does *)

\* w has not been told of any definition yet.
Waiting(s, w) == w \in Range(s.pendingReady) \/ w \in s.pendingInit \/ w = s.initing

Young(w) == wpc[w] = "off" \/ Carries(toSup[w], "READY") \/ Waiting(sup, w)

\* At most the first message of each worker is taken, and the workers' data is left alone.
Steady ==
  /\ wdef' = wdef /\ mem' = mem
  /\ \A v \in Worker : /\ toSup'[v] = toSup[v] \/ (toSup[v] # << >> /\ toSup'[v] = Tail(toSup[v]))
                       /\ Young(v)' => Young(v)

\* v is told at most to join or to stop.
Told(v) ==
  toWorker'[v] = toWorker[v]
  \/ \E m \in {Msg("INIT", << >>), Stop(TRUE), Stop(FALSE)} : toWorker'[v] = Append(toWorker[v], m)

\* Between the definitions, and before the first one.
Resting == {"start", "initWait", "define"}

SameTasks(n, s) ==
  n.mgr = s.mgr /\ n.history = s.history /\ n.def = s.def /\ n.next = s.next /\ SameMessages(n, s)

SameTeam(n, s) == n.vec = s.vec /\ n.registered = s.registered /\ n.failed = s.failed

\* No task and no worker is concerned.
Aside ==
  /\ SameTasks(sup', sup) /\ SameTeam(sup', sup) /\ \A v \in Worker : Told(v)
  /\ pc' \in Looping => pc \in Looping
  /\ pc' \in Resting => pc \in Resting \/ M!Running(sup.mgr) = {}

\* w is told the definition, unless that may fail.
CaughtUp(w) ==
  \/ toWorker'[w] = Append(toWorker[w], SetDef(sup.def))
  \/ ~CatchUpsSucceed /\ toWorker'[w] = toWorker[w]

\* w becomes one of the team, and is caught up if there is a definition.
Joined(w) ==
  /\ Young(w) /\ SameTasks(sup', sup)
  /\ sup'.registered = sup.registered \cup {w} /\ Range(sup'.vec) = Range(sup.vec) \cup {w}
  /\ sup'.failed = sup.failed
  /\ \A v \in Worker : v # w => toWorker'[v] = toWorker[v]
  /\ \/ pc \in Looping /\ pc' \in Looping /\ sup.def \in Defs /\ CaughtUp(w)
     \/ pc' \notin Looping /\ pc \in Resting /\ toWorker'[w] = toWorker[w]

\* w is given up.
Failed(w) ==
  /\ Forgets(sup', sup, w) /\ sup'.def = sup.def
  /\ sup'.registered = sup.registered \ {w} /\ Range(sup'.vec) \subseteq Range(sup.vec) \ {w}
  /\ sup'.failed = sup.failed \ {w}
  /\ toWorker' = toWorker /\ pc \in Looping /\ pc' \notin Resting

\* A registered worker's tasks are done.
Acked(w) ==
  /\ w \in sup.registered /\ SameTeam(sup', sup) /\ sup'.def = sup.def
  /\ toSup[w] # << >> /\ toSup'[w] = Tail(toSup[w])
  /\ \E own \in SUBSET Load(Head(toSup[w])), k \in {0, 1} :
       /\ \A t \in own : sup.mgr.fTaskToWorker[t] = w
       /\ Settled(sup', sup, own) /\ Delivered(sup', sup, w, k) /\ k <= sup.outstandingMessages
       /\ k = 0 => own = {}
       /\ k = 1 => own # {} \/ Head(toSup[w]).cmd = "ACKB"
  /\ toWorker' = toWorker /\ pc \in Looping /\ pc' \in Looping

\* The tasks of C, which were waiting or new, are w's.
Charged(n, s, w, C) ==
  /\ n.history = [s.history EXCEPT ![w] = @ \cup C] /\ n.def = s.def
  /\ n.mgr.fDone = s.mgr.fDone
  /\ \A t \in C : t \in TaskId /\ t < TasksOf[s.def] /\ t \notin M!Running(s.mgr) /\ t \notin s.mgr.fDone
  /\ (\A t \in TaskId : t < s.next => M!TaskExists(s.mgr, t)) =>
       \A t \in TaskId : t < n.next => M!TaskExists(n.mgr, t)

\* A message of tasks goes to w.
Dispatched(w) ==
  /\ w \in Range(sup.vec) \ sup.failed /\ SameTeam(sup', sup)
  /\ \E m \in {Msg(c, BatchTasks(sup)) : c \in {"TASK", "TASKB"}} :
       /\ toWorker' = [toWorker EXCEPT ![w] = Append(@, m)] /\ m \in Messages /\ m.ids # << >>
       /\ Charged(sup', sup, w, Load(m))
       /\ \A t \in TaskId : sup'.mgr.fTaskToWorker[t] = IF t \in Load(m) THEN w ELSE sup.mgr.fTaskToWorker[t]
  /\ sup'.inFlight = [sup.inFlight EXCEPT ![w] = @ + 1]
  /\ sup'.outstandingMessages = sup.outstandingMessages + 1
  /\ toSup' = toSup /\ pc \in Looping /\ pc' \in Looping

\* A message of tasks cannot be sent to w.
Retained(w) ==
  /\ w \in sup.registered
  /\ sup'.vec = sup.vec /\ sup'.registered = sup.registered /\ sup.failed \subseteq sup'.failed
  /\ \E C \in {Range(BatchTasks(sup))} :
       /\ Charged(sup', sup, w, C)
       /\ \A t \in TaskId \ C : sup'.mgr.fTaskToWorker[t] = sup.mgr.fTaskToWorker[t]
  /\ SameMessages(sup', sup)
  /\ toWorker' = toWorker /\ toSup' = toSup /\ pc \in Looping /\ pc' \notin Resting

\* A definition begins; every worker that is not marked as failed is told.
Defined ==
  /\ pc \in Resting /\ pc' \notin Resting /\ sup'.def = sup.def + 1 /\ sup'.def \in Defs
  /\ sup'.vec = sup.vec /\ sup'.registered = sup.registered /\ sup.failed \subseteq sup'.failed
  /\ sup'.mgr.fDone = {} /\ M!Running(sup'.mgr) = {} /\ sup'.next = 0
  /\ sup'.history = [v \in Worker |-> {}]
  /\ sup'.inFlight = [v \in Worker |-> 0] /\ sup'.outstandingMessages = 0
  /\ \A v \in Worker : toWorker'[v] \in {toWorker[v], Append(toWorker[v], SetDef(sup'.def))}
  /\ pc' \in Looping => \A v \in Range(sup.vec) \ sup'.failed :
                          toWorker'[v] = Append(toWorker[v], SetDef(sup'.def))
  /\ toSup' = toSup

Effect ==
  Aside \/ Defined
  \/ \E w \in Worker : Joined(w) \/ Failed(w) \/ Acked(w) \/ Dispatched(w) \/ Retained(w)

LEMMA ReadySeen ==
  ASSUME Typed, NEW w \in Worker, Takes(w), Head(toSup[w]).cmd = "READY"
  PROVE  Carries(toSup[w], "READY")
<1>1. toSup[w] \in Seq(Messages) /\ toSup[w] # << >>
  BY DEF Typed, Takes
<1> QED BY <1>1, TailMessages

LEMMA SteadyStep ==
  ASSUME Typed, toSup' = toSup \/ \E w \in Worker : Takes(w), wdef' = wdef, mem' = mem,
         \A v \in Worker : wpc'[v] = "off" => wpc[v] = "off",
         \A v \in Worker : Waiting(sup', v) => Waiting(sup, v) \/ Carries(toSup[v], "READY")
  PROVE  Steady
<1>1. \A v \in Worker : toSup'[v] = toSup[v] \/ (toSup[v] # << >> /\ toSup'[v] = Tail(toSup[v]))
  <2>1. CASE toSup' = toSup
    BY <2>1
  <2>2. CASE \E w \in Worker : Takes(w)
    BY <2>2, TakesTypes
  <2> QED BY <2>1, <2>2
<1>2. ASSUME NEW v \in Worker, Young(v)' PROVE Young(v)
  <2>1. Carries(toSup'[v], "READY") => Carries(toSup[v], "READY")
    <3>1. toSup[v] \in Seq(Messages)
      BY DEF Typed
    <3>2. CASE toSup'[v] = toSup[v]
      BY <3>2
    <3>3. CASE toSup[v] # << >> /\ toSup'[v] = Tail(toSup[v])
      BY <3>1, <3>3, TailMessages
    <3> QED BY <1>1, <3>2, <3>3
  <2>2. wpc'[v] = "off" \/ Carries(toSup'[v], "READY") \/ Waiting(sup', v)
    BY <1>2 DEF Young, Waiting, Carries
  <2> QED BY <2>1, <2>2 DEF Young
<1> QED BY <1>1, <1>2 DEF Steady

LEMMA AsideStep ==
  ASSUME Typed, toSup' = toSup \/ \E w \in Worker : Takes(w), wdef' = wdef, mem' = mem,
         \A v \in Worker : wpc'[v] = "off" => wpc[v] = "off",
         \A v \in Worker : Waiting(sup', v) => Waiting(sup, v) \/ Carries(toSup[v], "READY"),
         SameTasks(sup', sup), SameTeam(sup', sup), \A v \in Worker : Told(v),
         pc' \in Looping => pc \in Looping,
         pc' \in Resting => pc \in Resting \/ M!Running(sup.mgr) = {}
  PROVE  Steady /\ Effect
<1>1. Steady
  BY SteadyStep
<1>2. Aside
  BY DEF Aside
<1> QED BY <1>1, <1>2 DEF Effect

\* A step that leaves the supervisor's data alone.
LEMMA StillStep ==
  ASSUME Typed, toSup' = toSup \/ \E w \in Worker : Takes(w), wdef' = wdef, mem' = mem, sup' = sup,
         toWorker' = toWorker, \A v \in Worker : wpc'[v] = "off" => wpc[v] = "off",
         pc' \in Looping => pc \in Looping,
         pc' \in Resting => pc \in Resting \/ M!Running(sup.mgr) = {}
  PROVE  Steady /\ Effect
<1>1. SameTasks(sup', sup) /\ SameTeam(sup', sup) /\ \A v \in Worker : Told(v)
  BY DEF SameTasks, SameTeam, SameMessages, Told
<1>2. \A v \in Worker : Waiting(sup', v) => Waiting(sup, v)
  OBVIOUS
<1> QED BY <1>1, <1>2, AsideStep

\* w is put on the list of workers.
LEMMA JoinStep ==
  ASSUME Inv, NEW w \in Worker, Takes(w), w \notin Range(sup.vec), wdef' = wdef, mem' = mem, wpc' = wpc, Young(w),
         SameTasks(sup', sup), sup'.failed = sup.failed,
         sup'.vec = Append(sup.vec, w), sup'.registered = sup.registered \cup {w},
         \A v \in Worker : Waiting(sup', v) => Waiting(sup, v),
         \A v \in Worker : v # w => toWorker'[v] = toWorker[v],
         \/ pc \in Looping /\ pc' \in Looping /\ CaughtUp(w)
         \/ pc' \notin Looping /\ pc \in Resting /\ toWorker'[w] = toWorker[w]
  PROVE  Steady /\ Effect
<1>1. Typed /\ sup.vec \in Seq(Worker) /\ OneToOne(sup.vec)
  BY SupTypes DEF Inv, Typed, Joins, Stages
<1>2. Steady
  BY <1>1, SteadyStep
<1>3. Range(sup'.vec) = Range(sup.vec) \cup {w}
  BY <1>1, AppendWorker
<1>4. Joined(w)
  BY <1>3, AtDefinition DEF Joined
<1> QED BY <1>2, <1>4 DEF Effect

-----------------------------------------------------------------------------
(* Startup *)

LEMMA StartReadyEffect ==
  ASSUME Inv, NEW w \in Worker, StartReady(w)
  PROVE  Steady /\ Effect
<1>1. /\ Typed /\ sup \in Sups /\ Takes(w) /\ wpc' = wpc /\ wdef' = wdef /\ mem' = mem /\ toWorker' = toWorker
      /\ pc = "start" /\ pc' = pc
  BY DEF StartReady, Inv, Typed, workers
<1>2. CASE Head(toSup[w]).cmd # "READY"
  <2>1. sup' = sup
    BY <1>2 DEF StartReady
  <2> QED BY <1>1, <2>1, StillStep DEF Resting
<1>3. CASE Head(toSup[w]).cmd = "READY"
  <2> DEFINE R == sup.registered \cup {w}
             V == Append(sup.vec, w)
  <2>1. sup' = [sup EXCEPT !.registered = R, !.vec = V]
    BY <1>3 DEF StartReady, Join
  <2> HIDE DEF R, V
  <2>2. /\ sup'.vec = V /\ sup'.registered = R /\ sup'.pendingReady = sup.pendingReady
        /\ sup'.pendingInit = sup.pendingInit /\ sup'.initing = sup.initing /\ sup'.failed = sup.failed
        /\ SameTasks(sup', sup)
    BY <1>1, <2>1 DEF Sups, SameTasks, SameMessages
  <2>3. Young(w) /\ w \notin Range(sup.vec)
    BY <1>1, <1>3, ReadySeen, ReadyIsNew DEF Young, Known
  <2>4. \A v \in Worker : Waiting(sup', v) => Waiting(sup, v)
    BY <2>2 DEF Waiting
  <2>5. sup'.vec = Append(sup.vec, w) /\ sup'.registered = sup.registered \cup {w}
    BY <2>2 DEF R, V
  <2>6. pc' \notin Looping /\ pc \in Resting /\ toWorker'[w] = toWorker[w] /\ \A v \in Worker : toWorker'[v] = toWorker[v]
    BY <1>1 DEF Looping, Resting
  <2> QED BY <1>1, <2>2, <2>3, <2>4, <2>5, <2>6, JoinStep
<1> QED BY <1>2, <1>3

LEMMA StartTcpEffect ==
  ASSUME Inv, NEW w \in Worker, StartTcp(w)
  PROVE  Steady /\ Effect
<1>0. /\ Typed /\ sup \in Sups /\ wpc' = wpc /\ wdef' = wdef /\ mem' = mem
      /\ pc = "start" /\ pc' \in {"start", "initWait"} /\ (Send(w, Msg("INIT", << >>)) \/ toWorker' = toWorker)
      /\ sup.pendingReady \in Seq(Worker) /\ OneToOne(sup.pendingReady)
  BY SupTypes DEF StartTcp, InitTcpWorker, Step, Inv, Typed, workers, Joins, Stages
<1>1. \A v \in Worker : Told(v)
  <2>1. toWorker \in [Worker -> Seq(Messages)]
    BY <1>0 DEF Typed
  <2> QED BY <1>0, <2>1 DEF Send, Told
<1>2. /\ toSup' = toSup \/ Takes(w)
      /\ SameTasks(sup', sup) /\ SameTeam(sup', sup)
      /\ \A v \in Worker : Waiting(sup', v) => Waiting(sup, v) \/ Carries(toSup[v], "READY")
  <2>1. CASE sup.pendingReady # << >>
    <3> DEFINE Q == Tail(sup.pendingReady)
    <3>1. /\ w = Head(sup.pendingReady) /\ toSup' = toSup
          /\ sup' = [sup EXCEPT !.pendingReady = Q, !.initing = w] \/ sup' = [sup EXCEPT !.pendingReady = Q]
      BY <1>0, <2>1 DEF StartTcp, InitTcpWorker, Sups
    <3>2. Range(Q) \subseteq Range(sup.pendingReady) /\ w \in Range(sup.pendingReady)
      BY <1>0, <2>1, <3>1, TailWorkers
    <3> HIDE DEF Q
    <3>3. /\ SameTasks(sup', sup) /\ SameTeam(sup', sup)
          /\ sup'.pendingReady = Q /\ sup'.initing \in {w, sup.initing} /\ sup'.pendingInit = sup.pendingInit
      <4>1. CASE sup' = [sup EXCEPT !.pendingReady = Q, !.initing = w]
        BY <1>0, <4>1 DEF Sups, SameTasks, SameMessages, SameTeam
      <4>2. CASE sup' = [sup EXCEPT !.pendingReady = Q]
        BY <1>0, <4>2 DEF Sups, SameTasks, SameMessages, SameTeam
      <4> QED BY <3>1, <4>1, <4>2
    <3> QED BY <3>1, <3>2, <3>3 DEF Waiting
  <2>2. CASE sup.pendingReady = << >>
    <3>1. Takes(w) /\ Head(toSup[w]).cmd = "READY" /\ (sup' = [sup EXCEPT !.initing = w] \/ sup' = sup)
      BY <2>2 DEF StartTcp, InitTcpWorker
    <3>2. Carries(toSup[w], "READY")
      BY <1>0, <3>1, ReadySeen
    <3>3. /\ SameTasks(sup', sup) /\ SameTeam(sup', sup)
          /\ sup'.pendingReady = sup.pendingReady /\ sup'.initing \in {w, sup.initing} /\ sup'.pendingInit = sup.pendingInit
      <4>1. CASE sup' = [sup EXCEPT !.initing = w]
        BY <1>0, <4>1 DEF Sups, SameTasks, SameMessages, SameTeam
      <4>2. CASE sup' = sup
        BY <4>2 DEF SameTasks, SameMessages, SameTeam
      <4> QED BY <3>1, <4>1, <4>2
    <3> QED BY <3>1, <3>2, <3>3 DEF Waiting
  <2> QED BY <2>1, <2>2
<1>3. pc' \notin Looping /\ pc \in Resting
  BY <1>0 DEF Looping, Resting
<1> QED BY <1>0, <1>1, <1>2, <1>3, AsideStep

LEMMA InitReceiveEffect ==
  ASSUME Inv, NEW w \in Worker, InitReceive(w)
  PROVE  Steady /\ Effect
<1>1. /\ Typed /\ sup \in Sups /\ Stages(sup) /\ wpc' = wpc /\ wdef' = wdef /\ mem' = mem /\ toWorker' = toWorker
      /\ pc = "initWait" /\ pc' \in {"start", "initWait"} /\ Takes(w)
  BY DEF InitReceive, Inv, Typed, Joins, workers
<1>2. pc' \notin Looping /\ pc \in Resting /\ \A v \in Worker : toWorker'[v] = toWorker[v]
  BY <1>1 DEF Looping, Resting
<1>3. CASE w = sup.initing /\ sup' = [Join(sup, w) EXCEPT !.seen = @ \cup {w}, !.initing = NoWorker]
  <2> DEFINE R == sup.registered \cup {w}
             V == Append(sup.vec, w)
             E == sup.seen \cup {w}
  <2>1. sup' = [[sup EXCEPT !.registered = R, !.vec = V] EXCEPT !.seen = E, !.initing = NoWorker]
    BY <1>1, <1>3 DEF Join, Sups
  <2> HIDE DEF R, V, E
  <2>2. /\ sup'.vec = V /\ sup'.registered = R /\ sup'.pendingReady = sup.pendingReady
        /\ sup'.pendingInit = sup.pendingInit /\ sup'.initing = NoWorker /\ sup'.failed = sup.failed
        /\ SameTasks(sup', sup)
    BY <1>1, <2>1 DEF Sups, SameTasks, SameMessages
  <2>3. Young(w) /\ w \notin Range(sup.vec)
    BY <1>1, <1>3 DEF Young, Waiting, Stages
  <2>4. \A v \in Worker : Waiting(sup', v) => Waiting(sup, v)
    BY <2>2, Tasks DEF Waiting
  <2>5. sup'.vec = Append(sup.vec, w) /\ sup'.registered = sup.registered \cup {w}
    BY <2>2 DEF R, V
  <2> QED BY <1>1, <1>2, <2>2, <2>3, <2>4, <2>5, JoinStep
<1>4. CASE Head(toSup[w]).cmd = "READY" /\ sup' = [sup EXCEPT !.pendingReady = Append(@, w)]
  <2> DEFINE Q == Append(sup.pendingReady, w)
  <2>1. w \notin Range(sup.pendingReady)
    BY <1>1, <1>4, ReadyIsNew DEF Known
  <2>2. Range(Q) = Range(sup.pendingReady) \cup {w}
    BY <1>1, <2>1, SupTypes, AppendWorker DEF Stages
  <2>3. sup' = [sup EXCEPT !.pendingReady = Q]
    BY <1>4
  <2> HIDE DEF Q
  <2>4. /\ SameTasks(sup', sup) /\ SameTeam(sup', sup) /\ sup'.pendingReady = Q
        /\ sup'.pendingInit = sup.pendingInit /\ sup'.initing = sup.initing
    BY <1>1, <2>3 DEF Sups, SameTasks, SameMessages, SameTeam
  <2>5. Carries(toSup[w], "READY")
    BY <1>1, <1>4, ReadySeen
  <2>6. \A v \in Worker : Waiting(sup', v) => Waiting(sup, v) \/ Carries(toSup[v], "READY")
    BY <2>2, <2>4, <2>5 DEF Waiting
  <2>7. \A v \in Worker : Told(v)
    BY <1>2 DEF Told
  <2> QED BY <1>1, <1>2, <2>4, <2>6, <2>7, AsideStep
<1>5. CASE sup' = sup
  BY <1>1, <1>2, <1>5, StillStep
<1> QED BY <1>3, <1>4, <1>5 DEF InitReceive

LEMMA StartEffect ==
  ASSUME Inv, StartStep \/ InitTimeout \/ StartTimeout
  PROVE  Steady /\ Effect
<1>0. Typed /\ sup \in Sups /\ wpc \in [Worker -> WorkerStates]
  BY DEF Inv, Typed
<1>1. CASE \E w \in Worker : StartDrops(w)
  <2>1. PICK w \in Worker : StartDrops(w)
    BY <1>1
  <2>2. /\ Takes(w) /\ sup' = sup /\ pc = "start" /\ pc' = pc /\ toWorker' = toWorker /\ wpc' = wpc
        /\ wdef' = wdef /\ mem' = mem
    BY <2>1 DEF StartDrops, workers
  <2> QED BY <1>0, <2>2, StillStep DEF Resting
<1>2. CASE StartDone
  <2>1. /\ sup' = sup /\ pc = "start" /\ pc' = "define" /\ toWorker' = toWorker /\ toSup' = toSup /\ wpc' = wpc
        /\ wdef' = wdef /\ mem' = mem
    BY <1>2 DEF StartDone, workers, channels
  <2> QED BY <1>0, <2>1, StillStep DEF Looping, Resting
<1>3. CASE InitTimeout
  <2>1. /\ sup' = [sup EXCEPT !.initing = NoWorker] /\ pc = "initWait" /\ pc' = "start"
        /\ toWorker' = toWorker /\ toSup' = toSup /\ wpc' = wpc /\ wdef' = wdef /\ mem' = mem
    BY <1>3 DEF InitTimeout, Step, workers, channels
  <2>2. /\ SameTasks(sup', sup) /\ SameTeam(sup', sup) /\ sup'.pendingReady = sup.pendingReady
        /\ sup'.pendingInit = sup.pendingInit /\ sup'.initing = NoWorker
    BY <1>0, <2>1 DEF Sups, SameTasks, SameMessages, SameTeam
  <2>3. \A v \in Worker : Waiting(sup', v) => Waiting(sup, v)
    BY <2>2, Tasks DEF Waiting
  <2>4. \A v \in Worker : Told(v)
    BY <2>1 DEF Told
  <2> QED BY <1>0, <2>1, <2>2, <2>3, <2>4, AsideStep DEF Looping, Resting
<1>4. CASE StartTimeout
  <2>1. /\ sup' = sup /\ toSup' = toSup /\ toWorker' = toWorker /\ pc = "start" /\ pc' = "failed"
        /\ \A v \in Worker : wpc'[v] = "off" => wpc[v] = "off"
        /\ wdef' = wdef /\ mem' = mem
    BY <1>0, <1>4 DEF StartTimeout, channels
  <2> QED BY <1>0, <2>1, StillStep DEF Looping, Resting
<1> QED BY <1>1, <1>2, <1>3, <1>4, StartReadyEffect, StartTcpEffect, InitReceiveEffect DEF StartStep

-----------------------------------------------------------------------------
(* The loop *)

\* A worker is given up; nothing else that matters changes.
LEMMA FailureEffect ==
  ASSUME Inv, NEW w \in Worker, NEW n, n = HandleWorkerFailure(sup, w),
         sup'.mgr = n.mgr, sup'.history = n.history, sup'.next = n.next, sup'.def = n.def, SameMessages(sup', n),
         SameTeam(sup', n), sup'.pendingReady = n.pendingReady, sup'.pendingInit = n.pendingInit,
         sup'.initing = n.initing,
         toWorker' = toWorker, wpc' = wpc, wdef' = wdef, mem' = mem,
         toSup' = toSup \/ (\E v \in Worker : Takes(v)), pc \in Looping, pc' \notin Resting
  PROVE  Steady /\ Effect
<1> DEFINE c == pc = "cleanup"
<1>1. sup \in Sups /\ Books(sup, c) /\ OneToOne(sup.vec) /\ Typed /\ sup.vec \in Seq(Worker)
  BY SupTypes DEF Inv, Typed, Joins, Stages
<1> HIDE DEF c
<1>2. /\ SameRest(n, sup) /\ Forgets(n, sup, w)
      /\ n.vec = Erase(sup.vec, w) /\ n.registered = sup.registered \ {w} /\ n.failed = sup.failed \ {w}
  BY <1>1, FailureBooks
<1>3. Range(n.vec) = Range(sup.vec) \ {w}
  BY <1>1, <1>2, EraseRemoves
<1>4. Steady
  <2>1. \A v \in Worker : Waiting(sup', v) => Waiting(sup, v)
    BY <1>2 DEF Waiting, SameRest
  <2> QED BY <1>1, <2>1, SteadyStep
<1>5. Failed(w)
  <2>1. Forgets(sup', sup, w)
    BY <1>2 DEF Forgets, SameMessages
  <2> QED BY <1>2, <1>3, <2>1 DEF Failed, SameTeam, SameRest
<1> QED BY <1>4, <1>5 DEF Effect

LEMMA StartDefinitionEffect ==
  ASSUME Inv, StartDefinition
  PROVE  Steady /\ Effect
<1> DEFINE d == sup.def + 1
           n == Begin(sup, d)
<1>0. /\ Typed /\ sup \in Sups /\ wpc' = wpc /\ wdef' = wdef /\ mem' = mem /\ toSup' = toSup /\ pc = "define"
      /\ toWorker \in [Worker -> Seq(Messages)] /\ sup.vec \in Seq(Worker)
  BY SupTypes DEF Inv, Typed, StartDefinition, workers
<1>1. d \in Defs
  <2>1. sup.def \in 0..Len(TasksOf) /\ sup.def < Len(TasksOf) /\ Len(TasksOf) \in Nat
    BY <1>0, SupTypes, ExecutorConstants DEF StartDefinition
  <2> QED BY <2>1 DEF Defs
<1>2. \/ SendAll(Range(sup.vec), SetDef(d)) /\ sup' = n /\ pc' = "top"
      \/ \E w \in Range(sup.vec) :
           /\ SendAll(Range(sup.vec) \ {w}, SetDef(d))
           /\ \/ sup' = [n EXCEPT !.failed = @ \cup {w}] /\ pc' = "top"
              \/ pc' = "throw" /\ sup' = n
  BY DEF StartDefinition, Throw
<1>3. /\ n \in Sups /\ n.def = d
      /\ n.vec = sup.vec /\ n.registered = sup.registered /\ n.failed = sup.failed
      /\ n.pendingReady = sup.pendingReady /\ n.initing = sup.initing /\ n.pendingInit = {}
      /\ n.next = 0 /\ n.mgr.fDone = {} /\ M!Running(n.mgr) = {}
      /\ n.history = [v \in Worker |-> {}]
      /\ n.inFlight = [v \in Worker |-> 0] /\ n.outstandingMessages = 0
  <2>1. Begun(n, sup, d)
    BY <1>0, <1>1, BeginBooks
  <2> HIDE DEF n
  <2> QED BY <2>1 DEF Begun
<1> HIDE DEF n
<1> DEFINE Like(k) == /\ k.def = d /\ k.vec = sup.vec /\ k.registered = sup.registered /\ sup.failed \subseteq k.failed
                      /\ k.pendingReady = sup.pendingReady /\ k.initing = sup.initing /\ k.pendingInit = {}
                      /\ k.next = 0 /\ k.mgr.fDone = {} /\ M!Running(k.mgr) = {}
                      /\ k.history = [v \in Worker |-> {}]
                      /\ k.inFlight = [v \in Worker |-> 0] /\ k.outstandingMessages = 0
<1>4. /\ Like(sup')
      /\ \A v \in Worker : toWorker'[v] \in {toWorker[v], Append(toWorker[v], SetDef(d))}
      /\ pc' \in Looping => \A v \in Range(sup.vec) \ sup'.failed : toWorker'[v] = Append(toWorker[v], SetDef(d))
      /\ pc' \in {"top", "throw"}
  <2>0. \A v \in Range(sup.vec) : v \in Worker
    BY <1>0 DEF Range
  <2>1. CASE SendAll(Range(sup.vec), SetDef(d)) /\ sup' = n /\ pc' = "top"
    BY <1>3, <2>0, <2>1 DEF SendAll
  <2>2. CASE \E w \in Range(sup.vec) :
               /\ SendAll(Range(sup.vec) \ {w}, SetDef(d))
               /\ \/ sup' = [n EXCEPT !.failed = @ \cup {w}] /\ pc' = "top"
                  \/ pc' = "throw" /\ sup' = n
    <3>1. PICK w \in Range(sup.vec) :
               /\ SendAll(Range(sup.vec) \ {w}, SetDef(d))
               /\ \/ sup' = [n EXCEPT !.failed = @ \cup {w}] /\ pc' = "top"
                  \/ pc' = "throw" /\ sup' = n
      BY <2>2
    <3>2. \A v \in Worker : toWorker'[v] = IF v \in Range(sup.vec) \ {w} THEN Append(toWorker[v], SetDef(d)) ELSE toWorker[v]
      BY <3>1 DEF SendAll
    <3>3. CASE sup' = [n EXCEPT !.failed = @ \cup {w}] /\ pc' = "top"
      <4> DEFINE F == n.failed \cup {w}
      <4>1. sup' = [n EXCEPT !.failed = F] /\ w \in F /\ n.failed \subseteq F
        BY <3>3
      <4> HIDE DEF F
      <4>2. sup'.failed = F /\ Like(sup')
        BY <1>3, <4>1 DEF Sups
      <4> HIDE DEF Like
      <4> QED BY <2>0, <3>2, <3>3, <4>1, <4>2
    <3>4. CASE pc' = "throw" /\ sup' = n
      BY <1>3, <2>0, <3>2, <3>4 DEF Looping
    <3> QED BY <3>1, <3>3, <3>4
  <2> QED BY <1>2, <2>1, <2>2
<1>5. Steady
  <2>1. \A v \in Worker : Waiting(sup', v) => Waiting(sup, v)
    BY <1>4 DEF Waiting
  <2> HIDE DEF Like
  <2> QED BY <1>0, <2>1, SteadyStep
<1>6. Defined
  BY <1>0, <1>1, <1>4 DEF Defined, Resting
<1> QED BY <1>5, <1>6 DEF Effect

LEMMA DispatchEffect ==
  ASSUME Inv, Dispatch
  PROVE  Steady /\ Effect
<1> DEFINE j == CHOOSE i \in Offers(sup) : \A k \in Offers(sup) : i <= k
           w == Slot(sup, j)
           ids == BatchTasks(sup)
           f == Fill(sup, w)
           C == Range(ids)
<1>0. /\ Typed /\ sup \in Sups /\ Stages(sup) /\ wpc' = wpc /\ wdef' = wdef /\ mem' = mem /\ toSup' = toSup
      /\ pc = "dispatch" /\ sup.vec # << >> /\ Offers(sup) # {} /\ sup.def # 0
      /\ toWorker \in [Worker -> Seq(Messages)] /\ ids # << >>
  BY DEF Inv, Typed, Joins, Dispatch, workers, CanDispatch, WantsDispatch
<1>1. Books(sup, FALSE) /\ Serving(sup)
  <2>1. (pc = "cleanup") = FALSE
    BY <1>0
  <2>2. Books(sup, FALSE)
    BY <2>1 DEF Inv
  <2> QED BY <1>0, <2>2 DEF Serving, Books, Numbered
<1>2. j \in Nat /\ j \in Offers(sup)
  BY <1>0, FirstOffer
<1> HIDE DEF j
<1>3. w \in sup.registered /\ w \in Worker /\ w \in Range(sup.vec) \ sup.failed
  <2>1. w \in Range(sup.vec) /\ w \in sup.registered /\ w \in Worker
    BY <1>0, <1>2, SlotOnList, SupTypes DEF Stages
  <2>2. w \notin sup.failed
    BY <1>0, <1>2 DEF Offers, Eligible, Stages
  <2> QED BY <2>1, <2>2
<1>4. \/ /\ Send(w, Msg(IF Len(ids) = 1 THEN "TASK" ELSE "TASKB", ids))
         /\ sup' = [f EXCEPT !.turn = (@ + j + 1) % Turns, !.outstandingMessages = @ + 1, !.inFlight[w] = @ + 1]
         /\ pc' = pc
      \/ /\ Spend("send") /\ toWorker' = toWorker
         /\ \/ /\ IsTcp /\ pc' = "cleanup"
               /\ sup' = [f EXCEPT !.mgr = M!RequeueAll(@, ids), !.failed = @ \cup {w}, !.turn = (@ + j) % Turns]
            \/ pc' = "throw" /\ sup' = f
  BY DEF Dispatch, Throw, j
<1> HIDE DEF w
<1>5. ids \in Seq(TaskId) /\ \A i, k \in 1..Len(ids) : ids[i] = ids[k] => i = k
  BY <1>1, BatchIsFront DEF Books
<1>6. /\ f \in Sups /\ SameLists(f, sup) /\ Books(f, FALSE)
      /\ \A t \in C : t \in M!Running(f.mgr) /\ f.mgr.fTaskToWorker[t] = w
      /\ Filled(f, sup, w, C)
  <2>1. /\ Serving(sup) /\ Books(sup, FALSE) /\ w \in sup.registered /\ f = Fill(sup, w)
        /\ C = Range(BatchTasks(sup))
    BY <1>1, <1>3
  <2> HIDE DEF f, C
  <2>2. Fills(f, sup, w, C)
    BY ONLY <2>1, FillBooks
  <2> QED BY <2>2 DEF Fills
<1>7. f.turn \in Nat /\ \A k \in Nat : (f.turn + k) % Turns \in Nat
  <2>1. f.turn \in Nat /\ Turns \in Nat \ {0}
    BY <1>6, TurnsPositive, SupTypes
  <2> QED BY <2>1
<1>8. C = Range(BatchTasks(sup)) /\ ids = BatchTasks(sup)
  OBVIOUS
<1> HIDE DEF f, ids, C
<1>9. Charged(f, sup, w, C)
  BY <1>6 DEF Filled, Charged, SameLists, SameRest
<1>10. CASE /\ Send(w, Msg(IF Len(ids) = 1 THEN "TASK" ELSE "TASKB", ids))
            /\ sup' = [f EXCEPT !.turn = (@ + j + 1) % Turns, !.outstandingMessages = @ + 1, !.inFlight[w] = @ + 1]
            /\ pc' = pc
  <2> DEFINE T == (f.turn + j + 1) % Turns
             O == f.outstandingMessages + 1
             I == [f.inFlight EXCEPT ![w] = @ + 1]
             m == Msg(IF Len(ids) = 1 THEN "TASK" ELSE "TASKB", ids)
  <2>1. sup' = [f EXCEPT !.turn = T, !.outstandingMessages = O, !.inFlight = I]
    BY <1>10
  <2>2. O = sup.outstandingMessages + 1 /\ I = [sup.inFlight EXCEPT ![w] = @ + 1]
    BY <1>6 DEF Filled, SameMessages
  <2>3. /\ m \in {Msg(c, BatchTasks(sup)) : c \in {"TASK", "TASKB"}} /\ m \in Messages /\ m.ids # << >>
        /\ Load(m) = C
    <3>1. PICK c \in {"TASK", "TASKB"} : m = Msg(c, ids)
      OBVIOUS
    <3>2. m \in Messages /\ m.cmd = c /\ m.ids = ids
      BY <1>5, <3>1, MessageTypes DEF Msg
    <3> QED BY <1>0, <1>8, <3>1, <3>2 DEF Load, C, ids
  <2>4. toWorker' = [toWorker EXCEPT ![w] = Append(@, m)]
    BY <1>10 DEF Send
  <2> HIDE DEF T, O, I, m
  <2>5. /\ sup'.mgr = f.mgr /\ sup'.history = f.history /\ sup'.next = f.next /\ sup'.def = f.def
        /\ SameTeam(sup', f) /\ sup'.pendingReady = f.pendingReady /\ sup'.pendingInit = f.pendingInit
        /\ sup'.initing = f.initing /\ sup'.inFlight = I /\ sup'.outstandingMessages = O
    BY <1>6, <2>1 DEF Sups, SameTeam
  <2>6. Charged(sup', sup, w, C)
    BY <1>9, <2>5 DEF Charged
  <2>7. \A t \in TaskId : sup'.mgr.fTaskToWorker[t] = IF t \in C THEN w ELSE sup.mgr.fTaskToWorker[t]
    BY <1>6, <2>5 DEF Filled
  <2>8. SameTeam(sup', sup) /\ \A v \in Worker : Waiting(sup', v) => Waiting(sup, v)
    BY <1>6, <2>5 DEF SameLists, SameRest, SameTeam, Waiting
  <2>9. Steady
    BY <1>0, <2>8, SteadyStep
  <2>10. Dispatched(w)
    <3>1. Charged(sup', sup, w, Load(m))
          /\ \A t \in TaskId : sup'.mgr.fTaskToWorker[t] = IF t \in Load(m) THEN w ELSE sup.mgr.fTaskToWorker[t]
      BY <2>3, <2>6, <2>7
    <3>2. pc \in Looping /\ pc' \in Looping
      BY <1>0, <1>10 DEF Looping
    <3>3. sup'.inFlight = [sup.inFlight EXCEPT ![w] = @ + 1] /\ sup'.outstandingMessages = sup.outstandingMessages + 1
      BY <2>2, <2>5
    <3>4. w \in Range(sup.vec) \ sup.failed /\ SameTeam(sup', sup) /\ toSup' = toSup
      BY <1>0, <1>3, <2>8
    <3> HIDE DEF Looping
    <3> QED BY ONLY <2>3, <2>4, <3>1, <3>2, <3>3, <3>4 DEF Dispatched
  <2> QED BY <1>3, <2>9, <2>10 DEF Effect
<1>11. ASSUME toWorker' = toWorker, pc' \in {"cleanup", "throw"}, Charged(sup', sup, w, C),
              \A t \in TaskId \ C : sup'.mgr.fTaskToWorker[t] = sup.mgr.fTaskToWorker[t],
              SameMessages(sup', sup), SameRest(sup', sup), sup'.vec = sup.vec, sup'.registered = sup.registered,
              sup.failed \subseteq sup'.failed
       PROVE  Steady /\ Effect
  <2>1. \A v \in Worker : Waiting(sup', v) => Waiting(sup, v)
    BY <1>11 DEF SameRest, Waiting
  <2>2. Steady
    BY <1>0, <2>1, SteadyStep
  <2>3. Retained(w)
    BY <1>0, <1>3, <1>8, <1>11 DEF Retained, Looping, Resting
  <2> QED BY <1>3, <2>2, <2>3 DEF Effect
<1>12. CASE /\ Spend("send") /\ toWorker' = toWorker /\ IsTcp /\ pc' = "cleanup"
            /\ sup' = [f EXCEPT !.mgr = M!RequeueAll(@, ids), !.failed = @ \cup {w}, !.turn = (@ + j) % Turns]
  <2> DEFINE T == (f.turn + j) % Turns
  <2>1. T \in Nat /\ "send" \in Faults
    BY <1>2, <1>7, <1>12 DEF Spend
  <2>2. sup' = [f EXCEPT !.mgr = M!RequeueAll(@, ids), !.failed = @ \cup {w}, !.turn = T]
    BY <1>12
  <2> HIDE DEF T
  <2>3. w \in f.registered
    BY <1>3, <1>6 DEF SameLists
  <2>4. /\ SameRest(sup', f) /\ sup'.vec = f.vec /\ sup'.registered = f.registered
        /\ sup'.failed = f.failed \cup {w} /\ PutBack(sup', f, C)
    <3>1. sup' = Refused(f, ids, w, T)
      BY <2>2 DEF Refused
    <3>2. Given(f, w, ids)
      BY <1>5, <1>6, <2>3 DEF Given, C
    <3> DEFINE n == Refused(f, ids, w, T)
    <3>3. /\ n \in Sups /\ SameRest(n, f) /\ n.vec = f.vec /\ n.registered = f.registered
          /\ Books(n, TRUE) /\ n.failed = f.failed \cup {w} /\ PutBack(n, f, Range(ids))
      BY ONLY <2>1, <3>2, RefusedBooks, Zenon
    <3> QED BY <3>1, <3>3 DEF C
  <2>5. Charged(sup', sup, w, C)
    BY <1>9, <2>4 DEF Charged, PutBack, SameRest
  <2>6. /\ \A t \in TaskId \ C : sup'.mgr.fTaskToWorker[t] = sup.mgr.fTaskToWorker[t]
        /\ SameMessages(sup', sup) /\ SameRest(sup', sup)
    BY <1>6, <2>4 DEF Filled, PutBack, SameMessages, SameLists, SameRest
  <2>7. sup'.vec = sup.vec /\ sup'.registered = sup.registered /\ sup.failed \subseteq sup'.failed
    BY <1>6, <2>4 DEF SameLists
  <2> QED BY <1>11, <1>12, <2>5, <2>6, <2>7
<1>13. CASE toWorker' = toWorker /\ pc' = "throw" /\ sup' = f
  <2>1. /\ \A t \in TaskId \ C : sup'.mgr.fTaskToWorker[t] = sup.mgr.fTaskToWorker[t]
        /\ SameMessages(sup', sup) /\ SameRest(sup', sup)
        /\ sup'.vec = sup.vec /\ sup'.registered = sup.registered /\ sup.failed \subseteq sup'.failed
    BY <1>6, <1>13 DEF Filled, SameMessages, SameLists
  <2> QED BY <1>9, <1>11, <1>13, <2>1
<1> QED BY <1>4, <1>10, <1>12, <1>13

\* The members an effect speaks of, and the stages of joining, are as before.
Alike(n, s) ==
  /\ SameTasks(n, s) /\ SameTeam(n, s)
  /\ n.pendingReady = s.pendingReady /\ n.pendingInit = s.pendingInit /\ n.initing = s.initing

LEMMA AlikeStep ==
  ASSUME Typed, toSup' = toSup \/ \E w \in Worker : Takes(w), wdef' = wdef, mem' = mem,
         \A v \in Worker : wpc'[v] = "off" => wpc[v] = "off",
         Alike(sup', sup), \A v \in Worker : Told(v),
         pc' \in Looping => pc \in Looping,
         pc' \in Resting => pc \in Resting \/ M!Running(sup.mgr) = {}
  PROVE  Steady /\ Effect
<1>1. SameTasks(sup', sup) /\ SameTeam(sup', sup)
  BY DEF Alike
<1>2. \A v \in Worker : Waiting(sup', v) => Waiting(sup, v)
  BY DEF Alike, Waiting
<1> QED BY <1>1, <1>2, AsideStep

LEMMA LoopEffect ==
  ASSUME Inv, LoopStep \/ UserInterrupt \/ GraceExpires \/ Stall \/ \E w \in Worker : InactiveTcpWorker(w)
  PROVE  Steady /\ Effect
<1>0. Typed /\ sup \in Sups /\ wpc \in [Worker -> WorkerStates]
  BY DEF Inv, Typed
<1>1. CASE LoopTop \/ GraceExpires \/ LoopFails \/ NothingReceived \/ IdleDone \/ Stall
  <2>1. /\ sup' = sup /\ toWorker' = toWorker /\ toSup' = toSup /\ wpc' = wpc /\ wdef' = wdef /\ mem' = mem
        /\ pc \in Looping /\ pc' \notin Resting
    BY <1>1 DEF LoopTop, GraceExpires, LoopFails, NothingReceived, IdleDone, Stall, Throw, Step, channels,
                workers, Looping, Resting
  <2> QED BY <1>0, <2>1, StillStep
<1>2. CASE LoopEnd
  <2>1. /\ toWorker' = toWorker /\ toSup' = toSup /\ wpc' = wpc /\ wdef' = wdef /\ mem' = mem
        /\ pc = "top" /\ (pc' = "throw" \/ (pc' = "define" /\ M!Running(sup.mgr) = {}))
        /\ sup' = sup \/ sup' = [sup EXCEPT !.nProcessed = sup.counts]
    BY <1>2 DEF LoopEnd, Throw, channels, workers, mgr
  <2>2. Alike(sup', sup)
    BY <1>0, <2>1 DEF Sups, Alike, SameTasks, SameTeam, SameMessages
  <2>3. \A v \in Worker : Told(v)
    BY <2>1 DEF Told
  <2>4. (pc' \in Looping => pc \in Looping) /\ (pc' \in Resting => pc \in Resting \/ M!Running(sup.mgr) = {})
    BY <2>1 DEF Looping, Resting
  <2> QED BY <1>0, <2>1, <2>2, <2>3, <2>4, AlikeStep
<1>3. CASE UserInterrupt
  <2>1. /\ sup' = sup /\ toSup' = toSup /\ toWorker' = toWorker /\ pc' = "throw" /\ wdef' = wdef /\ mem' = mem
        /\ \A v \in Worker : wpc'[v] = "off" => wpc[v] = "off"
    BY <1>0, <1>3 DEF UserInterrupt, Throw, channels
  <2> QED BY <1>0, <2>1, StillStep DEF Looping, Resting
<1>4. CASE \E w \in Worker : InactiveTcpWorker(w)
  <2>1. PICK w \in Worker : InactiveTcpWorker(w)
    BY <1>4
  <2> DEFINE n == HandleWorkerFailure(sup, w)
  <2>2. /\ sup' = n /\ toSup' = toSup /\ toWorker' = toWorker /\ wpc' = wpc /\ wdef' = wdef /\ mem' = mem
        /\ pc \in Looping /\ pc' \notin Resting
    BY <2>1 DEF InactiveTcpWorker, Throw, channels, workers, Looping, Resting
  <2>3. SameMessages(n, n) /\ SameTeam(n, n)
    BY DEF SameMessages, SameTeam
  <2> HIDE DEF n
  <2> QED BY <2>2, <2>3, FailureEffect DEF n
<1>5. CASE DispatchDone
  <2>1. /\ toWorker' = toWorker /\ toSup' = toSup /\ wpc' = wpc /\ wdef' = wdef /\ mem' = mem
        /\ pc = "dispatch" /\ pc' = "cleanup"
        /\ sup' = sup \/ sup' = [sup EXCEPT !.turn = (@ + Len(sup.vec)) % Turns]
    BY <1>5 DEF DispatchDone, Step, channels, workers
  <2>2. Alike(sup', sup)
    <3> DEFINE T == (sup.turn + Len(sup.vec)) % Turns
    <3>1. sup' = sup \/ sup' = [sup EXCEPT !.turn = T]
      BY <2>1
    <3> HIDE DEF T
    <3> QED BY <1>0, <3>1 DEF Sups, Alike, SameTasks, SameTeam, SameMessages
  <2>3. \A v \in Worker : Told(v)
    BY <2>1 DEF Told
  <2>4. pc \in Looping /\ pc' \notin Resting
    BY <2>1 DEF Looping, Resting
  <2> QED BY <1>0, <2>1, <2>2, <2>3, <2>4, AlikeStep
<1>6. CASE Cleanup
  <2>1. /\ toWorker' = toWorker /\ toSup' = toSup /\ wpc' = wpc /\ wdef' = wdef /\ mem' = mem
        /\ pc \in Looping /\ pc' \notin Resting
    BY <1>6 DEF Cleanup, channels, workers, Looping, Resting
  <2>2. CASE \E k \in 1..Len(sup.vec) : sup' = HandleWorkerFailure(sup, sup.vec[k])
    <3>1. PICK k \in 1..Len(sup.vec) : sup' = HandleWorkerFailure(sup, sup.vec[k])
      BY <2>2
    <3> DEFINE w == sup.vec[k]
               n == HandleWorkerFailure(sup, w)
    <3>2. w \in Worker
      BY <1>0, SupTypes
    <3>3. sup' = n
      BY <3>1
    <3> HIDE DEF w
    <3>4. SameMessages(n, n) /\ SameTeam(n, n)
      BY DEF SameMessages, SameTeam
    <3> HIDE DEF n
    <3> QED BY <2>1, <3>2, <3>3, <3>4, FailureEffect DEF n
  <2>3. CASE sup' = sup
    BY <1>0, <2>1, <2>3, StillStep
  <2> QED BY <1>6, <2>2, <2>3 DEF Cleanup
<1>7. CASE ChildExited
  <2> DEFINE w == CHOOSE v \in Exited : \A u \in Exited : v <= u
             n == HandleWorkerFailure(sup, w)
  <2>1. /\ toWorker' = toWorker /\ toSup' = toSup /\ wpc' = wpc /\ wdef' = wdef /\ mem' = mem
        /\ pc \in Looping /\ pc' \notin Resting
        /\ Exited # {} /\ sup' = [n EXCEPT !.reaped = @ \cup {w}]
    BY <1>7 DEF ChildExited, channels, workers, Throw, Looping, Resting
  <2>2. w \in Worker
    <3>1. Exited \in SUBSET Worker
      BY DEF Exited
    <3>2. Exited \in SUBSET Nat
      BY <3>1, RunnerConstants
    <3>3. \E v \in Exited : \A u \in Exited : v <= u
      BY <2>1, <3>2, LeastNat
    <3> QED BY <3>1, <3>3
  <2> HIDE DEF w
  <2>3. n \in Sups
    BY <1>0, <2>2, FailureBooks DEF Inv, Joins, Stages
  <2> HIDE DEF n
  <2>4. /\ sup'.mgr = n.mgr /\ sup'.history = n.history /\ sup'.next = n.next /\ sup'.def = n.def
        /\ SameMessages(sup', n) /\ SameTeam(sup', n) /\ sup'.pendingReady = n.pendingReady
        /\ sup'.pendingInit = n.pendingInit /\ sup'.initing = n.initing
    BY <2>1, <2>3 DEF Sups, SameMessages, SameTeam
  <2> QED BY <2>1, <2>2, <2>4, FailureEffect DEF n
<1> QED BY <1>1, <1>2, <1>3, <1>4, <1>5, <1>6, <1>7, StartDefinitionEffect, DispatchEffect DEF LoopStep

-----------------------------------------------------------------------------
(* Receiving *)

LEMMA ReceiveReadyEffect ==
  ASSUME Inv, NEW w \in Worker, ReceiveReady(w)
  PROVE  Steady /\ Effect
<1> DEFINE E == sup.seen \cup {w}
           I == sup.pendingInit \cup {w}
<1>1. /\ Typed /\ sup \in Sups /\ wpc' = wpc /\ wdef' = wdef /\ mem' = mem /\ pc = "receive" /\ pc' = "top"
      /\ Takes(w) /\ Head(toSup[w]).cmd = "READY" /\ toWorker \in [Worker -> Seq(Messages)]
      /\ Send(w, Msg("INIT", << >>)) \/ toWorker' = toWorker
  BY DEF ReceiveReady, Got, Inv, Typed, workers
<1>2. \A v \in Worker : Told(v)
  BY <1>1 DEF Send, Told
<1>3. sup' = [sup EXCEPT !.seen = E, !.pendingInit = I] \/ sup' = [sup EXCEPT !.seen = E]
  BY <1>1 DEF ReceiveReady, Sups
<1> HIDE DEF E, I
<1>4. /\ SameTasks(sup', sup) /\ SameTeam(sup', sup) /\ sup'.pendingReady = sup.pendingReady
      /\ sup'.pendingInit \in {sup.pendingInit, I} /\ sup'.initing = sup.initing
  <2>1. CASE sup' = [sup EXCEPT !.seen = E, !.pendingInit = I]
    BY <1>1, <2>1 DEF Sups, SameTasks, SameTeam, SameMessages
  <2>2. CASE sup' = [sup EXCEPT !.seen = E]
    BY <1>1, <2>2 DEF Sups, SameTasks, SameTeam, SameMessages
  <2> QED BY <1>3, <2>1, <2>2
<1>5. Carries(toSup[w], "READY")
  BY <1>1, ReadySeen
<1>6. \A v \in Worker : Waiting(sup', v) => Waiting(sup, v) \/ Carries(toSup[v], "READY")
  BY <1>4, <1>5 DEF Waiting, I
<1>7. pc \in Looping /\ pc' \notin Resting
  BY <1>1 DEF Looping, Resting
<1> QED BY <1>1, <1>2, <1>4, <1>6, <1>7, AsideStep

LEMMA ReceiveInitAckEffect ==
  ASSUME Inv, NEW w \in Worker, ReceiveInitAck(w)
  PROVE  Steady /\ Effect
<1>1. /\ Typed /\ sup \in Sups /\ Stages(sup) /\ wpc' = wpc /\ wdef' = wdef /\ mem' = mem
      /\ pc = "receive" /\ pc' = "top" /\ Takes(w) /\ toWorker \in [Worker -> Seq(Messages)]
  BY DEF ReceiveInitAck, Got, Inv, Typed, Joins, workers
<1>2. pc \in Looping /\ pc' \in Looping /\ pc' \notin Resting
  BY <1>1 DEF Looping, Resting
<1>3. CASE w \notin sup.pendingInit
  <2>1. sup' = sup /\ toWorker' = toWorker
    BY <1>3 DEF ReceiveInitAck
  <2> QED BY <1>1, <1>2, <2>1, StillStep
<1>4. CASE w \in sup.pendingInit
  <2> DEFINE R == sup.registered \cup {w}
             V == Append(sup.vec, w)
             I == sup.pendingInit \ {w}
  <2>1. /\ sup' = [[sup EXCEPT !.registered = R, !.vec = V] EXCEPT !.pendingInit = I]
        /\ Send(w, SetDef(sup.def)) \/ (~CatchUpsSucceed /\ toWorker' = toWorker)
    BY <1>1, <1>4 DEF ReceiveInitAck, Join, Sups, Spend, CatchUpsSucceed
  <2> HIDE DEF R, V, I
  <2>2. /\ sup'.vec = V /\ sup'.registered = R /\ sup'.pendingReady = sup.pendingReady
        /\ sup'.pendingInit = I /\ sup'.initing = sup.initing /\ sup'.failed = sup.failed
        /\ SameTasks(sup', sup)
    BY <1>1, <2>1 DEF Sups, SameTasks, SameMessages
  <2>3. Young(w) /\ w \notin Range(sup.vec)
    BY <1>1, <1>4 DEF Young, Waiting, Stages
  <2>4. \A v \in Worker : Waiting(sup', v) => Waiting(sup, v)
    BY <2>2 DEF Waiting, I
  <2>5. /\ sup'.vec = Append(sup.vec, w) /\ sup'.registered = sup.registered \cup {w}
        /\ CaughtUp(w)
        /\ \A v \in Worker : v # w => toWorker'[v] = toWorker[v]
    BY <1>1, <2>1, <2>2 DEF R, V, Send, CaughtUp
  <2> QED BY <1>1, <1>2, <2>2, <2>3, <2>4, <2>5, JoinStep
<1> QED BY <1>3, <1>4

LEMMA ReceiveAckEffect ==
  ASSUME Inv, NEW w \in Worker, ReceiveAck(w)
  PROVE  Steady /\ Effect
<1> DEFINE h == Head(toSup[w])
           own == Owned(sup, w, h.ids)
           k == IF h.cmd = "ACKB" \/ own # {} THEN 1 ELSE 0
           n == Settle(sup, w, own, k)
<1>1. /\ Typed /\ sup \in Sups /\ wpc' = wpc /\ wdef' = wdef /\ mem' = mem /\ pc = "receive"
      /\ Takes(w) /\ toWorker' = toWorker
      /\ h.cmd \in {"ACK", "ACKB"}
  BY DEF ReceiveAck, Got, Inv, Typed, workers
<1>2. h.ids \in Seq(TaskId) /\ Load(h) = Range(h.ids) /\ toSup[w] # << >> /\ toSup'[w] = Tail(toSup[w])
  BY <1>1, TakesTypes, MessageFields DEF Load
<1>3. \/ sup' = sup /\ pc' \in {"top", "throw"}
      \/ sup' = n /\ pc' = "top" /\ ~(k > sup.outstandingMessages) /\ w \in sup.registered
  BY DEF ReceiveAck, Throw
<1>4. pc \in Looping /\ pc' \notin Resting
  BY <1>1, <1>3 DEF Looping, Resting
<1>5. CASE sup' = sup
  BY <1>1, <1>4, <1>5, StillStep
<1>6. CASE sup' = n /\ pc' = "top" /\ ~(k > sup.outstandingMessages) /\ w \in sup.registered
  <2>1. k \in {0, 1} /\ k <= sup.outstandingMessages
    <3>1. k \in {0, 1} /\ sup.outstandingMessages \in Nat
      BY <1>1, SupTypes
    <3> HIDE DEF k
    <3> QED BY <1>6, <3>1
  <2>2. Books(sup, pc = "cleanup")
    BY DEF Inv
  <2>3. (k = 0 => own = {}) /\ (k = 1 => own # {} \/ h.cmd = "ACKB") /\ own \subseteq Load(h)
        /\ \A t \in own : sup.mgr.fTaskToWorker[t] = w
    BY <1>2 DEF Owned, M!GetTaskWorker
  <2> DEFINE c == pc = "cleanup"
  <2> HIDE DEF k, own, c
  <2>4. n \in Sups /\ SameLists(n, sup) /\ Settled(n, sup, own) /\ Delivered(n, sup, w, k)
    <3>1. sup \in Sups /\ Books(sup, c) /\ w \in Worker /\ h.ids \in Seq(TaskId) /\ own = Owned(sup, w, h.ids)
          /\ k \in {0, 1} /\ k <= sup.outstandingMessages /\ n = Settle(sup, w, own, k)
      BY <1>1, <1>2, <2>1, <2>2 DEF c, own
    <3> HIDE DEF h, n
    <3> QED BY ONLY <3>1, SettleBooks
  <2> HIDE DEF n, h
  <2>5. Acked(w)
    <3>1. SameTeam(sup', sup) /\ sup'.def = sup.def
      BY <1>6, <2>4 DEF SameLists, SameRest, SameTeam
    <3>2. pc \in Looping /\ pc' \in Looping
      BY <1>4, <1>6 DEF Looping
    <3>3. /\ Settled(sup', sup, own) /\ Delivered(sup', sup, w, k) /\ w \in sup.registered
          /\ own \in SUBSET Load(Head(toSup[w]))
          /\ (k = 1 => own # {} \/ Head(toSup[w]).cmd = "ACKB")
      BY <1>6, <2>3, <2>4 DEF h
    <3> QED BY <1>1, <1>2, <2>1, <2>3, <3>1, <3>2, <3>3 DEF Acked
  <2>6. \A v \in Worker : Waiting(sup', v) => Waiting(sup, v)
    BY <1>6, <2>4 DEF SameLists, SameRest, Waiting
  <2>7. Steady
    BY <1>1, <2>6, SteadyStep
  <2> QED BY <2>5, <2>7 DEF Effect
<1> QED BY <1>3, <1>5, <1>6

LEMMA ReceiveEffect ==
  ASSUME Inv, NEW w \in Worker, Receive(w)
  PROVE  Steady /\ Effect
<1>0. Typed /\ sup \in Sups
  BY DEF Inv, Typed
<1>1. CASE ReceiveShutdown(w)
  <2>1. /\ Takes(w) /\ toWorker' = toWorker /\ wpc' = wpc /\ wdef' = wdef /\ mem' = mem
        /\ pc \in Looping /\ pc' \notin Resting
    BY <1>1 DEF ReceiveShutdown, Got, Throw, workers, Looping, Resting
  <2>2. CASE sup' = sup
    BY <1>0, <2>1, <2>2, StillStep
  <2>3. CASE sup' = HandleWorkerFailure(sup, w)
    <3> DEFINE n == HandleWorkerFailure(sup, w)
    <3>1. sup' = n
      BY <2>3
    <3>2. SameMessages(n, n) /\ SameTeam(n, n)
      BY DEF SameMessages, SameTeam
    <3> HIDE DEF n
    <3> QED BY <2>1, <3>1, <3>2, FailureEffect DEF n
  <2> QED BY <1>1, <2>2, <2>3 DEF ReceiveShutdown
<1>2. CASE ReceiveDone(w)
  <2> DEFINE E == sup.earlyDone \cup ({w} \cap sup.registered)
  <2>1. /\ Takes(w) /\ toWorker' = toWorker /\ wpc' = wpc /\ wdef' = wdef /\ mem' = mem
        /\ pc \in Looping /\ pc' \notin Resting /\ sup' = [sup EXCEPT !.earlyDone = E]
    BY <1>2 DEF ReceiveDone, Got, workers, Looping, Resting
  <2> HIDE DEF E
  <2>2. Alike(sup', sup)
    BY <1>0, <2>1 DEF Sups, Alike, SameTasks, SameTeam, SameMessages
  <2>3. \A v \in Worker : Told(v)
    BY <2>1 DEF Told
  <2> QED BY <1>0, <2>1, <2>2, <2>3, AlikeStep
<1>3. CASE ReceiveErr(w)
  <2>1. /\ Takes(w) /\ toWorker' = toWorker /\ wpc' = wpc /\ wdef' = wdef /\ mem' = mem
        /\ pc \in Looping /\ pc' \notin Resting /\ sup' = sup
    BY <1>3 DEF ReceiveErr, Got, Throw, workers, Looping, Resting
  <2> QED BY <1>0, <2>1, StillStep
<1> QED BY <1>1, <1>2, <1>3, ReceiveReadyEffect, ReceiveInitAckEffect, ReceiveAckEffect DEF Receive

LEMMA FinishEffect ==
  ASSUME Inv, FinishStep \/ FinishTimeout
  PROVE  Steady /\ Effect
<1>0. Typed /\ sup \in Sups /\ toWorker \in [Worker -> Seq(Messages)] /\ wpc \in [Worker -> WorkerStates]
  BY DEF Inv, Typed
<1>1. CASE SendStop
  <2> DEFINE D == sup.earlyDone \cap sup.registered
  <2>1. /\ sup' = [sup EXCEPT !.doneWorkers = D, !.shutdownWorkers = {}]
        /\ toSup' = toSup /\ wpc' = wpc /\ wdef' = wdef /\ mem' = mem
        /\ pc' \notin Looping /\ pc' \notin Resting
        /\ \E ws, a : a \in BOOLEAN /\ SendAll(ws, Stop(a))
    BY <1>1 DEF SendStop, workers, Looping, Resting
  <2> HIDE DEF D
  <2>2. Alike(sup', sup)
    BY <1>0, <2>1 DEF Sups, Alike, SameTasks, SameTeam, SameMessages
  <2>3. \A v \in Worker : Told(v)
    BY <2>1 DEF SendAll, Told
  <2> QED BY <1>0, <2>1, <2>2, <2>3, AlikeStep
<1>2. CASE WaitChildren
  <2>1. /\ sup' = sup /\ toSup' = toSup /\ toWorker' = toWorker /\ wdef' = wdef /\ mem' = mem
        /\ pc' \notin Looping /\ pc' \notin Resting
        /\ \A v \in Worker : wpc'[v] = "off" => wpc[v] = "off"
    BY <1>0, <1>2 DEF WaitChildren, channels, Looping, Resting
  <2> QED BY <1>0, <2>1, StillStep
<1>3. CASE \E w \in Worker : FinishReceive(w)
  <2>1. PICK w \in Worker : FinishReceive(w)
    BY <1>3
  <2> DEFINE m == Head(toSup[w])
             by == {w} \cap sup.registered
             D == IF m.cmd = "DONE" THEN sup.doneWorkers \cup by ELSE sup.doneWorkers
             T == IF m.cmd = "SHUTDOWN" THEN sup.shutdownWorkers \cup by ELSE sup.shutdownWorkers
  <2>2. /\ Takes(w) /\ wpc' = wpc /\ wdef' = wdef /\ mem' = mem /\ pc = "waitDone" /\ pc' = pc
        /\ sup' = [sup EXCEPT !.doneWorkers = D, !.shutdownWorkers = T]
        /\ Send(w, Stop(FALSE)) \/ toWorker' = toWorker
    BY <2>1 DEF FinishReceive, workers
  <2> HIDE DEF D, T
  <2>3. Alike(sup', sup)
    BY <1>0, <2>2 DEF Sups, Alike, SameTasks, SameTeam, SameMessages
  <2>4. \A v \in Worker : Told(v)
    BY <1>0, <2>2 DEF Send, Told
  <2> QED BY <1>0, <2>2, <2>3, <2>4, AlikeStep DEF Looping, Resting
<1>4. CASE FinishDone \/ FinishTimeout \/ Merge
  <2>1. /\ sup' = sup /\ toSup' = toSup /\ toWorker' = toWorker /\ wpc' = wpc /\ wdef' = wdef /\ mem' = mem
        /\ pc' \notin Looping /\ pc' \notin Resting
    BY <1>4 DEF FinishDone, FinishTimeout, Merge, Step, channels, workers, Looping, Resting
  <2> QED BY <1>0, <2>1, StillStep
<1> QED BY <1>1, <1>2, <1>3, <1>4 DEF FinishStep

\* A step of the supervisor.
Supervises == SupervisorStep \/ Deadline \/ UserInterrupt \/ \E w \in Worker : Receive(w)

\* A step of worker w.
Works(w) == (WorkerStep(w) \/ GiveUpInit(w, Over) \/ WorkerFault(w)) /\ UNCHANGED supervisor

LEMMA SupervisorEffect ==
  ASSUME Inv, Supervises
  PROVE  Steady /\ Effect
<1>1. CASE StartStep \/ InitTimeout \/ StartTimeout
  BY <1>1, StartEffect
<1>2. CASE LoopStep \/ UserInterrupt \/ GraceExpires \/ Stall \/ \E w \in Worker : InactiveTcpWorker(w)
  BY <1>2, LoopEffect
<1>3. CASE FinishStep \/ FinishTimeout
  BY <1>3, FinishEffect
<1>4. CASE \E w \in Worker : Receive(w)
  BY <1>4, ReceiveEffect
<1> QED BY <1>1, <1>2, <1>3, <1>4 DEF Supervises, SupervisorStep, Deadline

-----------------------------------------------------------------------------
(* The queues *)

\* What is sent holds tasks, tasks of the definition their worker is then at,
\* and what a worker has processed are such tasks: entries, unless a worker may
\* not have been told the definition.
Queues ==
  /\ mem \in [Worker -> SUBSET Work] /\ wdef \in [Worker -> {OwnDef} \cup Defs]
  /\ CatchUpsSucceed => \A w \in Worker : mem[w] \subseteq Entries
  /\ \A w \in Worker : Solid(toWorker[w]) /\ Solid(toSup[w]) /\ Dated(toWorker[w], wdef[w])

\* A worker that is not marked as failed will be at the current definition.
Current ==
  pc \in Looping =>
    \A w \in Range(sup.vec) \ sup.failed : Under(toWorker[w], wdef[w], Len(toWorker[w]) + 1, sup.def)

LEMMA HeadEntries ==
  ASSUME NEW q \in Seq(Messages), q # << >>, NEW d0 \in {OwnDef} \cup Defs, Dated(q, d0),
         NEW S \in SUBSET Load(Head(q)), S # {} => IsTask(Head(q))
  PROVE  /\ {<<d0, t>> : t \in S} \in SUBSET Work
         /\ CatchUpsSucceed => {<<d0, t>> : t \in S} \subseteq Entries
<1>1. 1 \in 1..Len(q) /\ Head(q) = q[1] /\ q[1] \in Messages /\ \A k \in 1..(1 - 1) : FALSE
  OBVIOUS
<1>2. ASSUME NEW t \in S PROVE <<d0, t>> \in Work /\ (CatchUpsSucceed => <<d0, t>> \in Entries)
  <2>1. IsTask(q[1]) /\ Load(q[1]) = Range(q[1].ids)
    BY <1>1, <1>2 DEF IsTask, Load
  <2>2. PICK d \in Defs : Under(q, d0, 1, d) /\ \A u \in Range(q[1].ids) : u < TasksOf[d]
    BY <1>1, <2>1 DEF Dated
  <2>3. CatchUpsSucceed => d0 = d
    BY <1>1, <2>2 DEF Under
  <2>4. t \in TaskId /\ t < TasksOf[d]
    BY <1>1, <1>2, <2>1, <2>2, LoadTypes
  <2>5. t \in 0..(TasksOf[d] - 1)
    BY <2>4, Tasks
  <2> QED BY <2>3, <2>4, <2>5 DEF Entries, Work
<1> QED BY <1>2

LEMMA Listed ==
  ASSUME Inv
  PROVE  sup \in Sups /\ Range(sup.vec) \subseteq sup.registered /\ sup.registered \in SUBSET Worker
BY SupTypes DEF Inv, Typed, Joins, Stages

\* A step of a worker.
LEMMA WorkerQueues ==
  ASSUME Inv, Queues, Current, NEW w \in Worker, NEW S, NEW C, Moves(w, S, C), UNCHANGED supervisor
  PROVE  Queues' /\ Current'
<1> DEFINE q == toWorker[w]
           e == IF Head(q).cmd = "SETDEF" THEN Head(q).def ELSE wdef[w]
<1>0. /\ q \in Seq(Messages) /\ toSup[w] \in Seq(Messages) /\ wdef[w] \in {OwnDef} \cup Defs
      /\ mem \in [Worker -> SUBSET Work] /\ wdef \in [Worker -> {OwnDef} \cup Defs] /\ sup' = sup /\ pc' = pc
      /\ Solid(q) /\ Solid(toSup[w]) /\ Dated(q, wdef[w])
  BY DEF Inv, Typed, Queues, supervisor
<1>1. \A v \in Worker : v # w => toWorker'[v] = toWorker[v] /\ toSup'[v] = toSup[v] /\ wdef'[v] = wdef[v]
  BY <1>0 DEF Moves
<1>2. CASE S = {} /\ toWorker'[w] = toWorker[w] /\ wdef' = wdef /\ Sent(toSup'[w], toSup[w], {}, {}, C)
  <2>1. mem' \in [Worker -> SUBSET Work] /\ (CatchUpsSucceed => \A v \in Worker : mem'[v] \subseteq Entries)
    BY <1>0, <1>2 DEF Moves, Queues
  <2>2. Solid(toSup'[w])
    BY <1>0, <1>2 DEF Sent
  <2>3. \A v \in Worker : toWorker'[v] = toWorker[v] /\ Solid(toSup'[v])
    BY <1>1, <1>2, <2>2 DEF Queues
  <2>4. Queues'
    BY <1>2, <2>1, <2>3 DEF Queues
  <2>5. Current'
    <3>1. ASSUME pc' \in Looping, NEW v \in Range(sup'.vec) \ sup'.failed
          PROVE  Under(toWorker'[v], wdef'[v], Len(toWorker'[v]) + 1, sup'.def)
      <4>1. v \in Worker /\ Under(toWorker[v], wdef[v], Len(toWorker[v]) + 1, sup.def)
        BY <1>0, <3>1, Listed DEF Current
      <4>2. toWorker'[v] = toWorker[v] /\ wdef'[v] = wdef[v]
        BY <1>2, <2>3, <4>1
      <4> QED BY <1>0, <4>1, <4>2
    <3> QED BY <3>1 DEF Current
  <2> QED BY <2>4, <2>5
<1>3. CASE /\ toWorker[w] # << >> /\ toWorker'[w] = Tail(toWorker[w])
           /\ S \subseteq Load(Head(toWorker[w])) /\ (S # {} => IsTask(Head(toWorker[w])))
           /\ wdef' = IF Head(toWorker[w]).cmd = "SETDEF"
                      THEN [wdef EXCEPT ![w] = Head(toWorker[w]).def] ELSE wdef
           /\ Solid(toWorker[w]) => Sent(toSup'[w], toSup[w], S, Lead(Head(toWorker[w])), C)
  <2>0. q # << >> /\ Head(q) \in Messages
    BY <1>0, <1>3
  <2>1. mem' \in [Worker -> SUBSET Work] /\ (CatchUpsSucceed => \A v \in Worker : mem'[v] \subseteq Entries)
    <3>1. /\ {<<wdef[w], t>> : t \in S} \in SUBSET Work
          /\ CatchUpsSucceed => {<<wdef[w], t>> : t \in S} \subseteq Entries
      BY <1>0, <1>3, HeadEntries
    <3> DEFINE E == {<<wdef[w], t>> : t \in S}
    <3>2. mem' = mem \/ mem' = [mem EXCEPT ![w] = @ \cup E]
      BY DEF Moves
    <3> HIDE DEF E
    <3>3. E \in SUBSET Work /\ (CatchUpsSucceed => E \subseteq Entries)
      BY <3>1 DEF E
    <3> QED BY <1>0, <3>2, <3>3 DEF Queues
  <2>2. wdef'[w] = e /\ wdef' \in [Worker -> {OwnDef} \cup Defs]
    BY <1>0, <1>3, <2>0, MessageFields
  <2>3. Solid(toSup'[w])
    BY <1>0, <1>3 DEF Sent
  <2>4. Solid(toWorker'[w]) /\ Dated(toWorker'[w], wdef'[w])
    BY <1>0, <1>3, <2>0, <2>2, TailMessages, DatedTail
  <2>5. Queues'
    BY <1>1, <2>1, <2>2, <2>3, <2>4 DEF Queues
  <2>6. ASSUME NEW d, Under(q, wdef[w], Len(q) + 1, d) PROVE Under(toWorker'[w], wdef'[w], Len(toWorker'[w]) + 1, d)
    <3>1. Len(q) \in 1..Len(q) /\ Len(Tail(q)) + 1 = Len(q)
      BY <1>0, <2>0
    <3>2. Under(Tail(q), e, Len(q), d)
      BY <1>0, <2>0, <2>6, <3>1, UnderTail
    <3> QED BY <1>3, <2>2, <3>1, <3>2
  <2>7. Current'
    <3>1. ASSUME pc' \in Looping, NEW v \in Range(sup'.vec) \ sup'.failed
          PROVE  Under(toWorker'[v], wdef'[v], Len(toWorker'[v]) + 1, sup'.def)
      <4>1. v \in Worker /\ Under(toWorker[v], wdef[v], Len(toWorker[v]) + 1, sup.def)
        BY <1>0, <3>1, Listed DEF Current
      <4> QED BY <1>0, <1>1, <2>6, <4>1
    <3> QED BY <3>1 DEF Current
  <2> QED BY <2>5, <2>7
<1> QED BY <1>2, <1>3 DEF Moves

\* What the supervisor adds to a queue.
Adds(q, p, d0, d) ==
  p = q \/ \E m \in Messages :
             /\ p = Append(q, m) /\ (m.cmd \in {"TASK", "TASKB", "ACKB"} => m.ids # << >>)
             /\ IsTask(m) => /\ d \in Defs /\ Under(q, d0, Len(q) + 1, d)
                             /\ \A t \in Range(m.ids) : t < TasksOf[d]

LEMMA AddsKeeps ==
  ASSUME NEW q \in Seq(Messages), NEW d0, NEW d, NEW p, Adds(q, p, d0, d), Solid(q), Dated(q, d0)
  PROVE  Solid(p) /\ Dated(p, d0)
<1>1. CASE p = q
  BY <1>1
<1>2. CASE p # q
  <2>1. PICK m \in Messages :
               /\ p = Append(q, m) /\ (m.cmd \in {"TASK", "TASKB", "ACKB"} => m.ids # << >>)
               /\ IsTask(m) => /\ d \in Defs /\ Under(q, d0, Len(q) + 1, d)
                               /\ \A t \in Range(m.ids) : t < TasksOf[d]
    BY <1>2 DEF Adds
  <2>2. Solid(p)
    BY <2>1, AppendMessage
  <2>3. Dated(p, d0)
    BY <2>1, DatedAppend
  <2> QED BY <2>2, <2>3
<1> QED BY <1>1, <1>2

\* The messages that carry no task.
LEMMA Tokenless ==
  /\ Msg("INIT", << >>) \in Messages /\ Msg("INIT", << >>).cmd = "INIT"
  /\ \A a \in BOOLEAN : Stop(a) \in Messages /\ Stop(a).cmd = "STOP"
  /\ \A d \in Defs : SetDef(d) \in Messages /\ SetDef(d).cmd = "SETDEF" /\ SetDef(d).def = d
<1>1. << >> \in Seq(TaskId)
  OBVIOUS
<1> QED BY <1>1, MessageTypes DEF Msg, Stop, SetDef

\* Told is a message that is no SETDEF.
LEMMA ToldAdds ==
  ASSUME NEW v \in Worker, Told(v), NEW d0, NEW d
  PROVE  /\ Adds(toWorker[v], toWorker'[v], d0, d)
         /\ \/ toWorker'[v] = toWorker[v]
            \/ \E m \in Messages : m.cmd \in {"INIT", "STOP"} /\ toWorker'[v] = Append(toWorker[v], m)
<1>1. CASE toWorker'[v] = toWorker[v]
  BY <1>1 DEF Adds
<1>2. CASE \E m \in {Msg("INIT", << >>), Stop(TRUE), Stop(FALSE)} : toWorker'[v] = Append(toWorker[v], m)
  <2>1. PICK m \in {Msg("INIT", << >>), Stop(TRUE), Stop(FALSE)} : toWorker'[v] = Append(toWorker[v], m)
    BY <1>2
  <2>2. m \in Messages /\ m.cmd \in {"INIT", "STOP"}
    BY Tokenless
  <2> QED BY <2>1, <2>2 DEF Adds, IsTask
<1> QED BY <1>1, <1>2 DEF Told

\* A step of the supervisor.
LEMMA SupervisorAdds ==
  ASSUME Inv, Current, Effect, NEW v \in Worker
  PROVE  Adds(toWorker[v], toWorker'[v], wdef[v], sup.def)
<1>0. /\ toWorker[v] \in Seq(Messages) /\ toWorker \in [Worker -> Seq(Messages)] /\ sup \in Sups
      /\ (pc \in Looping => sup.def \in Defs)
  BY AtDefinition DEF Inv, Typed
<1>1. ASSUME toWorker'[v] \in {toWorker[v]} \cup {Append(toWorker[v], SetDef(n)) : n \in Defs}
      PROVE  Adds(toWorker[v], toWorker'[v], wdef[v], sup.def)
  <2>1. CASE toWorker'[v] = toWorker[v]
    BY <2>1 DEF Adds
  <2>2. CASE toWorker'[v] # toWorker[v]
    <3>1. PICK n \in Defs : toWorker'[v] = Append(toWorker[v], SetDef(n))
      BY <1>1, <2>2
    <3>2. SetDef(n) \in Messages /\ SetDef(n).cmd = "SETDEF"
      BY Tokenless
    <3> QED BY <3>1, <3>2 DEF Adds, IsTask
  <2> QED BY <2>1, <2>2
<1>2. CASE Aside
  BY <1>2, ToldAdds DEF Aside
<1>3. CASE Defined
  BY <1>1, <1>3 DEF Defined
<1>4. CASE \E w \in Worker : Joined(w) \/ Failed(w) \/ Acked(w) \/ Retained(w)
  <2>1. PICK w \in Worker : Joined(w) \/ Failed(w) \/ Acked(w) \/ Retained(w)
    BY <1>4
  <2> QED BY <1>0, <1>1, <2>1 DEF Joined, CaughtUp, Failed, Acked, Retained
<1>5. CASE \E w \in Worker : Dispatched(w)
  <2>1. PICK w \in Worker : Dispatched(w)
    BY <1>5
  <2>2. CASE v # w
    <3>1. toWorker'[v] = toWorker[v]
      BY <1>0, <2>1, <2>2 DEF Dispatched
    <3> QED BY <3>1 DEF Adds
  <2>3. CASE v = w
    <3>1. PICK m \in {Msg(c, BatchTasks(sup)) : c \in {"TASK", "TASKB"}} :
               /\ toWorker' = [toWorker EXCEPT ![w] = Append(@, m)] /\ m \in Messages /\ m.ids # << >>
               /\ Charged(sup', sup, w, Load(m))
      BY <2>1 DEF Dispatched
    <3>2. IsTask(m) /\ Load(m) = Range(m.ids)
      BY DEF Msg, IsTask, Load
    <3>3. \A t \in Range(m.ids) : t < TasksOf[sup.def]
      BY <3>1, <3>2 DEF Charged
    <3>4. sup.def \in Defs /\ Under(toWorker[w], wdef[w], Len(toWorker[w]) + 1, sup.def)
      BY <1>0, <2>1 DEF Dispatched, Current
    <3>5. toWorker'[w] = Append(toWorker[w], m)
      BY <1>0, <3>1
    <3> QED BY <2>3, <3>1, <3>2, <3>3, <3>4, <3>5 DEF Adds
  <2> QED BY <2>2, <2>3
<1> QED BY <1>2, <1>3, <1>4, <1>5 DEF Effect

LEMMA SupervisorQueues ==
  ASSUME Inv, Queues, Current, Steady, Effect
  PROVE  Queues' /\ Current'
<1>0. /\ toWorker \in [Worker -> Seq(Messages)] /\ toSup \in [Worker -> Seq(Messages)]
      /\ wdef' = wdef /\ mem' = mem
      /\ \A v \in Worker : toSup'[v] = toSup[v] \/ (toSup[v] # << >> /\ toSup'[v] = Tail(toSup[v]))
  BY DEF Inv, Typed, Steady
<1>1. ASSUME NEW v \in Worker PROVE Solid(toWorker'[v]) /\ Solid(toSup'[v]) /\ Dated(toWorker'[v], wdef'[v])
  <2>1. toWorker[v] \in Seq(Messages) /\ Solid(toWorker[v]) /\ Solid(toSup[v]) /\ Dated(toWorker[v], wdef[v])
    BY <1>0 DEF Queues
  <2>2. Solid(toWorker'[v]) /\ Dated(toWorker'[v], wdef[v])
    BY <2>1, SupervisorAdds, AddsKeeps
  <2>3. Solid(toSup'[v])
    <3>1. CASE toSup'[v] = toSup[v]
      BY <2>1, <3>1
    <3>2. CASE toSup[v] # << >> /\ toSup'[v] = Tail(toSup[v])
      <4>1. toSup[v] \in Seq(Messages)
        BY <1>0
      <4> QED BY ONLY <2>1, <3>2, <4>1, TailMessages
    <3> QED BY <1>0, <3>1, <3>2
  <2> QED BY <1>0, <2>2, <2>3
<1>2. Queues'
  BY <1>0, <1>1 DEF Queues
<1>3. ASSUME NEW v \in Worker, NEW d, Under(toWorker[v], wdef[v], Len(toWorker[v]) + 1, d),
             \/ toWorker'[v] = toWorker[v]
             \/ \E m \in Messages : m.cmd # "SETDEF" /\ toWorker'[v] = Append(toWorker[v], m)
      PROVE  Under(toWorker'[v], wdef'[v], Len(toWorker'[v]) + 1, d)
  <2>1. toWorker[v] \in Seq(Messages)
    BY <1>0
  <2>2. CASE toWorker'[v] = toWorker[v]
    BY <1>0, <1>3, <2>2
  <2>3. CASE \E m \in Messages : m.cmd # "SETDEF" /\ toWorker'[v] = Append(toWorker[v], m)
    BY <1>0, <1>3, <2>1, <2>3, UnderAppend
  <2> QED BY <1>3, <2>2, <2>3
<1>4. ASSUME NEW v \in Worker, NEW d \in Defs, toWorker'[v] = Append(toWorker[v], SetDef(d))
      PROVE  Under(toWorker'[v], wdef'[v], Len(toWorker'[v]) + 1, d)
  <2>1. toWorker[v] \in Seq(Messages) /\ SetDef(d) \in Messages /\ SetDef(d).cmd = "SETDEF" /\ SetDef(d).def = d
    BY <1>0, Tokenless
  <2> QED BY <1>0, <1>4, <2>1, UnderAppend
<1>5. ASSUME pc' \in Looping, NEW v \in Range(sup'.vec) \ sup'.failed
      PROVE  Under(toWorker'[v], wdef'[v], Len(toWorker'[v]) + 1, sup'.def)
  <2>0. /\ Range(sup.vec) \subseteq Worker
        /\ pc \in Looping => \A u \in Range(sup.vec) \ sup.failed : Under(toWorker[u], wdef[u], Len(toWorker[u]) + 1, sup.def)
    BY Listed DEF Current
  <2>1. CASE Aside
    <3>1. pc \in Looping /\ v \in Range(sup.vec) \ sup.failed /\ sup'.def = sup.def /\ Told(v)
      BY <1>5, <2>0, <2>1 DEF Aside, SameTeam, SameTasks
    <3>2. \/ toWorker'[v] = toWorker[v]
          \/ \E m \in Messages : m.cmd # "SETDEF" /\ toWorker'[v] = Append(toWorker[v], m)
      <4>1. \/ toWorker'[v] = toWorker[v]
            \/ \E m \in Messages : m.cmd \in {"INIT", "STOP"} /\ toWorker'[v] = Append(toWorker[v], m)
        BY <2>0, <3>1, ToldAdds
      <4> QED BY <4>1
    <3> QED BY <1>3, <2>0, <3>1, <3>2
  <2>2. CASE Defined
    <3>1. v \in Worker /\ sup'.def \in Defs /\ toWorker'[v] = Append(toWorker[v], SetDef(sup'.def))
      BY <1>5, <2>0, <2>2 DEF Defined
    <3> QED BY <1>4, <3>1
  <2>3. CASE \E w \in Worker : Joined(w)
    <3>1. PICK w \in Worker : Joined(w)
      BY <2>3
    <3>2. /\ pc \in Looping /\ sup'.def = sup.def /\ (v = w \/ v \in Range(sup.vec) \ sup.failed)
          /\ sup.def \in Defs /\ CaughtUp(w) /\ (v # w /\ v \in Worker => toWorker'[v] = toWorker[v])
      BY <1>5, <3>1 DEF Joined, SameTasks
    <3>3. CASE v = w
      <4>1. CASE ~CatchUpsSucceed
        BY <4>1 DEF Under
      <4> QED BY <1>4, <3>2, <3>3, <4>1 DEF CaughtUp
    <3>4. CASE v # w
      BY <1>3, <2>0, <3>2, <3>4
    <3> QED BY <3>3, <3>4
  <2>4. CASE \E w \in Worker : Failed(w) \/ Acked(w) \/ Retained(w)
    <3>1. PICK w \in Worker : Failed(w) \/ Acked(w) \/ Retained(w)
      BY <2>4
    <3>2. v \in Range(sup.vec) \ sup.failed /\ pc \in Looping /\ sup'.def = sup.def /\ toWorker' = toWorker
      BY <1>5, <3>1 DEF Failed, Acked, Retained, SameTeam, Charged
    <3> QED BY <1>3, <2>0, <3>2
  <2>5. CASE \E w \in Worker : Dispatched(w)
    <3>1. PICK w \in Worker : Dispatched(w)
      BY <2>5
    <3>2. PICK m \in {Msg(c, BatchTasks(sup)) : c \in {"TASK", "TASKB"}} :
             /\ toWorker' = [toWorker EXCEPT ![w] = Append(@, m)] /\ m \in Messages
             /\ Charged(sup', sup, w, Load(m))
      BY <3>1 DEF Dispatched
    <3>3. v \in Range(sup.vec) \ sup.failed /\ pc \in Looping /\ sup'.def = sup.def
      BY <1>5, <3>1, <3>2 DEF Dispatched, SameTeam, Charged
    <3>4. \/ toWorker'[v] = toWorker[v]
          \/ m.cmd # "SETDEF" /\ toWorker'[v] = Append(toWorker[v], m)
      <4>1. v \in Worker
        BY <2>0, <3>3
      <4>2. m.cmd # "SETDEF"
        BY DEF Msg
      <4>3. CASE v = w
        BY <1>0, <3>2, <4>1, <4>2, <4>3
      <4>4. CASE v # w
        BY <1>0, <3>2, <4>1, <4>4
      <4> QED BY <4>3, <4>4
    <3> QED BY <1>3, <2>0, <3>2, <3>3, <3>4
  <2> QED BY <2>1, <2>2, <2>3, <2>4, <2>5 DEF Effect
<1>6. Current'
  BY <1>5 DEF Current
<1> QED BY <1>2, <1>6

\* A session step is one of the supervisor or of a worker.
LEMMA NextCases ==
  ASSUME Next
  PROVE  Supervises \/ \E w \in Worker : Works(w)
BY DEF Next, Supervises, Works, WorkerNext

LEMMA QueuesNext ==
  ASSUME Inv, Queues, Current, [Next]_vars
  PROVE  Queues' /\ Current'
<1>1. CASE UNCHANGED vars
  BY <1>1 DEF vars, Queues, Current, Solid, Dated, Under
<1>2. CASE Supervises
  BY <1>2, SupervisorEffect, SupervisorQueues
<1>3. CASE \E w \in Worker : Works(w)
  <2>1. PICK w \in Worker : Works(w)
    BY <1>3
  <2>2. \E S, C : Moves(w, S, C)
    BY <2>1, WorkerMoves DEF Works, Inv
  <2>3. PICK S, C : Moves(w, S, C)
    BY <2>2
  <2> QED BY <2>1, <2>3, WorkerQueues DEF Works
<1> QED BY <1>1, <1>2, <1>3, NextCases

LEMMA QueuesInit == Init => Queues /\ Current
<1> SUFFICES ASSUME Init PROVE Queues /\ Current
  OBVIOUS
<1>1. /\ toWorker = [w \in Worker |-> << >>] /\ toSup = [w \in Worker |-> << >>]
      /\ wdef = [w \in Worker |-> OwnDef] /\ mem = [w \in Worker |-> {}] /\ pc = "start"
  BY DEF Init, RunnerInit, ExecutorInit
<1>2. Len(<< >>) = 0 /\ \A i \in 1..0 : FALSE
  OBVIOUS
<1>3. Solid(<< >>) /\ Dated(<< >>, OwnDef)
  BY <1>2 DEF Solid, Dated
<1> QED BY <1>1, <1>3 DEF Queues, Current, Looping

\* A results file holds what its worker has processed.
LEMMA WorkerFile ==
  ASSUME NEW w \in Worker, Works(w)
  PROVE  file' = file \/ (CloseFile(w) /\ file' = [file EXCEPT ![w] = mem[w]])
<1>1. CASE Connect(w) \/ ReceiveInit(w) \/ StopBeforeInit(w) \/ ReceiveSetDef(w) \/ ReceiveTask(w) \/ ReceiveBatch(w)
  BY <1>1 DEF Connect, ReceiveInit, StopBeforeInit, ReceiveSetDef, ReceiveTask, ReceiveBatch
<1>2. CASE ReceiveStop(w) \/ StopInsideBatch(w) \/ CloseFile(w) \/ Exit(w)
  BY <1>2 DEF ReceiveStop, StopInsideBatch, CloseFile, Exit
<1>3. CASE GiveUpInit(w, Over) \/ WorkerFault(w)
  BY <1>3 DEF GiveUpInit, WorkerFault, TaskThrows, AckFails, Interrupt, Crash
<1> QED BY <1>1, <1>2, <1>3 DEF Works, WorkerStep

LEMMA SupervisorFile ==
  ASSUME Supervises
  PROVE  file' = file
<1>1. CASE StartStep \/ Deadline \/ UserInterrupt
  BY <1>1 DEF StartStep, StartReady, StartTcp, InitTcpWorker, StartDrops, InitReceive, StartDone, Deadline,
              InitTimeout, StartTimeout, GraceExpires, InactiveTcpWorker, Stall, FinishTimeout, UserInterrupt, workers
<1>2. CASE LoopStep
  BY <1>2 DEF LoopStep, StartDefinition, LoopTop, LoopFails, LoopEnd, Dispatch, DispatchDone, Cleanup,
              NothingReceived, ChildExited, IdleDone, workers
<1>3. CASE FinishStep
  BY <1>3 DEF FinishStep, SendStop, WaitChildren, FinishReceive, FinishDone, Merge, workers
<1>4. CASE \E w \in Worker : Receive(w)
  BY <1>4 DEF Receive, ReceiveReady, ReceiveInitAck, ReceiveShutdown, ReceiveDone, ReceiveAck, ReceiveErr, workers
<1> QED BY <1>1, <1>2, <1>3, <1>4 DEF Supervises, SupervisorStep

Files == file \in [Worker -> {NoFile} \cup SUBSET Work]

LEMMA FilesNext ==
  ASSUME Queues, Files, [Next]_vars
  PROVE  Files'
<1>1. CASE UNCHANGED vars
  BY <1>1 DEF vars, Files
<1>2. CASE Supervises
  BY <1>2, SupervisorFile DEF Files
<1>3. CASE \E w \in Worker : Works(w)
  <2>1. PICK w \in Worker : Works(w)
    BY <1>3
  <2>2. mem[w] \in SUBSET Work
    BY DEF Queues
  <2> QED BY <2>1, <2>2, WorkerFile DEF Files
<1> QED BY <1>1, <1>2, <1>3, NextCases

\* Messages and records have the shape the two sides expect, and the counters
\* of type size_t never wrap below zero (ExecuteCurrentBoundsProcessIpc, TaskLoop).
THEOREM SessionTypeOK == Spec => []TypeOK
<1> DEFINE I == Inv /\ Queues /\ Current /\ Files
<1>1. Init => I
  <2>1. Init => Files
    BY DEF Init, RunnerInit, Files
  <2> QED BY <2>1, InitInv, QueuesInit
<1>2. I /\ [Next]_vars => I'
  BY NextInv, QueuesNext, FilesNext
<1>3. I => TypeOK
  <2> SUFFICES ASSUME I PROVE TypeOK
    OBVIOUS
  <2>1. sup \in Sups /\ Sound(sup.mgr) /\ Range(sup.vec) \subseteq sup.registered
    BY Listed DEF Inv, Books
  <2>2. M!TypeOK
    BY <2>1 DEF Sound, M!TypeOK, mgr
  <2> QED BY <2>1, <2>2, SupTypes DEF TypeOK, Queues, Files, CatchUpsSucceed
<1> QED BY <1>1, <1>2, <1>3, PTL DEF Spec

-----------------------------------------------------------------------------
(* What is on its way is the worker's *)

\* What worker w has acknowledged it has processed, and it has processed
\* nothing it was not given: r is what it has sent, k its memory.
Remembers(s, w, r, k) ==
  /\ \A t \in Cargo(r) : <<s.def, t>> \in k
  /\ \A e \in k : e[1] <= s.def /\ (e[1] = s.def => e[2] \in s.history[w])
  /\ \A t \in s.mgr.fDone \cap s.history[w] : <<s.def, t>> \in k

\* The messages of one registered worker, and what it has processed, agree
\* with the books in s: q is what it will read, r what it has sent, d0 its
\* definition and k its memory.
Agrees(s, w, q, r, d0, k) ==
  /\ Apart(q) /\ Apart(r) /\ Cargo(q) \cap Cargo(r) = {}
  /\ \A t \in Cargo(q) \cup Cargo(r) : s.mgr.fTaskToWorker[t] = w
  /\ \A i \in 1..Len(q) : IsTask(q[i]) => Under(q, d0, i, s.def)
  /\ CatchUpsSucceed => Remembers(s, w, r, k)

Own == \A w \in sup.registered : Agrees(sup, w, toWorker[w], toSup[w], wdef[w], mem[w])

\* No task was processed by two registered workers.
Shared == CatchUpsSucceed => \A w, v \in sup.registered : w # v => mem[w] \cap mem[v] = {}

\* A worker that has not joined has no task.
Youngs ==
  \A w \in Worker : Young(w) => mem[w] = {} /\ Cargo(toWorker[w]) = {} /\ Cargo(toSup[w]) = {}

Rest == pc \in Resting => M!Running(sup.mgr) = {}

\* A message without tasks is added.
LEMMA AgreesTold ==
  ASSUME NEW s, NEW w, NEW q \in Seq(Messages), NEW r, NEW d0, NEW k, Agrees(s, w, q, r, d0, k),
         NEW m \in Messages, m.cmd \in {"INIT", "STOP", "SETDEF"}, NEW p, p = Append(q, m)
  PROVE  Agrees(s, w, p, r, d0, k) /\ Cargo(p) = Cargo(q)
<1>1. Load(m) = {} /\ ~IsTask(m)
  BY DEF Load, IsTask
<1>2. Cargo(p) = Cargo(q) /\ Apart(p)
  <2>1. Apart(q)
    BY DEF Agrees
  <2>2. /\ Cargo(Append(q, m)) = Cargo(q) \cup Load(m)
        /\ Apart(q) /\ Cargo(q) \cap Load(m) = {} => Apart(Append(q, m))
    BY AppendMessage
  <2>3. Cargo(q) \cup Load(m) = Cargo(q) /\ Cargo(q) \cap Load(m) = {}
    BY <1>1
  <2> QED BY <2>1, <2>2, <2>3
<1>3. ASSUME NEW i \in 1..Len(p), IsTask(p[i]) PROVE Under(p, d0, i, s.def)
  <2>1. Len(q) \in Nat /\ Len(p) = Len(q) + 1 /\ p[Len(q) + 1] = m /\ \A j \in 1..Len(q) : p[j] = q[j]
    OBVIOUS
  <2>2. i \in 1..Len(q) /\ i \in 1..(Len(q) + 1) /\ IsTask(q[i])
    BY <1>1, <1>3, <2>1
  <2>3. Under(q, d0, i, s.def)
    BY <2>2 DEF Agrees
  <2> QED BY <2>2, <2>3, UnderAppend
<1>4. Agrees(s, w, p, r, d0, k)
  <2>1. /\ Apart(p) /\ Apart(r) /\ Cargo(p) \cap Cargo(r) = {}
        /\ \A t \in Cargo(p) \cup Cargo(r) : s.mgr.fTaskToWorker[t] = w
    BY <1>2 DEF Agrees
  <2>2. CatchUpsSucceed => Remembers(s, w, r, k)
    BY DEF Agrees
  <2> QED BY <1>3, <2>1, <2>2 DEF Agrees
<1> QED BY <1>2, <1>4

\* The first message is taken.
LEMMA AgreesTaken ==
  ASSUME NEW s, NEW w, NEW q, NEW r \in Seq(Messages), r # << >>, NEW d0, NEW k, Agrees(s, w, q, r, d0, k)
  PROVE  Agrees(s, w, q, Tail(r), d0, k) /\ Cargo(Tail(r)) \subseteq Cargo(r)
<1>1. Cargo(Tail(r)) \subseteq Cargo(r) /\ (Apart(r) => Apart(Tail(r)))
  BY TailMessages
<1> QED BY <1>1 DEF Agrees, Remembers

\* The books change, but not for the tasks of w.
LEMMA AgreesElsewhere ==
  ASSUME NEW s, NEW n, NEW w, NEW q, NEW r, NEW d0, NEW k, Agrees(s, w, q, r, d0, k),
         n.def = s.def, \A t \in Cargo(q) \cup Cargo(r) : n.mgr.fTaskToWorker[t] = s.mgr.fTaskToWorker[t],
         s.history[w] \subseteq n.history[w],
         CatchUpsSucceed =>
           \A t \in n.mgr.fDone \cap n.history[w] : t \in s.mgr.fDone \cap s.history[w] \/ <<s.def, t>> \in k
  PROVE  Agrees(n, w, q, r, d0, k)
<1>1. CatchUpsSucceed => Remembers(n, w, r, k)
  BY DEF Agrees, Remembers
<1> QED BY <1>1 DEF Agrees

\* w gets a message m of tasks; s are the books before, n those after.
Gives(s, n, w, q, r, d0, m, p) ==
  LET C == Load(m)
  IN /\ q \in Seq(Messages) /\ m \in Messages /\ p = Append(q, m)
     /\ C \cap (Cargo(q) \cup Cargo(r)) = {} /\ Under(q, d0, Len(q) + 1, s.def) /\ n.def = s.def
     /\ \A t \in Cargo(q) \cup Cargo(r) : n.mgr.fTaskToWorker[t] = s.mgr.fTaskToWorker[t]
     /\ \A t \in C : n.mgr.fTaskToWorker[t] = w
     /\ n.history[w] = s.history[w] \cup C /\ n.mgr.fDone = s.mgr.fDone /\ C \cap s.mgr.fDone = {}

LEMMA AgreesGiven ==
  ASSUME NEW s, NEW n, NEW w, NEW q, NEW r, NEW d0, NEW k, Agrees(s, w, q, r, d0, k),
         NEW m, NEW p, Gives(s, n, w, q, r, d0, m, p)
  PROVE  Agrees(n, w, p, r, d0, k)
<1> DEFINE C == Load(m)
<1>0. /\ q \in Seq(Messages) /\ m \in Messages /\ p = Append(q, m)
      /\ C \cap (Cargo(q) \cup Cargo(r)) = {} /\ Under(q, d0, Len(q) + 1, s.def) /\ n.def = s.def
      /\ \A t \in Cargo(q) \cup Cargo(r) : n.mgr.fTaskToWorker[t] = s.mgr.fTaskToWorker[t]
      /\ \A t \in C : n.mgr.fTaskToWorker[t] = w
      /\ n.history[w] = s.history[w] \cup C /\ n.mgr.fDone = s.mgr.fDone /\ C \cap s.mgr.fDone = {}
  BY DEF Gives
<1>1. Cargo(p) = Cargo(q) \cup C /\ Apart(p)
  <2>1. Apart(q)
    BY DEF Agrees
  <2>2. /\ Cargo(Append(q, m)) = Cargo(q) \cup Load(m)
        /\ Apart(q) /\ Cargo(q) \cap Load(m) = {} => Apart(Append(q, m))
    BY <1>0, AppendMessage
  <2>3. Cargo(q) \cap Load(m) = {}
    BY <1>0
  <2> QED BY <1>0, <2>1, <2>2, <2>3
<1>2. ASSUME NEW i \in 1..Len(p), IsTask(p[i]) PROVE Under(p, d0, i, s.def)
  <2>1. Len(q) \in Nat /\ Len(p) = Len(q) + 1 /\ p[Len(q) + 1] = m /\ \A j \in 1..Len(q) : p[j] = q[j]
    BY <1>0
  <2>2. i \in 1..(Len(q) + 1) /\ (i = Len(q) + 1 \/ (i \in 1..Len(q) /\ IsTask(q[i])))
    BY <1>2, <2>1
  <2>3. Under(q, d0, i, s.def)
    BY <1>0, <2>2 DEF Agrees
  <2> QED BY <1>0, <2>2, <2>3, UnderAppend
<1>3. Apart(r) /\ Cargo(p) \cap Cargo(r) = {}
  BY <1>0, <1>1 DEF Agrees
<1>4. \A t \in Cargo(p) \cup Cargo(r) : n.mgr.fTaskToWorker[t] = w
  BY <1>0, <1>1 DEF Agrees
<1>5. CatchUpsSucceed => Remembers(n, w, r, k)
  BY <1>0 DEF Agrees, Remembers
<1> HIDE DEF C
<1> QED BY <1>0, <1>1, <1>2, <1>3, <1>4, <1>5 DEF Agrees

\* w reads a message, processes the tasks of S, and sends what it sends.
Reads(q, r, d0, k, S, L, C, p, o, e, j) ==
  /\ q \in Seq(Messages) /\ q # << >> /\ p = Tail(q)
  /\ S \in SUBSET Load(Head(q)) /\ (S # {} => IsTask(Head(q)))
  /\ Sent(o, r, S, L, C) /\ e = IF Head(q).cmd = "SETDEF" THEN Head(q).def ELSE d0
  /\ j = k \cup {<<d0, t>> : t \in S}

LEMMA AgreesRead ==
  ASSUME NEW s, NEW w, NEW q, NEW r, NEW d0, NEW k, Agrees(s, w, q, r, d0, k),
         \A t \in Cargo(q) : t \in s.history[w], s.def \in Nat,
         NEW S, NEW L, NEW C, NEW p, NEW o, NEW e, NEW j, Reads(q, r, d0, k, S, L, C, p, o, e, j)
  PROVE  Agrees(s, w, p, o, e, j)
<1> DEFINE h == Head(q)
<1>0. /\ q \in Seq(Messages) /\ q # << >> /\ p = Tail(q) /\ h = Head(q)
      /\ S \in SUBSET Load(h) /\ (S # {} => IsTask(h))
      /\ Sent(o, r, S, L, C) /\ e = IF h.cmd = "SETDEF" THEN h.def ELSE d0
      /\ j = k \cup {<<d0, t>> : t \in S}
  BY DEF Reads
<1> HIDE DEF h
<1>1. /\ Apart(q) /\ Apart(r) /\ Cargo(q) \cap Cargo(r) = {}
      /\ \A t \in Cargo(q) \cup Cargo(r) : s.mgr.fTaskToWorker[t] = w
  BY DEF Agrees
<1>2. /\ Cargo(q) = Load(h) \cup Cargo(p) /\ Apart(p) /\ Load(h) \cap Cargo(p) = {}
  BY <1>0, <1>1, TailMessages
<1>3. Cargo(o) \subseteq Cargo(r) \cup S /\ Apart(o)
  <2>1. Cargo(r) \cap S = {}
    BY <1>0, <1>1, <1>2
  <2> QED BY <1>0, <1>1, <2>1 DEF Sent
<1>4. Cargo(p) \cap Cargo(o) = {} /\ \A t \in Cargo(p) \cup Cargo(o) : s.mgr.fTaskToWorker[t] = w
  BY <1>0, <1>1, <1>2, <1>3
<1>5. ASSUME NEW i \in 1..Len(p), IsTask(p[i]) PROVE Under(p, e, i, s.def)
  <2>1. i + 1 \in 1..Len(q) /\ i \in 1..Len(q) /\ p[i] = q[i + 1]
    BY <1>0
  <2>2. Under(q, d0, i + 1, s.def)
    BY <1>5, <2>1 DEF Agrees
  <2> QED BY <1>0, <2>1, <2>2, UnderTail
<1>6. CatchUpsSucceed => (S # {} => d0 = s.def)
  <2>1. 1 \in 1..Len(q) /\ h = q[1] /\ \A i \in 1..(1 - 1) : FALSE
    BY <1>0
  <2>2. S # {} => Under(q, d0, 1, s.def)
    BY <1>0, <2>1 DEF Agrees
  <2> QED BY <2>1, <2>2 DEF Under
<1>7. ASSUME CatchUpsSucceed PROVE Remembers(s, w, o, j)
  <2>0. Remembers(s, w, r, k)
    BY <1>7 DEF Agrees
  <2>1. \A t \in Cargo(o) : <<s.def, t>> \in j
    BY <1>0, <1>3, <1>6, <1>7, <2>0 DEF Remembers
  <2>2. \A x \in k : x[1] <= s.def /\ (x[1] = s.def => x[2] \in s.history[w])
    BY <2>0 DEF Remembers
  <2>3. ASSUME NEW t \in S PROVE <<d0, t>>[1] <= s.def /\ <<d0, t>>[2] \in s.history[w]
    BY <1>0, <1>2, <1>6, <1>7
  <2>4. \A x \in j : x[1] <= s.def /\ (x[1] = s.def => x[2] \in s.history[w])
    BY <1>0, <2>2, <2>3
  <2>5. \A t \in s.mgr.fDone \cap s.history[w] : <<s.def, t>> \in j
    BY <1>0, <2>0 DEF Remembers
  <2> QED BY <2>1, <2>4, <2>5 DEF Remembers
<1> QED BY <1>1, <1>2, <1>3, <1>4, <1>5, <1>7 DEF Agrees

\* w reads nothing.
LEMMA AgreesSent ==
  ASSUME NEW s, NEW w, NEW q, NEW r, NEW d0, NEW k, Agrees(s, w, q, r, d0, k),
         NEW o, NEW L, NEW C, Sent(o, r, {}, L, C)
  PROVE  Agrees(s, w, q, o, d0, k)
<1>1. Cargo(o) \subseteq Cargo(r) /\ (Apart(r) => Apart(o))
  BY DEF Sent
<1>2. CatchUpsSucceed => Remembers(s, w, o, k)
  BY <1>1 DEF Agrees, Remembers
<1> QED BY <1>1, <1>2 DEF Agrees

\* What a step of a worker leaves of its queues and its memory.
LEMMA MovesFacts ==
  ASSUME Typed, Queues, NEW w \in Worker, NEW S, NEW C, Moves(w, S, C)
  PROVE  /\ \A v \in Worker : v # w => /\ toWorker'[v] = toWorker[v] /\ toSup'[v] = toSup[v]
                                       /\ wdef'[v] = wdef[v] /\ mem'[v] = mem[v]
         /\ S \subseteq Cargo(toWorker[w]) /\ Cargo(toWorker'[w]) \subseteq Cargo(toWorker[w])
         /\ Cargo(toSup'[w]) \subseteq Cargo(toSup[w]) \cup S
         /\ Leads(toWorker'[w]) \cup Leads(toSup'[w]) \subseteq Leads(toWorker[w]) \cup Leads(toSup[w])
         /\ mem'[w] = mem[w] \cup {<<wdef[w], t>> : t \in S}
         /\ \A c \in {"READY", "DONE"} \ C : Carries(toSup'[w], c) => Carries(toSup[w], c)
<1>0. /\ toWorker[w] \in Seq(Messages) /\ Solid(toWorker[w])
      /\ mem \in [Worker -> SUBSET Work] /\ wdef \in [Worker -> {OwnDef} \cup Defs]
  BY DEF Typed, Queues
<1>1. mem'[w] = mem[w] \cup {<<wdef[w], t>> : t \in S} /\ \A v \in Worker : v # w => mem'[v] = mem[v]
  <2> DEFINE E == {<<wdef[w], t>> : t \in S}
  <2>1. (mem' = mem /\ S = {}) \/ mem' = [mem EXCEPT ![w] = @ \cup E]
    BY DEF Moves
  <2>2. S = {} => E = {}
    OBVIOUS
  <2> HIDE DEF E
  <2>3. mem'[w] = mem[w] \cup E /\ \A v \in Worker : v # w => mem'[v] = mem[v]
    BY <1>0, <2>1, <2>2
  <2> QED BY <2>3 DEF E
<1>2. \A v \in Worker : v # w => toWorker'[v] = toWorker[v] /\ toSup'[v] = toSup[v] /\ wdef'[v] = wdef[v]
  BY <1>0 DEF Moves
<1>3. CASE S = {} /\ toWorker'[w] = toWorker[w] /\ wdef' = wdef /\ Sent(toSup'[w], toSup[w], {}, {}, C)
  BY <1>1, <1>2, <1>3 DEF Sent
<1>4. CASE /\ toWorker[w] # << >> /\ toWorker'[w] = Tail(toWorker[w])
           /\ S \subseteq Load(Head(toWorker[w])) /\ (S # {} => IsTask(Head(toWorker[w])))
           /\ Solid(toWorker[w]) => Sent(toSup'[w], toSup[w], S, Lead(Head(toWorker[w])), C)
  <2>1. /\ Cargo(toWorker[w]) = Load(Head(toWorker[w])) \cup Cargo(Tail(toWorker[w]))
        /\ Leads(toWorker[w]) = Lead(Head(toWorker[w])) \cup Leads(Tail(toWorker[w]))
    BY <1>0, <1>4, TailMessages
  <2>2. Sent(toSup'[w], toSup[w], S, Lead(Head(toWorker[w])), C)
    BY <1>0, <1>4
  <2>3. /\ S \subseteq Cargo(toWorker[w]) /\ Cargo(toWorker'[w]) \subseteq Cargo(toWorker[w])
        /\ Cargo(toSup'[w]) \subseteq Cargo(toSup[w]) \cup S
        /\ Leads(toWorker'[w]) \cup Leads(toSup'[w]) \subseteq Leads(toWorker[w]) \cup Leads(toSup[w])
    BY <1>4, <2>1, <2>2 DEF Sent
  <2>4. \A c \in {"READY", "DONE"} \ C : Carries(toSup'[w], c) => Carries(toSup[w], c)
    BY <2>2 DEF Sent
  <2> QED BY <1>1, <1>2, <2>3, <2>4
<1> QED BY <1>3, <1>4 DEF Moves

\* No worker goes back to before it connected.
LEMMA WorkerStays ==
  ASSUME Typed, NEW w \in Worker, Works(w)
  PROVE  \A v \in Worker : (wpc'[v] = "off" => wpc[v] = "off") /\ (v # w => wpc'[v] = wpc[v])
<1>0. wpc \in [Worker -> WorkerStates]
  BY DEF Typed
<1>1. wpc' = wpc \/ \E p \in WorkerStates \ {"off"} : Goes(w, p)
  <2>1. CASE Connect(w)
    BY <2>1 DEF Connect, WorkerStates
  <2>2. CASE ReceiveInit(w) \/ StopBeforeInit(w) \/ ReceiveSetDef(w) \/ ReceiveTask(w) \/ ReceiveBatch(w)
    BY <2>2 DEF ReceiveInit, StopBeforeInit, ReceiveSetDef, ReceiveTask, ReceiveBatch, WorkerStates
  <2>3. CASE ReceiveStop(w) \/ StopInsideBatch(w)
    <3>1. Goes(w, "closed") \/ Goes(w, "closing")
      <4>1. CASE ReceiveStop(w)
        BY <4>1 DEF ReceiveStop
      <4>2. CASE StopInsideBatch(w)
        <5>1. \E p : Goes(w, IF Tail(toWorker[w])[p].abort THEN "closed" ELSE "closing")
          BY <4>2 DEF StopInsideBatch
        <5> QED BY <5>1
      <4> QED BY <2>3, <4>1, <4>2
    <3> QED BY <3>1 DEF WorkerStates
  <2>4. CASE CloseFile(w) \/ Exit(w) \/ GiveUpInit(w, Over) \/ WorkerFault(w)
    BY <2>4 DEF CloseFile, Exit, GiveUpInit, WorkerFault, TaskThrows, AckFails, Interrupt, Crash, WorkerStates
  <2> QED BY <2>1, <2>2, <2>3, <2>4 DEF Works, WorkerStep
<1> QED BY <1>0, <1>1 DEF Goes

\* The tasks that are on their way run, and are in the worker's history.
LEMMA OwnRuns ==
  ASSUME Inv, Own, NEW w \in sup.registered, NEW t \in Cargo(toWorker[w]) \cup Cargo(toSup[w])
  PROVE  /\ t \in M!Running(sup.mgr) /\ t \notin sup.mgr.fDone /\ sup.mgr.fTaskToWorker[t] = w
         /\ t \in sup.history[w] /\ \A v \in Worker : t \in sup.history[v] => v = w
<1>1. w \in Worker /\ toWorker[w] \in Seq(Messages) /\ toSup[w] \in Seq(Messages) /\ Sound(sup.mgr) /\ sup \in Sups
  BY Listed DEF Inv, Typed, Books
<1>2. t \in TaskId /\ sup.mgr.fTaskToWorker[t] = w
  <2>1. Cargo(toWorker[w]) \in SUBSET TaskId /\ Cargo(toSup[w]) \in SUBSET TaskId
    BY <1>1, CargoTypes
  <2> QED BY <2>1 DEF Own, Agrees
<1>3. t \in M!Running(sup.mgr) /\ t \notin sup.mgr.fDone
  BY <1>1, <1>2, Assigned, InABucket
<1>4. Only(sup, w, t)
  BY <1>2, <1>3 DEF Inv, Books, Replayable
<1> QED BY <1>1, <1>2, <1>3, <1>4 DEF Only

LEMMA WorkerOwns ==
  ASSUME Inv, Queues, Own, Shared, Youngs, Rest, NEW w \in Worker, Works(w), NEW S, NEW C, Moves(w, S, C)
  PROVE  Own' /\ Shared' /\ Youngs' /\ Rest'
<1>0. /\ Typed /\ sup' = sup /\ pc' = pc /\ sup.registered \in SUBSET Worker /\ sup \in Sups
      /\ toWorker[w] \in Seq(Messages) /\ toSup[w] \in Seq(Messages) /\ sup.def \in Nat
  <2>1. sup.def \in Nat
    BY Listed, SupTypes, ExecutorConstants
  <2> QED BY <2>1, Listed DEF Inv, Typed, Works, supervisor
<1>1. /\ \A v \in Worker : v # w => /\ toWorker'[v] = toWorker[v] /\ toSup'[v] = toSup[v]
                                    /\ wdef'[v] = wdef[v] /\ mem'[v] = mem[v]
      /\ S \subseteq Cargo(toWorker[w]) /\ Cargo(toWorker'[w]) \subseteq Cargo(toWorker[w])
      /\ Cargo(toSup'[w]) \subseteq Cargo(toSup[w]) \cup S
      /\ mem'[w] = mem[w] \cup {<<wdef[w], t>> : t \in S}
      /\ \A c \in {"READY", "DONE"} \ C : Carries(toSup'[w], c) => Carries(toSup[w], c)
  BY <1>0, MovesFacts
<1>2. ASSUME w \in sup.registered
      PROVE  Agrees(sup, w, toWorker'[w], toSup'[w], wdef'[w], mem'[w])
  <2>1. Agrees(sup, w, toWorker[w], toSup[w], wdef[w], mem[w]) /\ \A t \in Cargo(toWorker[w]) : t \in sup.history[w]
    BY <1>2, OwnRuns DEF Own
  <2>2. CASE S = {} /\ toWorker'[w] = toWorker[w] /\ wdef' = wdef /\ Sent(toSup'[w], toSup[w], {}, {}, C)
    <3>1. mem'[w] = mem[w]
      BY <1>1, <2>2
    <3>2. Agrees(sup, w, toWorker[w], toSup'[w], wdef[w], mem[w])
      BY <2>1, <2>2, AgreesSent
    <3> QED BY <2>2, <3>1, <3>2
  <2>3. CASE /\ toWorker[w] # << >> /\ toWorker'[w] = Tail(toWorker[w])
             /\ S \subseteq Load(Head(toWorker[w])) /\ (S # {} => IsTask(Head(toWorker[w])))
             /\ wdef' = IF Head(toWorker[w]).cmd = "SETDEF"
                        THEN [wdef EXCEPT ![w] = Head(toWorker[w]).def] ELSE wdef
             /\ Solid(toWorker[w]) => Sent(toSup'[w], toSup[w], S, Lead(Head(toWorker[w])), C)
    <3> DEFINE L == Lead(Head(toWorker[w]))
    <3>1. /\ Sent(toSup'[w], toSup[w], S, L, C)
          /\ wdef'[w] = IF Head(toWorker[w]).cmd = "SETDEF" THEN Head(toWorker[w]).def ELSE wdef[w]
      BY <2>3 DEF Queues
    <3>2. toWorker[w] \in Seq(Messages) /\ sup.def \in Nat /\ S \in SUBSET Load(Head(toWorker[w]))
      BY <1>0, <2>3
    <3> HIDE DEF L
    <3>3. Reads(toWorker[w], toSup[w], wdef[w], mem[w], S, L, C, toWorker'[w], toSup'[w], wdef'[w], mem'[w])
      BY <1>1, <2>3, <3>1, <3>2 DEF Reads
    <3> QED BY <2>1, <3>2, <3>3, AgreesRead
  <2> QED BY <2>2, <2>3 DEF Moves
<1>3. Own'
  <2>1. ASSUME NEW v \in sup.registered PROVE Agrees(sup, v, toWorker'[v], toSup'[v], wdef'[v], mem'[v])
    <3>1. CASE v = w
      BY <1>2, <3>1
    <3>2. CASE v # w
      <4>1. v \in Worker
        BY <1>0
      <4>2. Agrees(sup, v, toWorker[v], toSup[v], wdef[v], mem[v])
        BY DEF Own
      <4> QED BY <1>1, <3>2, <4>1, <4>2
    <3> QED BY <3>1, <3>2
  <2> QED BY <1>0, <2>1 DEF Own
<1>4. Shared'
  <2>1. ASSUME CatchUpsSucceed, NEW v \in sup.registered, v # w, w \in sup.registered
        PROVE  mem'[w] \cap mem'[v] = {}
    <3>1. mem[w] \cap mem[v] = {} /\ mem'[v] = mem[v] /\ v \in Worker
      BY <1>0, <1>1, <2>1 DEF Shared
    <3>2. ASSUME NEW t \in S PROVE <<wdef[w], t>> \notin mem[v]
      <4>1. t \in Cargo(toWorker[w]) /\ \A u \in Worker : t \in sup.history[u] => u = w
        BY <1>1, <2>1, OwnRuns
      <4>2. <<sup.def, t>> \notin mem[v]
        <5>1. <<sup.def, t>> \in mem[v] => <<sup.def, t>>[2] \in sup.history[v]
          BY <2>1 DEF Own, Agrees, Remembers
        <5> QED BY <2>1, <3>1, <4>1, <5>1
      <4>3. wdef[w] = sup.def
        <5>1. <<wdef[w], t>> \in mem'[w]
          BY <1>1
        <5>2. toWorker[w] # << >> /\ S \subseteq Load(Head(toWorker[w])) /\ IsTask(Head(toWorker[w]))
          BY DEF Moves
        <5>3. 1 \in 1..Len(toWorker[w]) /\ Head(toWorker[w]) = toWorker[w][1] /\ \A i \in 1..(1 - 1) : FALSE
          BY <1>0, <5>2
        <5>4. Under(toWorker[w], wdef[w], 1, sup.def)
          BY <2>1, <5>2, <5>3 DEF Own, Agrees
        <5> QED BY <2>1, <5>3, <5>4 DEF Under
      <4> QED BY <4>2, <4>3
    <3> QED BY <1>1, <3>1, <3>2
  <2>2. ASSUME CatchUpsSucceed, NEW u \in sup.registered, NEW v \in sup.registered, u # v
        PROVE  mem'[u] \cap mem'[v] = {}
    <3>1. CASE u = w
      BY <2>1, <2>2, <3>1
    <3>2. CASE v = w
      BY <2>1, <2>2, <3>2
    <3>3. CASE u # w /\ v # w
      BY <1>0, <1>1, <2>2, <3>3 DEF Shared
    <3> QED BY <3>1, <3>2, <3>3
  <2> QED BY <1>0, <2>2 DEF Shared
<1>5. Youngs'
  <2>0. \A v \in Worker : (wpc'[v] = "off" => wpc[v] = "off") /\ (v # w => wpc'[v] = wpc[v])
    BY <1>0, WorkerStays
  <2>1. ASSUME NEW v \in Worker, wpc'[v] = "off" \/ Carries(toSup'[v], "READY") \/ Waiting(sup, v)
        PROVE  Young(v)
    <3>1. CASE v = w
      <4>1. "READY" \in C => wpc[w] = "off"
        BY DEF Moves
      <4> QED BY <1>1, <2>0, <2>1, <3>1, <4>1 DEF Young
    <3>2. CASE v # w
      BY <1>1, <2>0, <2>1, <3>2 DEF Young
    <3> QED BY <3>1, <3>2
  <2>2. ASSUME NEW v \in Worker, Young(v)
        PROVE  mem'[v] = {} /\ Cargo(toWorker'[v]) = {} /\ Cargo(toSup'[v]) = {}
    <3>1. mem[v] = {} /\ Cargo(toWorker[v]) = {} /\ Cargo(toSup[v]) = {}
      BY <2>2 DEF Youngs
    <3>2. CASE v = w
      <4>1. S = {}
        BY <1>1, <3>1, <3>2
      <4> QED BY <1>1, <3>1, <3>2, <4>1
    <3>3. CASE v # w
      BY <1>1, <3>1, <3>3
    <3> QED BY <3>2, <3>3
  <2>3. \A v \in Worker : (wpc'[v] = "off" \/ Carries(toSup'[v], "READY") \/ Waiting(sup, v)) =>
          mem'[v] = {} /\ Cargo(toWorker'[v]) = {} /\ Cargo(toSup'[v]) = {}
    BY <2>1, <2>2
  <2>4. \A v \in Worker : Young(v)' => wpc'[v] = "off" \/ Carries(toSup'[v], "READY") \/ Waiting(sup, v)
    BY <1>0 DEF Young, Carries, Waiting
  <2>5. \A v \in Worker : Young(v)' => mem'[v] = {} /\ Cargo(toWorker'[v]) = {} /\ Cargo(toSup'[v]) = {}
    BY <2>3, <2>4
  <2> QED BY <2>5 DEF Youngs
<1>6. Rest'
  BY <1>0 DEF Rest
<1> QED BY <1>3, <1>4, <1>5, <1>6

\* No task is on its way, and none of the definition was processed or is done.
LEMMA AgreesEmpty ==
  ASSUME NEW s, NEW w, NEW q \in Seq(Messages), NEW r, NEW d0, NEW k, Solid(q), Cargo(q) = {}, Cargo(r) = {},
         s.def \in Nat, \A e \in k : CatchUpsSucceed => e[1] \in Nat /\ e[1] < s.def,
         s.mgr.fDone \cap s.history[w] = {}
  PROVE  Agrees(s, w, q, r, d0, k)
<1>1. Apart(q) /\ Apart(r)
  BY DEF Apart, Cargo
<1>2. ASSUME NEW i \in 1..Len(q), IsTask(q[i]) PROVE FALSE
  <2>1. q[i].ids \in Seq(TaskId) /\ q[i].ids # << >> /\ Load(q[i]) = Range(q[i].ids)
    BY <1>2, MessageFields DEF IsTask, Load, Solid
  <2>2. \A g \in Seq(TaskId) : g # << >> => Range(g) # {}
    <3> SUFFICES ASSUME NEW g \in Seq(TaskId), g # << >> PROVE Range(g) # {}
      OBVIOUS
    <3>1. 1 \in DOMAIN g
      OBVIOUS
    <3> QED BY <3>1 DEF Range
  <2> QED BY <2>1, <2>2 DEF Cargo
<1>3. \A e \in k : CatchUpsSucceed => e[1] <= s.def /\ e[1] # s.def
  OBVIOUS
<1>4. CatchUpsSucceed => Remembers(s, w, r, k)
  BY <1>3 DEF Remembers
<1> QED BY <1>1, <1>2, <1>4 DEF Agrees

\* A worker of the team has told the supervisor so.
LEMMA TeamIsNotYoung ==
  ASSUME Inv, NEW w \in Range(sup.vec)
  PROVE  ~Young(w)
<1>1. w \in Worker /\ Known(sup, w)
  BY Listed DEF Known
<1>2. wpc[w] # "off" /\ ~Carries(toSup[w], "READY")
  <2>1. Heard(sup, w, wpc[w], toSup[w])
    BY <1>1 DEF Inv, Joins
  <2> QED BY <1>1, <2>1 DEF Heard, Carries
<1>3. ~Waiting(sup, w)
  BY <1>1 DEF Inv, Joins, Stages, Waiting
<1> QED BY <1>2, <1>3 DEF Young

\* The supervisor's step for a worker whose tasks it does not touch.
LEMMA SupervisorTells ==
  ASSUME Inv, Steady, NEW v \in Worker, NEW s, Agrees(s, v, toWorker[v], toSup[v], wdef[v], mem[v]),
         \/ toWorker'[v] = toWorker[v]
         \/ \E m \in Messages : m.cmd \in {"INIT", "STOP", "SETDEF"} /\ toWorker'[v] = Append(toWorker[v], m)
  PROVE  Agrees(s, v, toWorker'[v], toSup'[v], wdef'[v], mem'[v])
<1>1. /\ toWorker[v] \in Seq(Messages) /\ toSup[v] \in Seq(Messages) /\ wdef' = wdef /\ mem' = mem
      /\ toSup'[v] = toSup[v] \/ (toSup[v] # << >> /\ toSup'[v] = Tail(toSup[v]))
  BY DEF Inv, Typed, Steady
<1>2. Agrees(s, v, toWorker[v], toSup'[v], wdef[v], mem[v])
  BY <1>1, AgreesTaken
<1>3. CASE toWorker'[v] = toWorker[v]
  BY <1>1, <1>2, <1>3
<1>4. CASE \E m \in Messages : m.cmd \in {"INIT", "STOP", "SETDEF"} /\ toWorker'[v] = Append(toWorker[v], m)
  <2>1. PICK m \in Messages : m.cmd \in {"INIT", "STOP", "SETDEF"} /\ toWorker'[v] = Append(toWorker[v], m)
    BY <1>4
  <2>2. Agrees(s, v, toWorker'[v], toSup'[v], wdef[v], mem[v])
    BY ONLY <1>1, <1>2, <2>1, AgreesTold
  <2> QED BY <1>1, <2>2
<1> QED BY <1>3, <1>4

LEMMA ToldTells ==
  ASSUME NEW v \in Worker, Told(v) \/ \E d \in Defs : toWorker'[v] = Append(toWorker[v], SetDef(d))
  PROVE  \/ toWorker'[v] = toWorker[v]
         \/ \E m \in Messages : m.cmd \in {"INIT", "STOP", "SETDEF"} /\ toWorker'[v] = Append(toWorker[v], m)
<1>1. CASE Told(v)
  <2>1. \/ toWorker'[v] = toWorker[v]
        \/ \E m \in Messages : m.cmd \in {"INIT", "STOP"} /\ toWorker'[v] = Append(toWorker[v], m)
    BY <1>1, ToldAdds
  <2> QED BY <2>1
<1>2. CASE \E d \in Defs : toWorker'[v] = Append(toWorker[v], SetDef(d))
  BY <1>2, Tokenless
<1> QED BY <1>1, <1>2

\* The tasks on their way to and from a registered worker, and the processed
\* ones, agree with the books after a step of the supervisor.
LEMMA AsideOwns ==
  ASSUME Inv, Own, Steady, NEW v \in sup.registered,
         Aside \/ \E w \in Worker : Joined(w)
  PROVE  Agrees(sup', v, toWorker'[v], toSup'[v], wdef'[v], mem'[v])
<1>1. /\ v \in Worker /\ sup.def \in Nat
      /\ Agrees(sup, v, toWorker[v], toSup[v], wdef[v], mem[v]) /\ SameTasks(sup', sup)
  <2>1. sup.def \in Nat
    BY Listed, SupTypes, ExecutorConstants
  <2> QED BY <2>1, Listed DEF Own, Aside, Joined
<1>2. Agrees(sup', v, toWorker[v], toSup[v], wdef[v], mem[v])
  BY <1>1 DEF Agrees, Remembers, SameTasks
<1>3. \/ toWorker'[v] = toWorker[v]
      \/ \E m \in Messages : m.cmd \in {"INIT", "STOP", "SETDEF"} /\ toWorker'[v] = Append(toWorker[v], m)
  <2>1. Told(v) \/ \E d \in Defs : toWorker'[v] = Append(toWorker[v], SetDef(d))
    BY <1>1 DEF Aside, Joined, CaughtUp, Told
  <2> QED BY <1>1, <2>1, ToldTells
<1> QED BY <1>1, <1>2, <1>3, SupervisorTells

LEMMA JoinedOwns ==
  ASSUME Inv, Queues, Youngs, Steady, NEW w \in Worker, Joined(w), w \notin sup.registered
  PROVE  Agrees(sup', w, toWorker'[w], toSup'[w], wdef'[w], mem'[w])
<1>1. /\ toWorker[w] \in Seq(Messages) /\ sup.def \in Nat /\ SameTasks(sup', sup) /\ Solid(toWorker[w])
      /\ mem[w] = {} /\ Cargo(toWorker[w]) = {} /\ Cargo(toSup[w]) = {}
  <2>1. sup.def \in Nat
    BY Listed, SupTypes, ExecutorConstants
  <2> QED BY <2>1 DEF Inv, Typed, Queues, Joined, Youngs
<1>2. sup.history[w] = {}
  <2>1. \A t \in sup.history[w] : w \in sup.registered
    BY DEF Inv, Books, Replayable
  <2> QED BY <2>1
<1>3. Agrees(sup', w, toWorker[w], toSup[w], wdef[w], mem[w])
  <2>1. sup'.def \in Nat /\ sup'.mgr.fDone \cap sup'.history[w] = {} /\ \A e \in mem[w] : e[1] \in Nat /\ e[1] < sup'.def
    BY <1>1, <1>2 DEF SameTasks
  <2> QED BY <1>1, <2>1, AgreesEmpty
<1>4. \/ toWorker'[w] = toWorker[w]
      \/ \E m \in Messages : m.cmd \in {"INIT", "STOP", "SETDEF"} /\ toWorker'[w] = Append(toWorker[w], m)
  <2>1. Told(w) \/ \E d \in Defs : toWorker'[w] = Append(toWorker[w], SetDef(d))
    BY <1>1 DEF Joined, CaughtUp, Told
  <2> QED BY <2>1, ToldTells
<1> QED BY <1>3, <1>4, SupervisorTells

LEMMA FailedOwns ==
  ASSUME Inv, Own, Steady, NEW w \in Worker, Failed(w), NEW v \in sup.registered, v # w
  PROVE  Agrees(sup', v, toWorker'[v], toSup'[v], wdef'[v], mem'[v])
<1>1. /\ v \in Worker /\ Agrees(sup, v, toWorker[v], toSup[v], wdef[v], mem[v])
      /\ toWorker' = toWorker /\ sup'.def = sup.def
      /\ sup'.history = [sup.history EXCEPT ![w] = {}] /\ sup'.mgr.fDone = sup.mgr.fDone \ sup.history[w]
      /\ \A t \in TaskId : sup.mgr.fTaskToWorker[t] # w => sup'.mgr.fTaskToWorker[t] = sup.mgr.fTaskToWorker[t]
  BY Listed DEF Own, Failed, Forgets
<1>2. sup'.history[v] = sup.history[v]
  <2>1. sup.history \in [Worker -> SUBSET TaskId]
    BY Listed, SupTypes
  <2> QED BY <1>1, <2>1
<1>3. \A t \in Cargo(toWorker[v]) \cup Cargo(toSup[v]) : t \in TaskId /\ sup.mgr.fTaskToWorker[t] = v
  <2>1. Cargo(toWorker[v]) \in SUBSET TaskId /\ Cargo(toSup[v]) \in SUBSET TaskId
    BY <1>1, CargoTypes DEF Inv, Typed
  <2> QED BY <1>1, <2>1 DEF Agrees
<1>4. Agrees(sup', v, toWorker[v], toSup[v], wdef[v], mem[v])
  <2>1. \A t \in Cargo(toWorker[v]) \cup Cargo(toSup[v]) : sup'.mgr.fTaskToWorker[t] = sup.mgr.fTaskToWorker[t]
    BY <1>1, <1>3
  <2>2. /\ sup.history[v] \subseteq sup'.history[v]
        /\ \A t \in sup'.mgr.fDone \cap sup'.history[v] : t \in sup.mgr.fDone \cap sup.history[v]
    BY <1>1, <1>2
  <2> QED BY <1>1, <2>1, <2>2, AgreesElsewhere
<1> QED BY <1>1, <1>4, SupervisorTells

LEMMA RetainedOwns ==
  ASSUME Inv, Own, Steady, NEW w \in Worker, Retained(w), NEW v \in sup.registered
  PROVE  Agrees(sup', v, toWorker'[v], toSup'[v], wdef'[v], mem'[v])
<1> DEFINE C == Range(BatchTasks(sup))
<1>1. /\ v \in Worker /\ Agrees(sup, v, toWorker[v], toSup[v], wdef[v], mem[v])
      /\ toWorker' = toWorker /\ Charged(sup', sup, w, C)
      /\ \A t \in TaskId \ C : sup'.mgr.fTaskToWorker[t] = sup.mgr.fTaskToWorker[t]
  BY Listed DEF Own, Retained
<1> HIDE DEF C
<1>2. /\ sup.history[v] \subseteq sup'.history[v] /\ sup'.history[v] \subseteq sup.history[v] \cup C
      /\ sup'.def = sup.def /\ sup'.mgr.fDone = sup.mgr.fDone
      /\ \A t \in C : t \notin M!Running(sup.mgr) /\ t \notin sup.mgr.fDone
  <2>1. sup.history \in [Worker -> SUBSET TaskId]
    BY Listed, SupTypes
  <2> QED BY <1>1, <2>1 DEF Charged
<1>3. \A t \in Cargo(toWorker[v]) \cup Cargo(toSup[v]) : sup'.mgr.fTaskToWorker[t] = sup.mgr.fTaskToWorker[t]
  <2>1. Cargo(toWorker[v]) \in SUBSET TaskId /\ Cargo(toSup[v]) \in SUBSET TaskId
    BY <1>1, CargoTypes DEF Inv, Typed
  <2>2. \A t \in Cargo(toWorker[v]) \cup Cargo(toSup[v]) : t \in M!Running(sup.mgr)
    BY OwnRuns
  <2> QED BY <1>1, <1>2, <2>1, <2>2
<1>4. Agrees(sup', v, toWorker[v], toSup[v], wdef[v], mem[v])
  <2>1. \A t \in sup'.mgr.fDone \cap sup'.history[v] : t \in sup.mgr.fDone \cap sup.history[v]
    BY <1>2
  <2> QED BY <1>1, <1>2, <1>3, <2>1, AgreesElsewhere
<1> QED BY <1>1, <1>4, SupervisorTells

LEMMA AckedOwns ==
  ASSUME Inv, Own, Steady, NEW w \in Worker, Acked(w), NEW v \in sup.registered
  PROVE  Agrees(sup', v, toWorker'[v], toSup'[v], wdef'[v], mem'[v])
<1>1. /\ v \in Worker /\ Agrees(sup, v, toWorker[v], toSup[v], wdef[v], mem[v])
      /\ toWorker[v] \in Seq(Messages) /\ toSup[v] \in Seq(Messages) /\ wdef' = wdef /\ mem' = mem
      /\ toWorker' = toWorker /\ w \in sup.registered /\ sup'.def = sup.def /\ toSup[w] \in Seq(Messages)
      /\ toSup[w] # << >> /\ toSup'[w] = Tail(toSup[w])
  BY Listed DEF Own, Acked, Inv, Typed, Steady
<1>2. PICK own \in SUBSET Load(Head(toSup[w])) :
        (\A t \in own : sup.mgr.fTaskToWorker[t] = w) /\ Settled(sup', sup, own)
  BY DEF Acked
<1>3. /\ sup'.history = sup.history /\ sup'.mgr.fDone = sup.mgr.fDone \cup own
      /\ \A t \in TaskId : t \notin own => sup'.mgr.fTaskToWorker[t] = sup.mgr.fTaskToWorker[t]
  BY <1>2 DEF Settled
<1>4. /\ Cargo(toSup[w]) = Load(Head(toSup[w])) \cup Cargo(Tail(toSup[w]))
      /\ Load(Head(toSup[w])) \cap Cargo(Tail(toSup[w])) = {}
  BY <1>1, TailMessages DEF Own, Agrees
<1>5. own \subseteq Cargo(toSup[w])
  BY <1>2, <1>4
<1>6. CatchUpsSucceed => \A t \in own : t \in sup.history[v] => <<sup.def, t>> \in mem[v]
  <2>1. ASSUME CatchUpsSucceed, NEW t \in own, t \in sup.history[v] PROVE <<sup.def, t>> \in mem[v]
    <3>1. v = w
      BY <1>1, <1>5, <2>1, OwnRuns
    <3> QED BY <1>1, <1>5, <2>1, <3>1 DEF Agrees, Remembers
  <2> QED BY <2>1
<1>7. CatchUpsSucceed => \A t \in sup'.mgr.fDone \cap sup'.history[v] : t \in sup.mgr.fDone \cap sup.history[v] \/ <<sup.def, t>> \in mem[v]
  BY <1>3, <1>6
<1>8. CASE v = w
  <2>1. Agrees(sup, v, toWorker[v], Tail(toSup[v]), wdef[v], mem[v])
    BY <1>1, <1>8, AgreesTaken
  <2>2. \A t \in Cargo(toWorker[v]) \cup Cargo(Tail(toSup[v])) : sup'.mgr.fTaskToWorker[t] = sup.mgr.fTaskToWorker[t]
    <3>1. ASSUME NEW t \in Cargo(toWorker[v]) \cup Cargo(Tail(toSup[v])) PROVE t \in TaskId /\ t \notin own
      <4>1. t \in Cargo(toWorker[v]) \cup Cargo(toSup[v])
        BY <1>4, <1>8
      <4>2. t \in TaskId
        BY <1>1, <4>1, CargoTypes
      <4>3. Cargo(toWorker[v]) \cap Cargo(toSup[v]) = {}
        BY <1>1 DEF Agrees
      <4> QED BY <1>2, <1>4, <1>5, <1>8, <4>2, <4>3
    <3> QED BY <1>3, <3>1
  <2>3. Agrees(sup', v, toWorker[v], Tail(toSup[v]), wdef[v], mem[v])
    <3>1. sup.history[v] \subseteq sup'.history[v]
      BY <1>3
    <3> QED BY <1>1, <1>7, <2>1, <2>2, <3>1, AgreesElsewhere
  <2> QED BY <1>1, <1>8, <2>3
<1>9. CASE v # w
  <2>1. \A t \in Cargo(toWorker[v]) \cup Cargo(toSup[v]) : sup'.mgr.fTaskToWorker[t] = sup.mgr.fTaskToWorker[t]
    <3>1. ASSUME NEW t \in Cargo(toWorker[v]) \cup Cargo(toSup[v]) PROVE t \in TaskId /\ t \notin own
      <4>1. t \in TaskId
        BY <1>1, CargoTypes
      <4>2. sup.mgr.fTaskToWorker[t] = v
        BY <1>1 DEF Agrees
      <4> QED BY <1>2, <1>9, <4>1, <4>2
    <3> QED BY <1>3, <3>1
  <2>2. Agrees(sup', v, toWorker[v], toSup[v], wdef[v], mem[v])
    <3>1. sup.history[v] \subseteq sup'.history[v]
      BY <1>3
    <3> QED BY <1>1, <1>7, <2>1, <3>1, AgreesElsewhere
  <2> QED BY <1>1, <2>2, SupervisorTells
<1> QED BY <1>8, <1>9

LEMMA DefinedOwns ==
  ASSUME Inv, Queues, Own, Rest, Steady, Defined, NEW v \in sup.registered
  PROVE  Agrees(sup', v, toWorker'[v], toSup'[v], wdef'[v], mem'[v])
<1>1. /\ v \in Worker /\ Agrees(sup, v, toWorker[v], toSup[v], wdef[v], mem[v])
      /\ toWorker[v] \in Seq(Messages) /\ Solid(toWorker[v]) /\ sup.def \in Nat /\ (CatchUpsSucceed => mem[v] \subseteq Entries)
      /\ pc \in Resting /\ sup'.def = sup.def + 1 /\ sup'.def \in Defs /\ sup'.mgr.fDone = {}
  <2>1. sup.def \in Nat
    BY Listed, SupTypes, ExecutorConstants
  <2> QED BY <2>1, Listed DEF Own, Inv, Typed, Queues, Defined
<1>2. Cargo(toWorker[v]) = {} /\ Cargo(toSup[v]) = {}
  BY <1>1, OwnRuns DEF Rest
<1>3. Agrees(sup', v, toWorker[v], toSup[v], wdef[v], mem[v])
  <2>1. \A e \in mem[v] : CatchUpsSucceed => e[1] \in Nat /\ e[1] < sup'.def
    <3>1. ASSUME NEW e \in mem[v], CatchUpsSucceed PROVE e[1] \in Nat /\ e[1] < sup'.def
      <4>1. e[1] <= sup.def
        BY <1>1, <3>1 DEF Agrees, Remembers
      <4>2. e[1] \in Nat
        BY <1>1, <3>1, ExecutorConstants DEF Entries, Defs
      <4> QED BY <1>1, <4>1, <4>2
    <3> QED BY <3>1
  <2>2. sup'.def \in Nat /\ sup'.mgr.fDone \cap sup'.history[v] = {}
    BY <1>1
  <2> QED BY <1>1, <1>2, <2>1, <2>2, AgreesEmpty
<1>4. \/ toWorker'[v] = toWorker[v]
      \/ \E m \in Messages : m.cmd \in {"INIT", "STOP", "SETDEF"} /\ toWorker'[v] = Append(toWorker[v], m)
  <2>1. Told(v) \/ \E d \in Defs : toWorker'[v] = Append(toWorker[v], SetDef(d))
    <3>1. toWorker'[v] \in {toWorker[v], Append(toWorker[v], SetDef(sup'.def))}
      BY <1>1 DEF Defined
    <3> QED BY <1>1, <3>1 DEF Told
  <2> QED BY <1>1, <2>1, ToldTells
<1> QED BY <1>1, <1>3, <1>4, SupervisorTells

LEMMA DispatchedOwns ==
  ASSUME Inv, Current, Own, Steady, NEW w \in Worker, Dispatched(w), NEW v \in sup.registered
  PROVE  Agrees(sup', v, toWorker'[v], toSup'[v], wdef'[v], mem'[v])
<1>1. /\ v \in Worker /\ Agrees(sup, v, toWorker[v], toSup[v], wdef[v], mem[v])
      /\ toWorker \in [Worker -> Seq(Messages)] /\ wdef' = wdef /\ mem' = mem /\ toSup' = toSup
      /\ toSup[v] \in Seq(Messages) /\ sup.history \in [Worker -> SUBSET TaskId]
      /\ w \in Range(sup.vec) \ sup.failed /\ pc \in Looping
  BY Listed, SupTypes DEF Own, Inv, Typed, Steady, Dispatched
<1>2. PICK m \in {Msg(c, BatchTasks(sup)) : c \in {"TASK", "TASKB"}} :
        /\ toWorker' = [toWorker EXCEPT ![w] = Append(@, m)] /\ m \in Messages
        /\ Charged(sup', sup, w, Load(m))
        /\ \A t \in TaskId : sup'.mgr.fTaskToWorker[t] = IF t \in Load(m) THEN w ELSE sup.mgr.fTaskToWorker[t]
  BY DEF Dispatched
<1> DEFINE C == Load(m)
<1> HIDE DEF C
<1>3. /\ sup'.history = [sup.history EXCEPT ![w] = @ \cup C] /\ sup'.def = sup.def /\ sup'.mgr.fDone = sup.mgr.fDone
      /\ \A t \in C : t \in TaskId /\ t \notin M!Running(sup.mgr) /\ t \notin sup.mgr.fDone
      /\ \A t \in TaskId : sup'.mgr.fTaskToWorker[t] = IF t \in C THEN w ELSE sup.mgr.fTaskToWorker[t]
  BY <1>2 DEF Charged, C
<1>4. /\ C \cap (Cargo(toWorker[v]) \cup Cargo(toSup[v])) = {}
      /\ \A t \in Cargo(toWorker[v]) \cup Cargo(toSup[v]) : sup'.mgr.fTaskToWorker[t] = sup.mgr.fTaskToWorker[t]
  <2>1. Cargo(toWorker[v]) \in SUBSET TaskId /\ Cargo(toSup[v]) \in SUBSET TaskId
    BY <1>1, CargoTypes
  <2>2. \A t \in Cargo(toWorker[v]) \cup Cargo(toSup[v]) : t \in M!Running(sup.mgr)
    BY OwnRuns
  <2> QED BY <1>3, <2>1, <2>2
<1>5. CASE v = w
  <2>1. Under(toWorker[w], wdef[w], Len(toWorker[w]) + 1, sup.def)
    BY <1>1 DEF Current
  <2>2. sup'.history[w] = sup.history[w] \cup C /\ toWorker'[w] = Append(toWorker[w], m) /\ toWorker[w] \in Seq(Messages)
    BY <1>1, <1>2, <1>3
  <2>3. C \cap sup.mgr.fDone = {} /\ \A t \in C : sup'.mgr.fTaskToWorker[t] = w
    BY <1>3
  <2>4. C = Load(m) /\ m \in Messages
    BY <1>2 DEF C
  <2>5. Gives(sup, sup', w, toWorker[w], toSup[w], wdef[w], m, toWorker'[w])
    BY <1>1, <1>3, <1>4, <1>5, <2>1, <2>2, <2>3, <2>4 DEF Gives
  <2>6. Agrees(sup', w, toWorker'[w], toSup[w], wdef[w], mem[w])
    BY <1>1, <1>5, <2>5, AgreesGiven
  <2> QED BY <1>1, <1>5, <2>6
<1>6. CASE v # w
  <2>1. sup'.history[v] = sup.history[v] /\ toWorker'[v] = toWorker[v]
    BY <1>1, <1>2, <1>3, <1>6
  <2>2. /\ sup.history[v] \subseteq sup'.history[v]
        /\ \A t \in sup'.mgr.fDone \cap sup'.history[v] : t \in sup.mgr.fDone \cap sup.history[v]
    BY <1>3, <2>1
  <2>3. Agrees(sup', v, toWorker[v], toSup[v], wdef[v], mem[v])
    BY <1>1, <1>3, <1>4, <2>2, AgreesElsewhere
  <2> QED BY <1>1, <2>1, <2>3
<1> QED BY <1>5, <1>6

\* A message without tasks changes nothing of what is on its way.
LEMMA ToldCarries ==
  ASSUME Typed, NEW v \in Worker,
         Told(v) \/ \E d \in Defs : toWorker'[v] = Append(toWorker[v], SetDef(d))
  PROVE  Cargo(toWorker'[v]) = Cargo(toWorker[v]) /\ Leads(toWorker'[v]) = Leads(toWorker[v])
<1>1. \/ toWorker'[v] = toWorker[v]
      \/ \E m \in Messages : m.cmd \in {"INIT", "STOP", "SETDEF"} /\ toWorker'[v] = Append(toWorker[v], m)
  BY ToldTells
<1>2. ASSUME NEW m \in Messages, m.cmd \in {"INIT", "STOP", "SETDEF"}, toWorker'[v] = Append(toWorker[v], m)
      PROVE  Cargo(toWorker'[v]) = Cargo(toWorker[v]) /\ Leads(toWorker'[v]) = Leads(toWorker[v])
  <2>1. toWorker[v] \in Seq(Messages) /\ Load(m) = {} /\ Lead(m) = {}
    BY <1>2 DEF Typed, Load, Lead
  <2>2. /\ Cargo(Append(toWorker[v], m)) = Cargo(toWorker[v]) \cup Load(m)
        /\ Leads(Append(toWorker[v], m)) = Leads(toWorker[v]) \cup Lead(m)
    BY <2>1, AppendMessage
  <2> QED BY <1>2, <2>1, <2>2
<1> QED BY <1>1, <1>2

\* Only a dispatched message brings tasks to a worker's queue.
LEMMA OthersCarry ==
  ASSUME Inv, Effect, NEW v \in Worker, ~Dispatched(v)
  PROVE  Cargo(toWorker'[v]) = Cargo(toWorker[v]) /\ Leads(toWorker'[v]) = Leads(toWorker[v])
<1>1. Typed
  BY DEF Inv
<1>2. CASE Aside
  BY <1>1, <1>2, ToldCarries DEF Aside
<1>3. CASE Defined
  <2>1. sup'.def \in Defs /\ toWorker'[v] \in {toWorker[v], Append(toWorker[v], SetDef(sup'.def))}
    BY <1>3 DEF Defined
  <2>2. Told(v) \/ \E d \in Defs : toWorker'[v] = Append(toWorker[v], SetDef(d))
    BY <2>1 DEF Told
  <2> QED BY <1>1, <2>2, ToldCarries
<1>4. CASE \E w \in Worker : Joined(w)
  <2>1. Told(v) \/ \E d \in Defs : toWorker'[v] = Append(toWorker[v], SetDef(d))
    BY <1>4 DEF Joined, CaughtUp, Told
  <2> QED BY <1>1, <2>1, ToldCarries
<1>5. CASE \E w \in Worker : Failed(w) \/ Acked(w) \/ Retained(w)
  BY <1>5 DEF Failed, Acked, Retained
<1>6. CASE \E w \in Worker : Dispatched(w)
  <2>1. PICK w \in Worker : Dispatched(w)
    BY <1>6
  <2>2. v # w /\ toWorker \in [Worker -> Seq(Messages)]
    BY <2>1 DEF Inv, Typed
  <2> QED BY <2>1, <2>2 DEF Dispatched
<1> QED BY <1>2, <1>3, <1>4, <1>5, <1>6 DEF Effect

LEMMA SupervisorOwns ==
  ASSUME Inv, Queues, Current, Own, Shared, Youngs, Rest, Steady, Effect
  PROVE  Own' /\ Shared' /\ Youngs' /\ Rest'
<1>0. /\ mem' = mem /\ sup.registered \in SUBSET Worker /\ Range(sup.vec) \subseteq sup.registered
      /\ toSup \in [Worker -> Seq(Messages)]
      /\ \A v \in Worker : /\ toSup'[v] = toSup[v] \/ (toSup[v] # << >> /\ toSup'[v] = Tail(toSup[v]))
                           /\ Young(v)' => Young(v)
  BY Listed DEF Steady, Inv, Typed
<1>1. sup'.registered = sup.registered \/ \E w \in Worker : Joined(w) \/ Failed(w)
  BY DEF Effect, Aside, Defined, Acked, Dispatched, Retained, SameTeam
<1>2. Own'
  <2>1. ASSUME NEW v \in sup'.registered PROVE Agrees(sup', v, toWorker'[v], toSup'[v], wdef'[v], mem'[v])
    <3>1. CASE Aside
      <4>1. v \in sup.registered
        BY <2>1, <3>1 DEF Aside, SameTeam
      <4> QED BY <3>1, <4>1, AsideOwns
    <3>2. CASE Defined
      <4>1. v \in sup.registered
        BY <2>1, <3>2 DEF Defined
      <4> QED BY <3>2, <4>1, DefinedOwns
    <3>3. ASSUME NEW w \in Worker, Joined(w)
          PROVE  Agrees(sup', v, toWorker'[v], toSup'[v], wdef'[v], mem'[v])
      <4>1. v \in sup.registered \/ (v = w /\ w \notin sup.registered)
        BY <2>1, <3>3 DEF Joined
      <4> QED BY <3>3, <4>1, AsideOwns, JoinedOwns
    <3>4. ASSUME NEW w \in Worker, Failed(w)
          PROVE  Agrees(sup', v, toWorker'[v], toSup'[v], wdef'[v], mem'[v])
      <4>1. v \in sup.registered /\ v # w
        BY <2>1, <3>4 DEF Failed
      <4> QED BY <3>4, <4>1, FailedOwns
    <3>5. ASSUME NEW w \in Worker, Acked(w)
          PROVE  Agrees(sup', v, toWorker'[v], toSup'[v], wdef'[v], mem'[v])
      <4>1. v \in sup.registered
        BY <2>1, <3>5 DEF Acked, SameTeam
      <4> QED BY <3>5, <4>1, AckedOwns
    <3>6. ASSUME NEW w \in Worker, Dispatched(w)
          PROVE  Agrees(sup', v, toWorker'[v], toSup'[v], wdef'[v], mem'[v])
      <4>1. v \in sup.registered
        BY <2>1, <3>6 DEF Dispatched, SameTeam
      <4> QED BY <3>6, <4>1, DispatchedOwns
    <3>7. ASSUME NEW w \in Worker, Retained(w)
          PROVE  Agrees(sup', v, toWorker'[v], toSup'[v], wdef'[v], mem'[v])
      <4>1. v \in sup.registered
        BY <2>1, <3>7 DEF Retained
      <4> QED BY <3>7, <4>1, RetainedOwns
    <3> QED BY <3>1, <3>2, <3>3, <3>4, <3>5, <3>6, <3>7 DEF Effect
  <2> QED BY <2>1 DEF Own
<1>3. Shared'
  <2>1. ASSUME CatchUpsSucceed, NEW w \in Worker, Joined(w),
               NEW v \in sup'.registered, NEW u \in sup'.registered, u # v
        PROVE  mem[u] \cap mem[v] = {}
    <3>1. mem[w] = {} /\ sup'.registered = sup.registered \cup {w}
      BY <2>1 DEF Joined, Youngs
    <3> QED BY <2>1, <3>1 DEF Shared
  <2>2. ASSUME CatchUpsSucceed, NEW v \in sup'.registered, NEW u \in sup'.registered, u # v
        PROVE  mem[u] \cap mem[v] = {}
    <3>1. CASE sup'.registered = sup.registered
      BY <2>2, <3>1 DEF Shared
    <3>2. CASE \E w \in Worker : Failed(w)
      <4>1. u \in sup.registered /\ v \in sup.registered
        BY <2>2, <3>2 DEF Failed
      <4> QED BY <2>2, <4>1 DEF Shared
    <3>3. CASE \E w \in Worker : Joined(w)
      BY <2>1, <2>2, <3>3
    <3> QED BY <1>1, <3>1, <3>2, <3>3
  <2> QED BY <1>0, <2>2 DEF Shared
<1>4. Youngs'
  <2>1. ASSUME NEW v \in Worker, Young(v)'
        PROVE  mem'[v] = {} /\ Cargo(toWorker'[v]) = {} /\ Cargo(toSup'[v]) = {}
    <3>1. Young(v) /\ mem[v] = {} /\ Cargo(toWorker[v]) = {} /\ Cargo(toSup[v]) = {}
      BY <1>0, <2>1 DEF Youngs
    <3>2. ~Dispatched(v)
      BY <3>1, TeamIsNotYoung DEF Dispatched
    <3>3. Cargo(toWorker'[v]) = {}
      BY <3>1, <3>2, OthersCarry
    <3>4. Cargo(toSup'[v]) = {}
      <4>1. CASE toSup'[v] = toSup[v]
        BY <3>1, <4>1
      <4>2. CASE toSup[v] # << >> /\ toSup'[v] = Tail(toSup[v])
        <5>1. Cargo(toSup[v]) = Load(Head(toSup[v])) \cup Cargo(Tail(toSup[v]))
          BY <1>0, <4>2, TailMessages
        <5> QED BY <3>1, <4>2, <5>1
      <4> QED BY <1>0, <4>1, <4>2
    <3> QED BY <1>0, <3>1, <3>3, <3>4
  <2> QED BY <2>1 DEF Youngs
<1>5. Rest'
  <2>1. ASSUME pc' \in Resting PROVE M!Running(sup'.mgr) = {}
    <3>1. Looping \cap Resting = {}
      BY DEF Looping, Resting
    <3>2. (Aside \/ \E w \in Worker : Joined(w)) \/ Defined
          \/ \E w \in Worker : Failed(w) \/ Acked(w) \/ Dispatched(w) \/ Retained(w)
      BY DEF Effect
    <3>3. ~Defined /\ \A w \in Worker : ~Failed(w) /\ ~Acked(w) /\ ~Dispatched(w) /\ ~Retained(w)
      BY <2>1, <3>1 DEF Defined, Failed, Acked, Dispatched, Retained
    <3>4. CASE Aside
      BY <2>1, <3>4 DEF Aside, SameTasks, Rest
    <3>5. CASE \E w \in Worker : Joined(w)
      BY <2>1, <3>1, <3>5 DEF Joined, SameTasks, Rest
    <3> QED BY <3>2, <3>3, <3>4, <3>5
  <2> QED BY <2>1 DEF Rest
<1> QED BY <1>2, <1>3, <1>4, <1>5

Ways == Own /\ Shared /\ Youngs /\ Rest

LEMMA WaysNext ==
  ASSUME Inv, Queues, Current, Ways, [Next]_vars
  PROVE  Ways'
<1>1. CASE UNCHANGED vars
  <2>1. /\ toWorker' = toWorker /\ toSup' = toSup /\ wdef' = wdef /\ mem' = mem /\ sup' = sup /\ pc' = pc /\ wpc' = wpc
    BY <1>1 DEF vars
  <2>2. Own'
    BY <2>1 DEF Ways, Own
  <2>3. Shared'
    BY <2>1 DEF Ways, Shared
  <2>4. Youngs'
    <3>1. \A v \in Worker : Young(v)' => Young(v)
      BY <2>1 DEF Young, Waiting, Carries
    <3> QED BY <2>1, <3>1 DEF Ways, Youngs
  <2>5. Rest'
    BY <2>1 DEF Ways, Rest
  <2> QED BY <2>2, <2>3, <2>4, <2>5 DEF Ways
<1>2. CASE Supervises
  BY <1>2, SupervisorEffect, SupervisorOwns DEF Ways
<1>3. CASE \E w \in Worker : Works(w)
  <2>1. PICK w \in Worker : Works(w)
    BY <1>3
  <2>2. \E S, C : Moves(w, S, C)
    BY <2>1, WorkerMoves DEF Works, Inv
  <2>3. PICK S, C : Moves(w, S, C)
    BY <2>2
  <2> QED BY <2>1, <2>3, WorkerOwns DEF Ways
<1> QED BY <1>1, <1>2, <1>3, NextCases

LEMMA WaysInit == Init => Ways
<1> SUFFICES ASSUME Init PROVE Ways
  OBVIOUS
<1>1. /\ toWorker = [w \in Worker |-> << >>] /\ toSup = [w \in Worker |-> << >>]
      /\ wdef = [w \in Worker |-> OwnDef] /\ mem = [w \in Worker |-> {}] /\ pc = "start"
      /\ sup.mgr = M!Empty /\ sup.def = 0 /\ sup.history = [w \in Worker |-> {}]
      /\ sup.registered \in SUBSET Worker
  BY DEF Init, RunnerInit, ExecutorInit
<1>2. Cargo(<< >>) = {} /\ Solid(<< >>) /\ << >> \in Seq(Messages)
  <2>1. Len(<< >>) = 0 /\ << >> \in Seq(Messages) /\ \A i \in 1..0 : FALSE
    OBVIOUS
  <2> QED BY <2>1 DEF Cargo, Solid
<1>3. M!Empty.fDone = {} /\ M!Running(M!Empty) = {}
  BY DEF M!Empty, M!Running
<1>4. Own
  <2>1. ASSUME NEW w \in Worker PROVE Agrees(sup, w, << >>, << >>, OwnDef, {})
    <3>1. /\ sup.def \in Nat /\ sup.mgr.fDone \cap sup.history[w] = {} /\ \A e \in {} : e[1] \in Nat /\ e[1] < sup.def
      BY <1>1, <1>3
    <3> QED BY <1>2, <3>1, AgreesEmpty
  <2> QED BY <1>1, <2>1 DEF Own
<1> QED BY <1>1, <1>2, <1>3, <1>4 DEF Ways, Shared, Youngs, Rest

\* Losing any worker replays all of its work: a running or done task is in the
\* replay history of exactly one worker, a registered one, and what is done was
\* processed there (HandleWorkerFailure and the acknowledgements of the loop).
\* Nobody looks at the results of the catch-up's sends, so this takes that they
\* succeed: a worker that was not told the definition acknowledges other work.
THEOREM ReplayCoversAlways ==
  ASSUME CatchUpsSucceed
  PROVE  Spec => []ReplayCovers
<1> DEFINE I == Inv /\ Queues /\ Current /\ Ways
<1>1. Init => I
  BY InitInv, QueuesInit, WaysInit
<1>2. I /\ [Next]_vars => I'
  BY NextInv, QueuesNext, WaysNext
<1>3. I => ReplayCovers
  <2> SUFFICES ASSUME I PROVE ReplayCovers
    OBVIOUS
  <2>1. /\ \A t \in M!Running(sup.mgr) : Only(sup, sup.mgr.fTaskToWorker[t], t) /\ sup.mgr.fTaskToWorker[t] \in sup.registered
        /\ \A t \in sup.mgr.fDone : \E w \in sup.registered : Only(sup, w, t)
        /\ \A w \in Worker : sup.counts[w] = Cardinality(sup.mgr.fDone \cap sup.history[w])
    BY DEF Inv, Books, Replayable, Counted
  <2>2. sup.registered \in SUBSET Worker /\ Sound(sup.mgr) /\ sup \in Sups
    BY Listed DEF Inv, Books
  <2>3. ASSUME NEW t \in M!Running(sup.mgr)
        PROVE  \E w \in sup.registered :
                 /\ \A v \in Worker : t \in sup.history[v] <=> v = w
                 /\ t \in sup.mgr.fDone => <<sup.def, t>> \in mem[w]
                 /\ t \in M!Running(sup.mgr) => M!GetTaskWorker(sup.mgr, t) = w
    <3>1. t \in TaskId
      BY <2>3 DEF M!Running
    <3>2. t \notin sup.mgr.fDone
      BY <2>2, <2>3, <3>1, InABucket
    <3> QED BY <2>1, <3>2 DEF Only, M!GetTaskWorker
  <2>4. ASSUME NEW t \in sup.mgr.fDone
        PROVE  \E w \in sup.registered :
                 /\ \A v \in Worker : t \in sup.history[v] <=> v = w
                 /\ t \in sup.mgr.fDone => <<sup.def, t>> \in mem[w]
                 /\ t \in M!Running(sup.mgr) => M!GetTaskWorker(sup.mgr, t) = w
    <3>1. PICK w \in sup.registered : Only(sup, w, t)
      BY <2>1
    <3>2. <<sup.def, t>> \in mem[w]
      BY <2>2, <3>1 DEF Ways, Own, Agrees, Remembers, Only
    <3>3. t \notin M!Running(sup.mgr)
      <4>1. t \in TaskId
        BY <2>2, SupTypes DEF Managers
      <4> QED BY <2>2, <4>1, InABucket
    <3> QED BY <3>1, <3>2, <3>3 DEF Only
  <2> QED BY <2>1, <2>3, <2>4 DEF ReplayCovers, mgr
<1> QED BY <1>1, <1>2, <1>3, PTL DEF Spec

-----------------------------------------------------------------------------
(* The messages that gate dispatch *)

\* One token for each message that is counted as on its way to or from a worker.
Tokens(f) == {x \in Worker \X Nat : x[2] < f[x[1]]}

\* The messages in the queues of a worker, each known by the first of its tasks.
OnTheWay(w) == Leads(toWorker[w]) \cup Leads(toSup[w])

\* The counter that gates dispatch is the number of the messages counted for
\* the registered workers, and every message on its way is counted.
Letters ==
  /\ IsFiniteSet(Tokens(sup.inFlight)) /\ sup.outstandingMessages = Cardinality(Tokens(sup.inFlight))
  /\ \A w \in Worker \ sup.registered : sup.inFlight[w] = 0
  /\ \A w \in sup.registered : Cardinality(OnTheWay(w)) <= sup.inFlight[w]

LEMMA TokenAdded ==
  ASSUME NEW f \in [Worker -> Nat], IsFiniteSet(Tokens(f)), NEW w \in Worker,
         NEW g, g = [f EXCEPT ![w] = @ + 1]
  PROVE  IsFiniteSet(Tokens(g)) /\ Cardinality(Tokens(g)) = Cardinality(Tokens(f)) + 1
<1> DEFINE x == <<w, f[w]>>
<1>1. x \notin Tokens(f) /\ Tokens(g) = Tokens(f) \cup {x}
  <2>1. g[w] = f[w] + 1 /\ f[w] \in Nat /\ \A v \in Worker : v # w => g[v] = f[v]
    OBVIOUS
  <2>2. x \notin Tokens(f)
    BY <2>1 DEF Tokens
  <2>3. ASSUME NEW v \in Worker, NEW i \in Nat PROVE i < g[v] <=> i < f[v] \/ <<v, i>> = x
    BY <2>1
  <2>4. x \in Worker \X Nat
    BY <2>1
  <2> HIDE DEF x
  <2>5. \A y \in Worker \X Nat : y[2] < g[y[1]] <=> y[2] < f[y[1]] \/ y = x
    BY <2>3
  <2> QED BY <2>2, <2>4, <2>5 DEF Tokens
<1> HIDE DEF x
<1>2. /\ IsFiniteSet(Tokens(f) \cup {x})
      /\ Cardinality(Tokens(f) \cup {x}) = IF x \in Tokens(f) THEN Cardinality(Tokens(f)) ELSE Cardinality(Tokens(f)) + 1
  BY FS_AddElement
<1> QED BY ONLY <1>1, <1>2

LEMMA TokenTaken ==
  ASSUME NEW f \in [Worker -> Nat], IsFiniteSet(Tokens(f)), NEW w \in Worker, f[w] # 0,
         NEW g, g = [f EXCEPT ![w] = @ - 1]
  PROVE  IsFiniteSet(Tokens(g)) /\ Cardinality(Tokens(g)) = Cardinality(Tokens(f)) - 1
<1> DEFINE x == <<w, f[w] - 1>>
<1>1. x \in Tokens(f) /\ Tokens(g) = Tokens(f) \ {x}
  <2>1. g[w] = f[w] - 1 /\ f[w] \in Nat \ {0} /\ f[w] - 1 \in Nat /\ \A v \in Worker : v # w => g[v] = f[v]
    OBVIOUS
  <2>2. x \in Tokens(f)
    BY <2>1 DEF Tokens
  <2>3. ASSUME NEW v \in Worker, NEW i \in Nat PROVE i < g[v] <=> i < f[v] /\ <<v, i>> # x
    BY <2>1
  <2> QED BY <2>1, <2>2, <2>3 DEF Tokens
<1> HIDE DEF x
<1>2. /\ IsFiniteSet(Tokens(f) \ {x})
      /\ Cardinality(Tokens(f) \ {x}) = IF x \in Tokens(f) THEN Cardinality(Tokens(f)) - 1 ELSE Cardinality(Tokens(f))
  BY FS_RemoveElement
<1> QED BY ONLY <1>1, <1>2

LEMMA TokensDropped ==
  ASSUME NEW f \in [Worker -> Nat], IsFiniteSet(Tokens(f)), NEW w \in Worker,
         NEW g, g = [f EXCEPT ![w] = 0]
  PROVE  /\ IsFiniteSet(Tokens(g)) /\ Cardinality(Tokens(f)) \in Nat /\ f[w] <= Cardinality(Tokens(f))
         /\ Cardinality(Tokens(g)) = Cardinality(Tokens(f)) - f[w]
<1> DEFINE X == {w} \X (0..(f[w] - 1))
<1>1. f[w] \in Nat /\ g[w] = 0 /\ \A v \in Worker : v # w => g[v] = f[v]
  OBVIOUS
<1>2. X \in SUBSET Tokens(f)
  BY <1>1 DEF Tokens
<1>3. Tokens(g) = Tokens(f) \ X
  <2>1. ASSUME NEW v \in Worker, NEW i \in Nat PROVE i < g[v] <=> i < f[v] /\ <<v, i>> \notin X
    BY <1>1
  <2>2. Tokens(g) \subseteq Tokens(f) \ X
    BY <2>1 DEF Tokens
  <2>3. Tokens(f) \ X \subseteq Tokens(g)
    BY <2>1 DEF Tokens
  <2> QED BY <2>2, <2>3
<1>4. IsFiniteSet(X) /\ Cardinality(X) = f[w]
  <2>1. IsFiniteSet({w}) /\ Cardinality({w}) = 1
    BY FS_Singleton
  <2>2. IsFiniteSet(0..(f[w] - 1)) /\ Cardinality(0..(f[w] - 1)) = f[w]
    <3> DEFINE b == f[w] - 1
    <3>1. 0 \in Int /\ b \in Int /\ (IF 0 > b THEN 0 ELSE b - 0 + 1) = f[w]
      BY <1>1
    <3> HIDE DEF b
    <3>2. IsFiniteSet(0..b) /\ Cardinality(0..b) = f[w]
      BY ONLY <3>1, FS_Interval
    <3> QED BY <3>2 DEF b
  <2>3. IsFiniteSet(X) /\ Cardinality(X) = Cardinality({w}) * Cardinality(0..(f[w] - 1))
    BY <2>1, <2>2, FS_Product
  <2> QED BY <1>1, <2>1, <2>2, <2>3
<1> HIDE DEF X
<1>5. /\ IsFiniteSet(Tokens(g)) /\ Cardinality(Tokens(f)) \in Nat /\ Cardinality(Tokens(g)) \in Nat
      /\ Cardinality(X) <= Cardinality(Tokens(f))
  BY <1>2, <1>3, FS_Subset, FS_CardinalityType
<1>6. Cardinality(Tokens(f)) = Cardinality(Tokens(g)) + Cardinality(X)
  <2>1. X \cup Tokens(g) = Tokens(f) /\ X \cap Tokens(g) = {}
    BY <1>2, <1>3
  <2>2. Cardinality(X \cup Tokens(g)) = Cardinality(X) + Cardinality(Tokens(g)) - Cardinality(X \cap Tokens(g))
    BY <1>4, <1>5, FS_Union
  <2>3. Cardinality(X \cap Tokens(g)) = 0
    BY <2>1, FS_EmptySet
  <2>4. Cardinality(Tokens(f)) = Cardinality(X) + Cardinality(Tokens(g)) - 0
    BY <2>1, <2>2, <2>3
  <2> QED BY ONLY <1>1, <1>4, <1>5, <2>4
<1> QED BY <1>1, <1>4, <1>5, <1>6

LEMMA NoTokens ==
  ASSUME NEW f, f = [v \in Worker |-> 0]
  PROVE  IsFiniteSet(Tokens(f)) /\ Cardinality(Tokens(f)) = 0
<1>1. Tokens(f) = {}
  BY DEF Tokens
<1> QED BY <1>1, FS_EmptySet

LEMMA OnTheWayTasks ==
  ASSUME Typed, NEW w \in Worker
  PROVE  OnTheWay(w) \in SUBSET TaskId /\ OnTheWay(w) \subseteq Cargo(toWorker[w]) \cup Cargo(toSup[w])
<1>1. toWorker[w] \in Seq(Messages) /\ toSup[w] \in Seq(Messages)
  BY DEF Typed
<1> QED BY <1>1, CargoTypes DEF OnTheWay

\* Fewer messages are not more than are counted.
LEMMA FewerLetters ==
  ASSUME NEW S \in SUBSET TaskId, NEW T \in SUBSET S
  PROVE  Cardinality(T) <= Cardinality(S) /\ T \in SUBSET TaskId
BY SubsetFacts, FS_Subset

\* A message of tasks is known by a task.
LEMMA LeadCount ==
  ASSUME NEW m \in Messages
  PROVE  \/ Lead(m) = {} /\ Cardinality(Lead(m)) = 0
         \/ Lead(m) = {m.ids[1]} /\ Cardinality(Lead(m)) = 1
BY FS_EmptySet, FS_Singleton DEF Lead

\* A worker's step.
LEMMA WorkerLetters ==
  ASSUME Inv, Queues, Letters, NEW w \in Worker, NEW S, NEW C, Moves(w, S, C), UNCHANGED supervisor
  PROVE  Letters'
<1>0. sup' = sup /\ Typed /\ sup.registered \in SUBSET Worker /\ sup.inFlight \in [Worker -> Nat]
  BY Listed, SupTypes DEF supervisor, Inv
<1>1. ASSUME NEW v \in sup.registered PROVE Cardinality(Leads(toWorker'[v]) \cup Leads(toSup'[v])) <= sup.inFlight[v]
  <2> DEFINE T == Leads(toWorker'[v]) \cup Leads(toSup'[v])
  <2>1. v \in Worker /\ Cardinality(OnTheWay(v)) <= sup.inFlight[v] /\ sup.inFlight[v] \in Nat
    BY <1>0, <1>1 DEF Letters
  <2>2. T \subseteq OnTheWay(v)
    BY <1>0, <2>1, MovesFacts DEF OnTheWay
  <2> HIDE DEF T
  <2>3. Cardinality(T) <= Cardinality(OnTheWay(v)) /\ T \in SUBSET TaskId /\ OnTheWay(v) \in SUBSET TaskId
    BY <1>0, <2>1, <2>2, OnTheWayTasks, FewerLetters
  <2>4. Cardinality(T) \in Nat /\ Cardinality(OnTheWay(v)) \in Nat
    BY <2>3, SubsetFacts
  <2>5. Cardinality(T) <= sup.inFlight[v]
    BY <2>1, <2>3, <2>4
  <2> QED BY <2>5 DEF T
<1> QED BY <1>0, <1>1 DEF Letters, OnTheWay

\* A worker to which no task is sent has no more messages on their way.
LEMMA OthersLetters ==
  ASSUME Inv, Steady, Effect, NEW v \in Worker, ~Dispatched(v), NEW T, T = Leads(toWorker'[v]) \cup Leads(toSup'[v])
  PROVE  T \subseteq OnTheWay(v) /\ Cardinality(T) <= Cardinality(OnTheWay(v)) /\ Cardinality(T) \in Nat
         /\ Cardinality(OnTheWay(v)) \in Nat
<1>1. /\ Typed /\ toSup[v] \in Seq(Messages)
      /\ toSup'[v] = toSup[v] \/ (toSup[v] # << >> /\ toSup'[v] = Tail(toSup[v]))
  BY DEF Steady, Inv, Typed
<1>2. Leads(toWorker'[v]) = Leads(toWorker[v])
  BY OthersCarry
<1>3. Leads(toSup'[v]) \subseteq Leads(toSup[v])
  <2>1. CASE toSup'[v] = toSup[v]
    BY <2>1
  <2>2. CASE toSup[v] # << >> /\ toSup'[v] = Tail(toSup[v])
    <3>1. Leads(toSup[v]) = Lead(Head(toSup[v])) \cup Leads(Tail(toSup[v]))
      BY <1>1, <2>2, TailMessages
    <3> QED BY <2>2, <3>1
  <2> QED BY <1>1, <2>1, <2>2
<1>4. T \subseteq OnTheWay(v)
  BY <1>2, <1>3 DEF OnTheWay
<1>5. OnTheWay(v) \in SUBSET TaskId
  BY <1>1, OnTheWayTasks
<1> QED BY <1>4, <1>5, FewerLetters, SubsetFacts

\* The supervisor counts no message, and none is sent or taken off the books.
LEMMA KeptLetters ==
  ASSUME Inv, Steady, Effect, Letters, SameMessages(sup', sup), sup'.registered \in SUBSET Worker,
         sup.registered \subseteq sup'.registered,
         \A w \in sup'.registered \ sup.registered : OnTheWay(w) = {}
  PROVE  Letters'
<1>1. /\ sup'.inFlight = sup.inFlight /\ sup'.outstandingMessages = sup.outstandingMessages
      /\ sup.inFlight \in [Worker -> Nat] /\ sup.outstandingMessages \in Nat
  BY Listed, SupTypes DEF SameMessages
<1>2. \A w \in Worker : ~Dispatched(w)
  <2>1. ~(sup.outstandingMessages = sup.outstandingMessages + 1)
    BY <1>1
  <2> QED BY <1>1, <2>1 DEF Dispatched
<1>3. ASSUME NEW w \in sup'.registered PROVE Cardinality(Leads(toWorker'[w]) \cup Leads(toSup'[w])) <= sup'.inFlight[w]
  <2> DEFINE T == Leads(toWorker'[w]) \cup Leads(toSup'[w])
  <2>1. w \in Worker /\ sup.inFlight[w] \in Nat
    BY <1>1, <1>3
  <2>2. Cardinality(T) <= Cardinality(OnTheWay(w)) /\ Cardinality(T) \in Nat /\ Cardinality(OnTheWay(w)) \in Nat
    BY <1>2, <2>1, OthersLetters
  <2>3. Cardinality(OnTheWay(w)) <= sup.inFlight[w]
    <3>1. CASE w \in sup.registered
      BY <3>1 DEF Letters
    <3>2. CASE w \notin sup.registered
      <4>1. Cardinality(OnTheWay(w)) = 0
        BY <1>3, <3>2, FS_EmptySet
      <4> QED BY <2>1, <4>1
    <3> QED BY <3>1, <3>2
  <2> HIDE DEF T
  <2>4. Cardinality(T) <= sup'.inFlight[w]
    BY <1>1, <2>1, <2>2, <2>3
  <2> QED BY <2>4 DEF T
<1>4. \A w \in Worker \ sup'.registered : sup'.inFlight[w] = 0
  BY <1>1 DEF Letters
<1>5. IsFiniteSet(Tokens(sup'.inFlight)) /\ sup'.outstandingMessages = Cardinality(Tokens(sup'.inFlight))
  BY <1>1 DEF Letters
<1> QED BY <1>3, <1>4, <1>5 DEF Letters, OnTheWay

LEMMA FailedLetters ==
  ASSUME Inv, Steady, Effect, Letters, NEW w \in Worker, Failed(w)
  PROVE  Letters'
<1> DEFINE f == sup.inFlight
<1>1. /\ f \in [Worker -> Nat] /\ sup.outstandingMessages \in Nat /\ f[w] \in Nat
      /\ sup'.inFlight = [f EXCEPT ![w] = 0] /\ sup.registered \in SUBSET Worker
      /\ sup'.outstandingMessages = sup.outstandingMessages - Min({sup.outstandingMessages, f[w]})
      /\ sup'.registered = sup.registered \ {w} /\ toWorker' = toWorker
      /\ IsFiniteSet(Tokens(f)) /\ sup.outstandingMessages = Cardinality(Tokens(f))
  BY Listed, SupTypes DEF Failed, Forgets, Letters
<1> HIDE DEF f
<1>2. /\ IsFiniteSet(Tokens(sup'.inFlight)) /\ f[w] <= Cardinality(Tokens(f))
      /\ Cardinality(Tokens(sup'.inFlight)) = Cardinality(Tokens(f)) - f[w]
  BY <1>1, TokensDropped
<1>3. Min({sup.outstandingMessages, f[w]}) = f[w]
  BY <1>1, <1>2, Smaller
<1>4. sup'.outstandingMessages = Cardinality(Tokens(sup'.inFlight))
  BY ONLY <1>1, <1>2, <1>3
<1>5. \A v \in Worker \ sup'.registered : sup'.inFlight[v] = 0
  <2>1. ASSUME NEW v \in Worker \ sup'.registered PROVE sup'.inFlight[v] = 0
    <3>1. v = w \/ (v # w /\ f[v] = 0)
      BY <1>1, <2>1 DEF Letters, f
    <3> QED BY <1>1, <3>1
  <2> QED BY <2>1
<1>6. ASSUME NEW v \in sup'.registered PROVE Cardinality(Leads(toWorker'[v]) \cup Leads(toSup'[v])) <= sup'.inFlight[v]
  <2> DEFINE T == Leads(toWorker'[v]) \cup Leads(toSup'[v])
  <2>1. v \in Worker /\ v \in sup.registered /\ v # w /\ sup'.inFlight[v] = f[v] /\ f[v] \in Nat
    BY <1>1, <1>6
  <2>2. ~Dispatched(v)
    <3>1. ~([f EXCEPT ![w] = 0] = [f EXCEPT ![v] = @ + 1])
      <4>1. [f EXCEPT ![w] = 0][v] = f[v] /\ [f EXCEPT ![v] = @ + 1][v] = f[v] + 1 /\ f[v] # f[v] + 1
        BY <1>1, <2>1
      <4> QED BY <4>1
    <3> QED BY <1>1, <3>1 DEF Dispatched, f
  <2>3. Cardinality(T) <= Cardinality(OnTheWay(v)) /\ Cardinality(T) \in Nat /\ Cardinality(OnTheWay(v)) \in Nat
    BY <2>1, <2>2, OthersLetters
  <2>4. Cardinality(OnTheWay(v)) <= f[v]
    BY <2>1 DEF Letters, f
  <2> HIDE DEF T
  <2>5. Cardinality(T) <= sup'.inFlight[v]
    BY <2>1, <2>3, <2>4
  <2> QED BY <2>5 DEF T
<1> QED BY <1>2, <1>4, <1>5, <1>6 DEF Letters, OnTheWay

\* An acknowledgement with tasks of its worker, or a batch, is one of the
\* counted messages.
LEMMA AckIsCounted ==
  ASSUME Inv, Queues, Own, Letters, NEW w \in sup.registered, toSup[w] # << >>,
         Load(Head(toSup[w])) # {} \/ Head(toSup[w]).cmd = "ACKB"
  PROVE  /\ sup.inFlight[w] \in Nat \ {0} /\ sup.outstandingMessages \in Nat \ {0}
         /\ Cardinality(Leads(toWorker[w]) \cup Leads(Tail(toSup[w]))) <= sup.inFlight[w] - 1
<1> DEFINE r == toSup[w]
           h == Head(r)
           x == h.ids[1]
           T == Leads(toWorker[w]) \cup Leads(Tail(r))
<1>1. /\ w \in Worker /\ r \in Seq(Messages) /\ toWorker[w] \in Seq(Messages) /\ r # << >> /\ Solid(r)
      /\ Agrees(sup, w, toWorker[w], r, wdef[w], mem[w]) /\ Typed
      /\ sup.inFlight \in [Worker -> Nat] /\ sup.outstandingMessages \in Nat
  BY Listed, SupTypes DEF Inv, Typed, Queues, Own
<1>2. h \in Messages /\ Lead(h) = {x}
  <2>1. h \in Messages /\ 1 \in 1..Len(r) /\ h = r[1]
    BY <1>1
  <2>2. CASE Load(h) # {}
    BY <2>1, <2>2 DEF Lead
  <2>3. CASE h.cmd = "ACKB"
    <3>1. h.ids # << >> /\ h.ids \in Seq(TaskId) /\ Load(h) = Range(h.ids)
      BY <1>1, <2>1, <2>3, MessageFields DEF Solid, Load
    <3>2. \A g \in Seq(TaskId) : g # << >> => Range(g) # {}
      <4> SUFFICES ASSUME NEW g \in Seq(TaskId), g # << >> PROVE Range(g) # {}
        OBVIOUS
      <4>1. 1 \in DOMAIN g
        OBVIOUS
      <4> QED BY <4>1 DEF Range
    <3> QED BY <2>1, <3>1, <3>2 DEF Lead
  <2> QED BY <2>1, <2>2, <2>3
<1>3. /\ Leads(r) = Lead(h) \cup Leads(Tail(r)) /\ Cargo(r) = Load(h) \cup Cargo(Tail(r))
      /\ Load(h) \cap Cargo(Tail(r)) = {} /\ Tail(r) \in Seq(Messages)
  BY <1>1, TailMessages DEF Agrees
<1>4. Leads(Tail(r)) \subseteq Cargo(Tail(r)) /\ Leads(toWorker[w]) \subseteq Cargo(toWorker[w])
  BY <1>1, <1>3, CargoTypes
<1>5. Lead(h) \subseteq Load(h)
  BY <1>2, LoadTypes
<1>6. x \notin T /\ OnTheWay(w) = T \cup {x}
  <2>1. Cargo(toWorker[w]) \cap Cargo(r) = {}
    BY <1>1 DEF Agrees
  <2> QED BY <1>2, <1>3, <1>4, <1>5, <2>1 DEF OnTheWay
<1>7. OnTheWay(w) \in SUBSET TaskId
  BY <1>1, OnTheWayTasks
<1> HIDE DEF T, x, h, r
<1>8. IsFiniteSet(T) /\ Cardinality(T) \in Nat /\ Cardinality(OnTheWay(w)) = Cardinality(T) + 1
  <2>1. T \in SUBSET TaskId
    BY <1>6, <1>7
  <2>2. IsFiniteSet(T) /\ Cardinality(T) \in Nat
    BY <2>1, SubsetFacts
  <2>3. Cardinality(T \cup {x}) = IF x \in T THEN Cardinality(T) ELSE Cardinality(T) + 1
    BY <2>2, FS_AddElement
  <2> QED BY <1>6, <2>2, <2>3
<1>9. Cardinality(OnTheWay(w)) <= sup.inFlight[w] /\ sup.inFlight[w] \in Nat
  BY <1>1 DEF Letters
<1>10. sup.inFlight[w] # 0 /\ Cardinality(T) <= sup.inFlight[w] - 1
  BY <1>8, <1>9
<1>11. sup.outstandingMessages # 0
  <2>1. <<w, 0>> \in Tokens(sup.inFlight)
    BY <1>1, <1>9, <1>10 DEF Tokens
  <2>2. IsFiniteSet(Tokens(sup.inFlight)) /\ sup.outstandingMessages = Cardinality(Tokens(sup.inFlight))
    BY DEF Letters
  <2> QED BY <2>1, <2>2, FS_EmptySet
<1> QED BY <1>1, <1>9, <1>10, <1>11 DEF T, r

LEMMA AckedLetters ==
  ASSUME Inv, Queues, Own, Steady, Effect, Letters, NEW w \in Worker, Acked(w)
  PROVE  Letters'
<1> DEFINE f == sup.inFlight
<1>1. /\ f \in [Worker -> Nat] /\ sup.outstandingMessages \in Nat /\ f[w] \in Nat
      /\ sup'.registered = sup.registered /\ w \in sup.registered /\ sup.registered \in SUBSET Worker
      /\ toSup[w] # << >> /\ toSup'[w] = Tail(toSup[w]) /\ toWorker' = toWorker
      /\ IsFiniteSet(Tokens(f)) /\ sup.outstandingMessages = Cardinality(Tokens(f))
  BY Listed, SupTypes DEF Acked, SameTeam, Letters
<1>2. PICK own \in SUBSET Load(Head(toSup[w])), k \in {0, 1} :
        /\ Delivered(sup', sup, w, k) /\ (k = 1 => own # {} \/ Head(toSup[w]).cmd = "ACKB")
  BY DEF Acked
<1>3. CASE k = 0
  <2>1. Max({0, f[w] - 0}) = f[w]
    <3>1. f[w] - 0 \in Int /\ 0 \in Int /\ f[w] - 0 = f[w]
      BY <1>1
    <3>2. Max({0, f[w] - 0}) \in {0, f[w] - 0} /\ Max({0, f[w] - 0}) >= f[w] - 0
      BY <3>1, TwoNumbers
    <3> HIDE DEF f
    <3>3. \A m : m \in {0, f[w] - 0} /\ m >= f[w] - 0 => m = f[w]
      BY <1>1
    <3> QED BY <3>2, <3>3
  <2>2. sup'.inFlight = [f EXCEPT ![w] = Max({0, @ - 0})] /\ sup'.outstandingMessages = sup.outstandingMessages - 0
    BY <1>2, <1>3 DEF Delivered
  <2> HIDE DEF f
  <2>3. sup'.inFlight = f /\ sup'.outstandingMessages = sup.outstandingMessages
    BY <1>1, <2>1, <2>2
  <2>4. SameMessages(sup', sup)
    BY <2>3 DEF SameMessages, f
  <2> QED BY <1>1, <2>4, KeptLetters
<1>4. CASE k = 1
  <2>1. Load(Head(toSup[w])) # {} \/ Head(toSup[w]).cmd = "ACKB"
    BY <1>2, <1>4
  <2>2. /\ f[w] \in Nat \ {0} /\ sup.outstandingMessages \in Nat \ {0}
        /\ Cardinality(Leads(toWorker[w]) \cup Leads(Tail(toSup[w]))) <= f[w] - 1
    BY <1>1, <2>1, AckIsCounted
  <2>3. sup'.inFlight = [f EXCEPT ![w] = Max({0, @ - 1})] /\ sup'.outstandingMessages = sup.outstandingMessages - 1
    BY <1>2, <1>4 DEF Delivered
  <2> HIDE DEF f
  <2>4. Max({0, f[w] - 1}) = f[w] - 1
    <3>1. f[w] - 1 \in Nat /\ 0 \in Int /\ f[w] - 1 \in Int
      BY <2>2
    <3>2. Max({0, f[w] - 1}) \in {0, f[w] - 1} /\ Max({0, f[w] - 1}) >= f[w] - 1
      BY <3>1, TwoNumbers
    <3>3. \A m : m \in {0, f[w] - 1} /\ m >= f[w] - 1 => m = f[w] - 1
      BY <3>1
    <3> QED BY <3>2, <3>3
  <2>5. sup'.inFlight = [f EXCEPT ![w] = @ - 1]
    BY <2>3, <2>4
  <2>6. IsFiniteSet(Tokens(sup'.inFlight)) /\ Cardinality(Tokens(sup'.inFlight)) = Cardinality(Tokens(f)) - 1
    BY <1>1, <2>2, <2>5, TokenTaken
  <2>7. \A v \in Worker : v # w => sup'.inFlight[v] = f[v]
    BY <1>1, <2>5
  <2>8. sup'.inFlight[w] = f[w] - 1
    BY <1>1, <2>5
  <2>9. ASSUME NEW v \in sup'.registered PROVE Cardinality(Leads(toWorker'[v]) \cup Leads(toSup'[v])) <= sup'.inFlight[v]
    <3> DEFINE T == Leads(toWorker'[v]) \cup Leads(toSup'[v])
    <3>1. CASE v = w
      BY <1>1, <2>2, <2>8, <3>1
    <3>2. CASE v # w
      <4>1. v \in Worker /\ v \in sup.registered /\ f[v] \in Nat /\ sup'.inFlight[v] = f[v]
        BY <1>1, <2>7, <2>9, <3>2
      <4>2. ~Dispatched(v)
        <5>1. f[v] # f[v] + 1 /\ [f EXCEPT ![v] = @ + 1][v] = f[v] + 1
          BY <1>1, <4>1
        <5> QED BY <4>1, <5>1 DEF Dispatched, f
      <4>3. Cardinality(T) <= Cardinality(OnTheWay(v)) /\ Cardinality(T) \in Nat /\ Cardinality(OnTheWay(v)) \in Nat
        BY <4>1, <4>2, OthersLetters
      <4>4. Cardinality(OnTheWay(v)) <= f[v]
        BY <4>1 DEF Letters, f
      <4> HIDE DEF T
      <4>5. Cardinality(T) <= sup'.inFlight[v]
        BY <4>1, <4>3, <4>4
      <4> QED BY <4>5 DEF T
    <3> QED BY <3>1, <3>2
  <2>10. \A v \in Worker \ sup'.registered : sup'.inFlight[v] = 0
    <3>1. \A v \in Worker \ sup'.registered : v # w /\ f[v] = 0
      BY <1>1 DEF Letters, f
    <3> QED BY <2>7, <3>1
  <2>11. sup'.outstandingMessages = Cardinality(Tokens(sup'.inFlight))
    BY <1>1, <2>3, <2>6
  <2> QED BY <2>6, <2>9, <2>10, <2>11 DEF Letters, OnTheWay
<1> QED BY <1>2, <1>3, <1>4

LEMMA DispatchedLetters ==
  ASSUME Inv, Steady, Effect, Letters, NEW w \in Worker, Dispatched(w)
  PROVE  Letters'
<1> DEFINE f == sup.inFlight
<1>1. /\ f \in [Worker -> Nat] /\ sup.outstandingMessages \in Nat /\ f[w] \in Nat
      /\ sup'.registered = sup.registered /\ w \in sup.registered /\ sup.registered \in SUBSET Worker
      /\ toWorker \in [Worker -> Seq(Messages)] /\ toSup' = toSup
      /\ sup'.inFlight = [f EXCEPT ![w] = @ + 1] /\ sup'.outstandingMessages = sup.outstandingMessages + 1
      /\ IsFiniteSet(Tokens(f)) /\ sup.outstandingMessages = Cardinality(Tokens(f))
  BY Listed, SupTypes DEF Dispatched, SameTeam, Letters, Inv, Typed
<1>2. PICK m \in Messages : toWorker' = [toWorker EXCEPT ![w] = Append(@, m)]
  BY DEF Dispatched
<1> HIDE DEF f
<1>3. IsFiniteSet(Tokens(sup'.inFlight)) /\ Cardinality(Tokens(sup'.inFlight)) = Cardinality(Tokens(f)) + 1
  BY <1>1, TokenAdded
<1>4. sup'.inFlight[w] = f[w] + 1 /\ \A v \in Worker : v # w => sup'.inFlight[v] = f[v]
  BY <1>1
<1>5. ASSUME NEW v \in sup'.registered PROVE Cardinality(Leads(toWorker'[v]) \cup Leads(toSup'[v])) <= sup'.inFlight[v]
  <2>1. v \in Worker /\ v \in sup.registered /\ f[v] \in Nat /\ Cardinality(OnTheWay(v)) <= f[v]
    BY <1>1, <1>5 DEF Letters, f
  <2>2. CASE v # w
    <3>1. toWorker'[v] = toWorker[v]
      BY <1>1, <1>2, <2>1, <2>2
    <3> QED BY <1>1, <1>4, <2>1, <2>2, <3>1 DEF OnTheWay
  <2>3. CASE v = w
    <3>1. toWorker'[v] = Append(toWorker[v], m)
      BY <1>1, <1>2, <2>1, <2>3
    <3>2. Leads(toWorker'[v]) = Leads(toWorker[v]) \cup Lead(m)
      BY <1>1, <2>1, <3>1, AppendMessage
    <3> DEFINE S == OnTheWay(v)
               L == Lead(m)
    <3>3. Leads(toWorker'[v]) \cup Leads(toSup'[v]) = S \cup L
      BY <1>1, <3>2 DEF OnTheWay
    <3>4. S \in SUBSET TaskId /\ IsFiniteSet(S) /\ Cardinality(S) \in Nat
      BY <2>1, OnTheWayTasks, SubsetFacts DEF Inv
    <3>5. L = {} \/ L = {m.ids[1]}
      BY LeadCount
    <3> HIDE DEF S, L
    <3>6. Cardinality(S \cup L) <= Cardinality(S) + 1
      <4>1. CASE L = {}
        <5>1. S \cup L = S
          BY <4>1
        <5> QED BY <3>4, <5>1
      <4>2. CASE L = {m.ids[1]}
        <5> DEFINE x == m.ids[1]
        <5> HIDE DEF x
        <5>1. Cardinality(S \cup {x}) = IF x \in S THEN Cardinality(S) ELSE Cardinality(S) + 1
          BY <3>4, FS_AddElement
        <5>2. S \cup L = S \cup {x}
          BY <4>2 DEF x
        <5> QED BY <3>4, <5>1, <5>2
      <4> QED BY <3>5, <4>1, <4>2
    <3>7. Cardinality(S \cup L) \in Nat
      <4>1. IsFiniteSet(L)
        BY <3>5, FS_EmptySet, FS_Singleton
      <4>2. IsFiniteSet(S \cup L)
        BY <3>4, <4>1, FS_Union
      <4> QED BY <4>2, FS_CardinalityType
    <3>8. Cardinality(S \cup L) <= sup'.inFlight[v]
      <4>1. Cardinality(S) <= f[v] /\ f[v] \in Nat /\ sup'.inFlight[v] = f[v] + 1
        BY <1>4, <2>1, <2>3 DEF S
      <4> QED BY ONLY <3>4, <3>6, <3>7, <4>1
    <3> QED BY <3>3, <3>8
  <2> QED BY <2>2, <2>3
<1>6. \A v \in Worker \ sup'.registered : sup'.inFlight[v] = 0
  <2>1. \A v \in Worker \ sup'.registered : v # w /\ f[v] = 0
    BY <1>1 DEF Letters, f
  <2> QED BY <1>4, <2>1
<1>7. sup'.outstandingMessages = Cardinality(Tokens(sup'.inFlight))
  BY <1>1, <1>3
<1> QED BY <1>3, <1>5, <1>6, <1>7 DEF Letters, OnTheWay

LEMMA DefinedLetters ==
  ASSUME Inv, Own, Rest, Steady, Effect, Defined
  PROVE  Letters'
<1>1. /\ sup'.inFlight = [v \in Worker |-> 0] /\ sup'.outstandingMessages = 0 /\ pc \in Resting
      /\ sup'.registered = sup.registered /\ sup.registered \in SUBSET Worker /\ Typed
  BY Listed DEF Defined, Inv
<1>2. IsFiniteSet(Tokens(sup'.inFlight)) /\ Cardinality(Tokens(sup'.inFlight)) = 0
  BY <1>1, NoTokens
<1>3. ASSUME NEW v \in sup'.registered PROVE Cardinality(Leads(toWorker'[v]) \cup Leads(toSup'[v])) <= sup'.inFlight[v]
  <2> DEFINE T == Leads(toWorker'[v]) \cup Leads(toSup'[v])
  <2>1. v \in Worker /\ v \in sup.registered
    BY <1>1, <1>3
  <2>2. Cargo(toWorker[v]) \cup Cargo(toSup[v]) = {}
    BY <1>1, <2>1, OwnRuns DEF Rest
  <2>3. ~Dispatched(v)
    <3>1. Looping \cap Resting = {}
      BY DEF Looping, Resting
    <3> QED BY <1>1, <3>1 DEF Dispatched
  <2>4. T \subseteq OnTheWay(v)
    BY <2>1, <2>3, OthersLetters
  <2>5. OnTheWay(v) = {}
    BY <1>1, <2>1, <2>2, OnTheWayTasks
  <2>6. Cardinality(T) = 0
    BY <2>4, <2>5, FS_EmptySet
  <2>7. sup'.inFlight[v] = 0
    BY <1>1, <2>1
  <2> QED BY <2>6, <2>7
<1>4. \A v \in Worker \ sup'.registered : sup'.inFlight[v] = 0
  BY <1>1
<1> QED BY <1>1, <1>2, <1>3, <1>4 DEF Letters, OnTheWay

LEMMA SupervisorLetters ==
  ASSUME Inv, Queues, Own, Youngs, Rest, Steady, Effect, Letters
  PROVE  Letters'
<1>1. sup.registered \in SUBSET Worker /\ Typed
  BY Listed DEF Inv
<1>2. CASE Aside
  BY <1>1, <1>2, KeptLetters DEF Aside, SameTasks, SameTeam
<1>3. ASSUME NEW w \in Worker, Joined(w) PROVE Letters'
  <2>1. Cargo(toWorker[w]) = {} /\ Cargo(toSup[w]) = {}
    BY <1>3 DEF Joined, Youngs
  <2>2. OnTheWay(w) = {}
    BY <1>1, <2>1, OnTheWayTasks
  <2>3. SameMessages(sup', sup) /\ sup'.registered = sup.registered \cup {w}
    BY <1>3 DEF Joined, SameTasks
  <2> QED BY <1>1, <2>2, <2>3, KeptLetters
<1>4. ASSUME NEW w \in Worker, Retained(w) PROVE Letters'
  BY <1>1, <1>4, KeptLetters DEF Retained
<1> QED BY <1>2, <1>3, <1>4, DefinedLetters, FailedLetters, AckedLetters, DispatchedLetters DEF Effect

LEMMA LettersNext ==
  ASSUME Inv, Queues, Ways, Letters, [Next]_vars
  PROVE  Letters'
<1>1. CASE UNCHANGED vars
  BY <1>1 DEF vars, Letters, OnTheWay, Leads
<1>2. CASE Supervises
  BY <1>2, SupervisorEffect, SupervisorLetters DEF Ways
<1>3. CASE \E w \in Worker : Works(w)
  <2>1. PICK w \in Worker : Works(w)
    BY <1>3
  <2>2. \E S, C : Moves(w, S, C)
    BY <2>1, WorkerMoves DEF Works, Inv
  <2>3. PICK S, C : Moves(w, S, C)
    BY <2>2
  <2> QED BY <2>1, <2>3, WorkerLetters DEF Works
<1> QED BY <1>1, <1>2, <1>3, NextCases

LEMMA LettersInit == Init => Letters
<1> SUFFICES ASSUME Init PROVE Letters
  OBVIOUS
<1>1. /\ toWorker = [w \in Worker |-> << >>] /\ toSup = [w \in Worker |-> << >>]
      /\ sup.inFlight = [w \in Worker |-> 0] /\ sup.outstandingMessages = 0 /\ sup.registered \in SUBSET Worker
  BY DEF Init, RunnerInit, ExecutorInit
<1>2. Leads(<< >>) = {}
  <2>1. \A i \in 1..Len(<< >>) : FALSE
    OBVIOUS
  <2> QED BY <2>1 DEF Leads
<1>3. \A w \in Worker : OnTheWay(w) = {}
  BY <1>1, <1>2 DEF OnTheWay
<1>4. Cardinality({}) = 0
  BY FS_EmptySet
<1>5. IsFiniteSet(Tokens(sup.inFlight)) /\ Cardinality(Tokens(sup.inFlight)) = 0
  BY <1>1, NoTokens
<1>6. \A w \in Worker : sup.inFlight[w] = 0
  BY <1>1
<1>7. \A w \in Worker : Cardinality(OnTheWay(w)) <= sup.inFlight[w]
  BY <1>3, <1>4, <1>6
<1>8. sup.outstandingMessages = Cardinality(Tokens(sup.inFlight))
  BY <1>1, <1>5
<1>9. sup.registered \in SUBSET Worker
  BY <1>1
<1> QED BY <1>5, <1>6, <1>7, <1>8, <1>9 DEF Letters

-----------------------------------------------------------------------------
(* The consistency errors of the loop *)

\* Only an acknowledgement, or the end of the loop, raises one of them.
LEMMA ErrCases ==
  ASSUME [Next]_vars, NoInternalError,
         ~(\E w \in Worker : ReceiveAck(w) /\ err' = "underflow"), ~(LoopEnd /\ err' = "unacknowledged")
  PROVE  NoInternalError'
<1>1. CASE UNCHANGED vars
  BY <1>1 DEF vars, NoInternalError
<1>2. CASE \E w \in Worker : Works(w)
  BY <1>2 DEF Works, supervisor, NoInternalError
<1>3. CASE StartStep \/ Deadline \/ UserInterrupt
  BY <1>3 DEF StartStep, StartReady, StartTcp, InitTcpWorker, StartDrops, InitReceive, StartDone, Deadline,
              InitTimeout, StartTimeout, GraceExpires, InactiveTcpWorker, Stall, FinishTimeout, UserInterrupt,
              Throw, NoInternalError
<1>4. CASE LoopStep
  <2>1. CASE LoopEnd
    BY <2>1 DEF LoopEnd, Throw, NoInternalError
  <2>2. CASE StartDefinition \/ LoopTop \/ LoopFails \/ DispatchDone \/ NothingReceived \/ IdleDone
    BY <2>2 DEF StartDefinition, LoopTop, LoopFails, DispatchDone, NothingReceived, IdleDone, Throw, NoInternalError
  <2>3. CASE Dispatch
    BY <2>3 DEF Dispatch, Throw, NoInternalError
  <2>4. CASE Cleanup
    BY <2>4 DEF Cleanup, NoInternalError
  <2>5. CASE ChildExited
    BY <2>5 DEF ChildExited, Throw, NoInternalError
  <2> QED BY <1>4, <2>1, <2>2, <2>3, <2>4, <2>5 DEF LoopStep
<1>5. CASE FinishStep
  BY <1>5 DEF FinishStep, SendStop, WaitChildren, FinishReceive, FinishDone, Merge, NoInternalError
<1>6. CASE \E w \in Worker : Receive(w)
  <2>1. PICK w \in Worker : Receive(w)
    BY <1>6
  <2>2. CASE ReceiveAck(w)
    BY <2>2 DEF ReceiveAck, Throw, NoInternalError
  <2>3. CASE ~ReceiveAck(w)
    BY <2>1, <2>3 DEF Receive, ReceiveReady, ReceiveInitAck, ReceiveShutdown, ReceiveDone, ReceiveErr, Throw, NoInternalError
  <2> QED BY <2>2, <2>3
<1> QED BY <1>1, <1>2, <1>3, <1>4, <1>5, <1>6, NextCases DEF Supervises, SupervisorStep

\* The counters cover every acknowledgement of a registered worker.
LEMMA NoUnderflow ==
  ASSUME Inv, Queues, Own, Letters, NEW w \in Worker, ReceiveAck(w)
  PROVE  err' = err
<1> DEFINE h == Head(toSup[w])
           own == Owned(sup, w, h.ids)
           k == IF h.cmd = "ACKB" \/ own # {} THEN 1 ELSE 0
<1>1. /\ Takes(w) /\ h.cmd \in {"ACK", "ACKB"} /\ sup \in Sups /\ Typed /\ Books(sup, pc = "cleanup")
      /\ \/ err' = err
         \/ w \in sup.registered /\ (k > sup.outstandingMessages \/ Cardinality(own) > sup.outstanding)
  BY DEF ReceiveAck, Got, Throw, Inv, Typed
<1>2. h.ids \in Seq(TaskId) /\ Load(h) = Range(h.ids) /\ toSup[w] # << >>
  BY <1>1, TakesTypes, MessageFields DEF Load
<1>3. own \subseteq Load(h)
  BY <1>2 DEF Owned
<1>4. Cardinality(own) \in Nat /\ Cardinality(own) <= sup.outstanding /\ sup.outstanding \in Nat
  BY <1>1, <1>2, OwnedRuns, SupTypes
<1>5. ASSUME w \in sup.registered PROVE k \in Nat /\ k <= sup.outstandingMessages /\ sup.outstandingMessages \in Nat
  <2>1. sup.outstandingMessages \in Nat
    BY <1>1, SupTypes
  <2>2. k = 0 \/ (k = 1 /\ (own # {} \/ h.cmd = "ACKB"))
    OBVIOUS
  <2>3. own # {} \/ h.cmd = "ACKB" => sup.outstandingMessages # 0
    <3>1. own # {} \/ h.cmd = "ACKB" => Load(h) # {} \/ h.cmd = "ACKB"
      BY <1>3
    <3> QED BY <1>2, <1>5, <3>1, AckIsCounted
  <2> HIDE DEF k, own, h
  <2> QED BY <2>1, <2>2, <2>3
<1> HIDE DEF k, own, h
<1> QED BY <1>1, <1>4, <1>5

\* When no work is left, nothing is pending and nothing runs.
LEMMA NoneUnacknowledged ==
  ASSUME Inv, LoopEnd
  PROVE  err' = err
<1>1. sup \in Sups /\ Sound(sup.mgr) /\ sup.outstanding >= Cardinality(M!Running(sup.mgr)) /\ sup.outstanding \in Nat
  BY Listed, SupTypes DEF Inv, Books, Counted
<1>2. ~(sup.outstanding > 0) /\ sup.mgr.fPending = << >>
  BY DEF LoopEnd, WorkLeft, M!HasPending
<1>3. M!Running(sup.mgr) \in SUBSET TaskId
  BY DEF M!Running
<1>4. M!Running(sup.mgr) = {}
  <2>1. Cardinality(M!Running(sup.mgr)) \in Nat /\ (Cardinality(M!Running(sup.mgr)) = 0 => M!Running(sup.mgr) = {})
    BY <1>3, SubsetFacts
  <2> QED BY <1>1, <1>2, <2>1
<1>5. ~(M!PendingCount(mgr) > 0)
  <2>1. Len(<< >>) = 0
    OBVIOUS
  <2> QED BY <1>2, <2>1 DEF M!PendingCount, mgr
<1> QED BY <1>4, <1>5 DEF LoopEnd, mgr

\* The loop never ends in one of its own consistency errors: no acknowledgement
\* finds a counter too small, and when no work is left every task is done
\* (ExecuteCurrentBoundsProcessIpc).
THEOREM NoInternalErrorAlways == Spec => []NoInternalError
<1> DEFINE I == Inv /\ Queues /\ Current /\ Ways /\ Letters /\ NoInternalError
<1>1. Init => I
  <2>1. Init => NoInternalError
    BY DEF Init, ExecutorInit, NoInternalError
  <2> QED BY <2>1, InitInv, QueuesInit, WaysInit, LettersInit
<1>2. I /\ [Next]_vars => I'
  <2> SUFFICES ASSUME I, [Next]_vars PROVE I'
    OBVIOUS
  <2>1. Inv' /\ Queues' /\ Current' /\ Ways' /\ Letters'
    BY NextInv, QueuesNext, WaysNext, LettersNext
  <2>2. NoInternalError'
    <3>1. \A w \in Worker : ReceiveAck(w) => err' = err
      BY NoUnderflow DEF Ways
    <3>2. LoopEnd => err' = err
      BY NoneUnacknowledged
    <3>3. err \notin {"underflow", "unacknowledged"}
      BY DEF NoInternalError
    <3> QED BY <3>1, <3>2, <3>3, ErrCases
  <2> QED BY <2>1, <2>2
<1> QED BY <1>1, <1>2, PTL DEF Spec

-----------------------------------------------------------------------------
(* The results files *)

Finished == {"closed", "exited", "dead"}

\* A results file holds all its worker has processed, or will process.
Saved == \A w \in Worker : file[w] # NoFile => wpc[w] \in Finished /\ file[w] = mem[w]

\* A worker saves when it closes, and then does nothing more but exit.
LEMMA WorkerEnds ==
  ASSUME NEW w \in Worker, Works(w)
  PROVE  /\ \/ wpc' = wpc
            \/ \E p : wpc' = [wpc EXCEPT ![w] = p]
         /\ wpc[w] \in Finished => /\ mem' = mem /\ file' = file
                                   /\ \E p \in Finished : wpc' = [wpc EXCEPT ![w] = p]
<1>1. CASE Connect(w) \/ ReceiveInit(w) \/ StopBeforeInit(w) \/ ReceiveSetDef(w) \/ ReceiveTask(w) \/ ReceiveBatch(w)
  BY <1>1 DEF Connect, ReceiveInit, StopBeforeInit, ReceiveSetDef, ReceiveTask, ReceiveBatch, Goes, Finished, workers
<1>2. CASE ReceiveStop(w) \/ StopInsideBatch(w) \/ CloseFile(w)
  BY <1>2 DEF ReceiveStop, StopInsideBatch, CloseFile, Goes, Finished
<1>3. CASE GiveUpInit(w, Over) \/ TaskThrows(w) \/ AckFails(w) \/ Interrupt(w)
  BY <1>3 DEF GiveUpInit, TaskThrows, AckFails, Interrupt, Goes, Finished
<1>4. CASE Exit(w) \/ Crash(w)
  BY <1>4 DEF Exit, Crash, Goes, Finished
<1> QED BY <1>1, <1>2, <1>3, <1>4 DEF Works, WorkerStep, WorkerFault

\* The supervisor can do no more to a worker than kill it.
LEMMA SupervisorKills ==
  ASSUME Typed, Supervises
  PROVE  \A v \in Worker : wpc'[v] \in {wpc[v], "dead"}
<1>0. wpc \in [Worker -> WorkerStates]
  BY DEF Typed
<1>1. CASE StartStep \/ Deadline \/ UserInterrupt
  BY <1>0, <1>1 DEF StartStep, StartReady, StartTcp, InitTcpWorker, StartDrops, InitReceive, StartDone, Deadline,
              InitTimeout, StartTimeout, GraceExpires, InactiveTcpWorker, Stall, FinishTimeout, UserInterrupt, workers
<1>2. CASE LoopStep
  BY <1>2 DEF LoopStep, StartDefinition, LoopTop, LoopFails, LoopEnd, Dispatch, DispatchDone, Cleanup,
              NothingReceived, ChildExited, IdleDone, workers
<1>3. CASE FinishStep
  BY <1>0, <1>3 DEF FinishStep, SendStop, WaitChildren, FinishReceive, FinishDone, Merge, workers
<1>4. CASE \E w \in Worker : Receive(w)
  BY <1>4 DEF Receive, ReceiveReady, ReceiveInitAck, ReceiveShutdown, ReceiveDone, ReceiveAck, ReceiveErr, workers
<1> QED BY <1>1, <1>2, <1>3, <1>4 DEF Supervises, SupervisorStep

LEMMA SavedNext ==
  ASSUME Inv, Queues, Files, Saved, [Next]_vars
  PROVE  Saved'
<1>0. Typed /\ wpc \in [Worker -> WorkerStates] /\ mem \in [Worker -> SUBSET Work] /\ file \in [Worker -> {NoFile} \cup SUBSET Work]
  BY DEF Inv, Typed, Queues, Files
<1>1. CASE UNCHANGED vars
  BY <1>1 DEF vars, Saved
<1>2. CASE Supervises
  <2>1. mem' = mem /\ file' = file
    BY <1>2, SupervisorEffect, SupervisorFile DEF Steady
  <2>2. \A v \in Worker : wpc'[v] \in {wpc[v], "dead"}
    BY <1>0, <1>2, SupervisorKills
  <2> QED BY <2>1, <2>2 DEF Saved, Finished
<1>3. CASE \E w \in Worker : Works(w)
  <2>1. PICK w \in Worker : Works(w)
    BY <1>3
  <2>2. \E S, C : Moves(w, S, C)
    BY <2>1, WorkerMoves DEF Works, Inv
  <2>3. PICK S, C : Moves(w, S, C)
    BY <2>2
  <2>4. \A v \in Worker : v # w => mem'[v] = mem[v]
    BY <1>0, <2>3, MovesFacts
  <2>5. CASE wpc[w] \in Finished
    <3>1. PICK p \in Finished : wpc' = [wpc EXCEPT ![w] = p]
      BY <2>1, <2>5, WorkerEnds
    <3>2. mem' = mem /\ file' = file
      BY <2>1, <2>5, WorkerEnds
    <3> QED BY <1>0, <3>1, <3>2 DEF Saved
  <2>6. CASE wpc[w] \notin Finished
    <3>1. file[w] = NoFile
      BY <2>6 DEF Saved
    <3>2. \A v \in Worker : v # w => wpc'[v] = wpc[v]
      <4>1. wpc' = wpc \/ \E p : wpc' = [wpc EXCEPT ![w] = p]
        BY <2>1, WorkerEnds
      <4> QED BY <1>0, <4>1
    <3>3. CASE file' = file
      BY <2>4, <3>1, <3>2, <3>3 DEF Saved
    <3>4. CASE CloseFile(w) /\ file' = [file EXCEPT ![w] = mem[w]]
      <4>1. mem' = mem /\ wpc' = [wpc EXCEPT ![w] = "closed"]
        BY <3>4 DEF CloseFile, Goes
      <4> QED BY <1>0, <3>2, <3>4, <4>1 DEF Saved, Finished
    <3> QED BY <2>1, <3>3, <3>4, WorkerFile
  <2> QED BY <2>5, <2>6
<1> QED BY <1>1, <1>2, <1>3, NextCases

-----------------------------------------------------------------------------
(* The reports of the workers *)

Reports(s) == s.earlyDone \cup s.doneWorkers

\* What HandleWorkerFailure and the other helpers do is no report.
LEMMA FailureReports ==
  ASSUME Inv, NEW w \in Worker, NEW n, n = HandleWorkerFailure(sup, w)
  PROVE  n \in Sups /\ Reports(n) = Reports(sup)
<1> DEFINE c == pc = "cleanup"
<1>1. sup \in Sups /\ Books(sup, c) /\ OneToOne(sup.vec)
  BY DEF Inv, Typed, Joins, Stages
<1> HIDE DEF c
<1>2. n \in Sups /\ SameRest(n, sup)
  BY <1>1, FailureBooks
<1> QED BY <1>2 DEF SameRest, Reports

LEMMA StartReports ==
  ASSUME Inv, StartStep \/ Deadline \/ UserInterrupt
  PROVE  Reports(sup') = Reports(sup)
<1>0. sup \in Sups
  BY Listed
<1>1. ASSUME NEW w \in Worker, StartReady(w) \/ InitReceive(w) PROVE Reports(sup') = Reports(sup)
  BY <1>0, <1>1 DEF StartReady, InitReceive, Join, Reports, Sups
<1>2. ASSUME NEW w \in Worker, StartTcp(w) \/ StartDrops(w) PROVE Reports(sup') = Reports(sup)
  BY <1>0, <1>2 DEF StartTcp, InitTcpWorker, StartDrops, Reports, Sups
<1>3. CASE StartDone \/ InitTimeout \/ StartTimeout \/ GraceExpires \/ Stall \/ FinishTimeout \/ UserInterrupt
  BY <1>0, <1>3 DEF StartDone, InitTimeout, StartTimeout, GraceExpires, Stall, FinishTimeout, UserInterrupt, Reports, Sups
<1>4. ASSUME NEW w \in Worker, InactiveTcpWorker(w) PROVE Reports(sup') = Reports(sup)
  BY <1>4, FailureReports DEF InactiveTcpWorker
<1> QED BY <1>1, <1>2, <1>3, <1>4 DEF StartStep, Deadline

LEMMA LoopReports ==
  ASSUME Inv, LoopStep
  PROVE  Reports(sup') = Reports(sup)
<1>0. sup \in Sups /\ \A k \in 1..Len(sup.vec) : sup.vec[k] \in Worker
  BY Listed, SupTypes
<1>1. CASE StartDefinition
  <2> DEFINE d == sup.def + 1
  <2>1. \/ sup' = Begin(sup, d)
        \/ \E w \in Range(sup.vec) : sup' = [Begin(sup, d) EXCEPT !.failed = @ \cup {w}]
    BY <1>1 DEF StartDefinition
  <2>2. d \in Defs
    <3>1. sup.def \in 0..Len(TasksOf) /\ sup.def < Len(TasksOf) /\ Len(TasksOf) \in Nat
      BY <1>0, <1>1, SupTypes, ExecutorConstants DEF StartDefinition
    <3> QED BY <3>1 DEF Defs
  <2> DEFINE n == Begin(sup, d)
  <2>3. n \in Sups /\ n.earlyDone = sup.earlyDone /\ n.doneWorkers = sup.doneWorkers
    <3>1. Begun(n, sup, d)
      BY <1>0, <2>2, BeginBooks
    <3>2. n.earlyDone = sup.earlyDone /\ n.doneWorkers = sup.doneWorkers
      BY <1>0 DEF Begin, Sups
    <3> HIDE DEF n
    <3> QED BY <3>1, <3>2 DEF Begun
  <2> HIDE DEF n, d
  <2>4. CASE sup' = n
    BY <2>3, <2>4 DEF Reports
  <2>5. ASSUME NEW F, sup' = [n EXCEPT !.failed = F] PROVE Reports(sup') = Reports(sup)
    BY <2>3, <2>5 DEF Reports, Sups
  <2> QED BY <2>1, <2>4, <2>5 DEF n
<1>2. CASE LoopTop \/ LoopFails \/ LoopEnd \/ DispatchDone \/ NothingReceived \/ IdleDone
  BY <1>0, <1>2 DEF LoopTop, LoopFails, LoopEnd, DispatchDone, NothingReceived, IdleDone, Step, Reports, Sups
<1>3. CASE Dispatch
  BY <1>0, <1>3 DEF Dispatch, Fill, Reports, Sups
<1>4. CASE Cleanup
  <2>1. sup' = sup \/ \E k \in 1..Len(sup.vec) : sup' = HandleWorkerFailure(sup, sup.vec[k])
    BY <1>4 DEF Cleanup
  <2> QED BY <1>0, <2>1, FailureReports
<1>5. CASE ChildExited
  <2> DEFINE w == CHOOSE v \in Exited : \A u \in Exited : v <= u
             n == HandleWorkerFailure(sup, w)
  <2>1. Exited # {} /\ sup' = [n EXCEPT !.reaped = @ \cup {w}]
    BY <1>5 DEF ChildExited
  <2>2. w \in Worker
    <3>1. Exited \in SUBSET Worker
      BY DEF Exited
    <3>2. Exited \in SUBSET Nat
      BY <3>1, RunnerConstants
    <3>3. \E v \in Exited : \A u \in Exited : v <= u
      BY <2>1, <3>2, LeastNat
    <3> QED BY <3>1, <3>3
  <2> HIDE DEF w
  <2>3. n \in Sups /\ Reports(n) = Reports(sup)
    BY <2>2, FailureReports
  <2> HIDE DEF n
  <2> QED BY <2>1, <2>3 DEF Reports, Sups
<1> QED BY <1>1, <1>2, <1>3, <1>4, <1>5 DEF LoopStep

\* A worker is reported to be done when its DONE is received.
LEMMA SupervisorReports ==
  ASSUME Inv, Supervises
  PROVE  \A v \in Reports(sup') : v \in Reports(sup) \/ Carries(toSup[v], "DONE")
<1>0. sup \in Sups /\ Typed
  BY Listed DEF Inv
<1>1. ASSUME NEW w \in Worker, Takes(w), Head(toSup[w]).cmd = "DONE"
      PROVE  Carries(toSup[w], "DONE")
  <2>1. toSup[w] \in Seq(Messages) /\ toSup[w] # << >>
    BY <1>0, <1>1 DEF Typed, Takes
  <2> QED BY <1>1, <2>1, TailMessages
<1>2. CASE StartStep \/ Deadline \/ UserInterrupt \/ LoopStep
  BY <1>2, StartReports, LoopReports
<1>3. CASE FinishStep
  <2>1. CASE SendStop \/ WaitChildren \/ FinishDone \/ Merge
    <3>1. CASE SendStop
      BY <1>0, <3>1 DEF SendStop, Step, Reports, Sups
    <3>2. CASE WaitChildren
      BY <1>0, <3>2 DEF WaitChildren, Step, Reports, Sups
    <3>3. CASE FinishDone \/ Merge
      BY <1>0, <3>3 DEF FinishDone, Merge, Step, Reports, Sups
    <3> QED BY <2>1, <3>1, <3>2, <3>3
  <2>2. ASSUME NEW w \in Worker, FinishReceive(w)
        PROVE  \A v \in Reports(sup') : v \in Reports(sup) \/ Carries(toSup[v], "DONE")
    <3>1. Takes(w)
      BY <2>2 DEF FinishReceive
    <3>2. CASE Head(toSup[w]).cmd = "DONE"
      <4>1. Carries(toSup[w], "DONE")
        BY <1>1, <3>1, <3>2
      <4>2. Reports(sup') \subseteq Reports(sup) \cup {w}
        BY <1>0, <2>2, <3>2 DEF FinishReceive, Reports, Sups
      <4> QED BY <4>1, <4>2
    <3>3. CASE Head(toSup[w]).cmd # "DONE"
      BY <1>0, <2>2, <3>3 DEF FinishReceive, Reports, Sups
    <3> QED BY <3>2, <3>3
  <2> QED BY <1>3, <2>1, <2>2 DEF FinishStep
<1>4. ASSUME NEW w \in Worker, Receive(w)
      PROVE  \A v \in Reports(sup') : v \in Reports(sup) \/ Carries(toSup[v], "DONE")
  <2>1. CASE ReceiveReady(w) \/ ReceiveInitAck(w) \/ ReceiveErr(w)
    BY <1>0, <2>1 DEF ReceiveReady, ReceiveInitAck, ReceiveErr, Join, Reports, Sups
  <2>2. CASE ReceiveShutdown(w)
    BY <2>2, FailureReports DEF ReceiveShutdown
  <2>3. CASE ReceiveDone(w)
    <3>1. Carries(toSup[w], "DONE")
      BY <1>1, <2>3 DEF ReceiveDone, Got
    <3>2. Reports(sup') \subseteq Reports(sup) \cup {w}
      BY <1>0, <2>3 DEF ReceiveDone, Reports, Sups
    <3> QED BY <3>1, <3>2
  <2>4. CASE ReceiveAck(w)
    BY <1>0, <2>4 DEF ReceiveAck, Settle, Reports, Sups
  <2> QED BY <1>4, <2>1, <2>2, <2>3, <2>4 DEF Receive
<1> QED BY <1>2, <1>3, <1>4 DEF Supervises, SupervisorStep

\* No results file is lost on its way to the results directory.
CopiesSucceed == IsTcp => "copy" \notin Faults

\* DONE comes from a worker that has written its results file.
Reported ==
  /\ \A w \in Worker : Carries(toSup[w], "DONE") => file[w] # NoFile
  /\ \A w \in Reports(sup) : file[w] # NoFile

LEMMA ReportedNext ==
  ASSUME Inv, Queues, Files, Reported, CopiesSucceed, [Next]_vars
  PROVE  Reported'
<1>0. Typed /\ sup \in Sups /\ mem \in [Worker -> SUBSET Work] /\ file \in [Worker -> {NoFile} \cup SUBSET Work]
  BY Listed DEF Inv, Queues, Files
<1>1. CASE UNCHANGED vars
  BY <1>1 DEF vars, Reported, Carries
<1>2. CASE Supervises
  <2>1. file' = file
    BY <1>2, SupervisorFile
  <2>2. ASSUME NEW v \in Worker, Carries(toSup'[v], "DONE") PROVE Carries(toSup[v], "DONE")
    <3>1. toSup'[v] = toSup[v] \/ (toSup[v] # << >> /\ toSup'[v] = Tail(toSup[v]))
      BY <1>2, SupervisorEffect DEF Steady
    <3>2. toSup[v] \in Seq(Messages)
      BY <1>0 DEF Typed
    <3> QED BY <2>2, <3>1, <3>2, TailMessages
  <2>3. Reports(sup) \subseteq Worker
    BY <1>0 DEF Reports, Sups
  <2>4. \A v \in Reports(sup') : v \in Reports(sup) \/ Carries(toSup[v], "DONE")
    BY <1>2, SupervisorReports
  <2>5. sup' \in Sups
    BY <1>2, NextInv DEF Inv, Typed
  <2>6. Reports(sup') \subseteq Worker
    BY <2>5 DEF Reports, Sups
  <2> QED BY <2>1, <2>2, <2>4, <2>6 DEF Reported
<1>3. CASE \E w \in Worker : Works(w)
  <2>1. PICK w \in Worker : Works(w)
    BY <1>3
  <2>2. \E S, C : Moves(w, S, C)
    BY <2>1, WorkerMoves DEF Works, Inv
  <2>3. PICK S, C : Moves(w, S, C)
    BY <2>2
  <2>4. sup' = sup
    BY <2>1 DEF Works, supervisor
  <2>5. \A v \in Worker : v # w => toSup'[v] = toSup[v]
    BY <1>0, <2>3, MovesFacts
  <2>6. "DONE" \notin C => (Carries(toSup'[w], "DONE") => Carries(toSup[w], "DONE"))
    BY <1>0, <2>3, MovesFacts
  <2>7. CASE CloseFile(w)
    <3>1. file' = [file EXCEPT ![w] = mem[w]]
      BY <2>7 DEF CloseFile, Spend, CopiesSucceed
    <3>2. mem[w] # NoFile
      BY <1>0, NoFileAssumption
    <3> QED BY <1>0, <2>4, <2>5, <3>1, <3>2 DEF Reported
  <2>8. CASE ~CloseFile(w)
    <3>1. file' = file
      BY <2>1, <2>8, WorkerFile
    <3>2. "DONE" \notin C
      BY <2>3, <2>8 DEF Moves
    <3> QED BY <2>4, <2>5, <2>6, <3>1, <3>2 DEF Reported
  <2> QED BY <2>7, <2>8
<1> QED BY <1>1, <1>2, <1>3, NextCases

-----------------------------------------------------------------------------
(* The end of the session *)

\* Every task number below next has been taken into the manager, and stays.
Entered == \A t \in TaskId : t < sup.next => M!TaskExists(sup.mgr, t)

LEMMA EnteredNext ==
  ASSUME Inv, Entered, [Next]_vars
  PROVE  Entered'
<1>1. CASE UNCHANGED vars \/ \E w \in Worker : Works(w)
  BY <1>1 DEF vars, Works, supervisor, Entered
<1>2. CASE Supervises
  <2>1. Effect
    BY <1>2, SupervisorEffect
  <2>2. CASE Aside
    BY <2>2 DEF Aside, SameTasks, Entered
  <2>3. CASE Defined
    <3>1. sup'.next = 0
      BY <2>3 DEF Defined
    <3>2. \A t \in TaskId : ~(t < 0)
      BY Tasks
    <3> QED BY <3>1, <3>2 DEF Entered
  <2>4. ASSUME NEW w \in Worker, Joined(w) \/ Failed(w) PROVE Entered'
    BY <2>4 DEF Joined, SameTasks, Failed, Forgets, Entered
  <2>5. ASSUME NEW w \in Worker, Acked(w) PROVE Entered'
    BY <2>5 DEF Acked, Settled, Entered
  <2>6. ASSUME NEW w \in Worker, Dispatched(w) \/ Retained(w) PROVE Entered'
    BY <2>6 DEF Dispatched, Retained, Charged, Entered
  <2> QED BY <2>1, <2>2, <2>3, <2>4, <2>5, <2>6 DEF Effect
<1> QED BY <1>1, <1>2, NextCases

\* Every definition so far has ended well.
AtEnd == pc \in {"define", "waitDone", "merge"} \/ (pc = "waitChildren" /\ err = "none")

\* All tasks of the definition in s are done, and counted for the merge.
Counts(s) ==
  s.def # 0 => s.nProcessed = s.counts /\ \A t \in TaskId : t < TasksOf[s.def] => t \in s.mgr.fDone

Ended ==
  /\ pc \in {"start", "initWait"} => sup.def = 0
  /\ pc \in {"start", "initWait", "define", "waitDone", "merge"} => err = "none"
  /\ pc = "throw" => err # "none"
  /\ pc = "waitChildren" => ~IsTcp
  /\ AtEnd => Counts(sup) /\ (pc # "define" => sup.def = Len(TasksOf))
  /\ pc = "merge" /\ IsTcp => sup.doneWorkers = sup.registered

\* Elsewhere Ended says nothing.
LEMMA NotEnded ==
  ASSUME pc' \in Looping \cup {"failed", "merged"} \/ (pc' = "throw" /\ err' # "none")
  PROVE  Ended'
BY DEF Ended, AtEnd, Looping

LEMMA LoopEnded ==
  ASSUME Inv, Entered, pc = "top", LoopEnd
  PROVE  Ended'
<1>0. sup \in Sups /\ Sound(sup.mgr) /\ Numbered(sup) /\ err = "none"
  BY Listed DEF Inv, Books, LoopEnd
<1>1. CASE M!PendingCount(mgr) > 0 \/ M!Running(mgr) # {}
  BY <1>1, NotEnded DEF LoopEnd, Throw
<1>2. CASE ~(M!PendingCount(mgr) > 0 \/ M!Running(mgr) # {})
  <2>1. pc' = "define" /\ err' = "none" /\ sup' = [sup EXCEPT !.nProcessed = sup.counts] /\ ~HasMore(sup)
    BY <1>0, <1>2 DEF LoopEnd, WorkLeft
  <2>2. sup'.nProcessed = sup'.counts /\ sup'.def = sup.def /\ sup'.mgr = sup.mgr
    BY <1>0, <2>1 DEF Sups
  <2>3. sup.mgr.fPendingIds = {} /\ M!Running(sup.mgr) = {}
    <3>1. sup.mgr.fPending \in Seq(M!Entries) /\ sup.mgr.fPendingIds = M!QueuedIds(sup.mgr.fPending)
      BY <1>0, SupTypes DEF Managers, Sound, M!IsIndexed
    <3>2. ~(Len(sup.mgr.fPending) > 0)
      BY <1>2 DEF M!PendingCount, mgr
    <3>3. Len(sup.mgr.fPending) = 0
      BY <3>1, <3>2
    <3>4. sup.mgr.fPendingIds = {}
      BY <3>1, <3>3 DEF M!QueuedIds
    <3> QED BY <1>2, <3>4 DEF mgr
  <2>4. ASSUME sup.def # 0, NEW t \in TaskId, t < TasksOf[sup.def] PROVE t \in sup.mgr.fDone
    <3>1. sup.def \in Defs /\ sup.next \in Nat /\ t \in Nat
      BY <1>0, <2>4, SupTypes, Tasks, ExecutorConstants DEF Defs
    <3>2. TasksOf[sup.def] \in Nat /\ ~(sup.next < TasksOf[sup.def])
      BY <2>1, <3>1, Tasks DEF HasMore
    <3>3. t < sup.next
      BY <2>4, <3>1, <3>2
    <3>4. M!TaskExists(sup.mgr, t)
      BY <3>3 DEF Entered
    <3> QED BY <1>0, <2>3, <3>4, InABucket
  <2>5. Counts(sup')
    BY <2>2, <2>4 DEF Counts
  <2> QED BY <2>1, <2>5 DEF Ended, AtEnd
<1> QED BY <1>1, <1>2

LEMMA FinishEnded ==
  ASSUME Inv, Ended, FinishStep
  PROVE  Ended'
<1>0. sup \in Sups
  BY Listed
<1>1. CASE SendStop
  <2>1. /\ sup'.def = sup.def /\ sup'.mgr = sup.mgr /\ sup'.counts = sup.counts /\ sup'.nProcessed = sup.nProcessed
        /\ err' = err
    BY <1>0, <1>1 DEF SendStop, Sups
  <2>2. CASE pc = "throw"
    <3>1. err' # "none" /\ pc' = IF ~IsTcp THEN "waitChildren" ELSE "failed"
      BY <1>1, <2>1, <2>2 DEF SendStop, Ended
    <3> QED BY <3>1 DEF Ended, AtEnd
  <2>3. CASE pc # "throw"
    <3>1. pc = "define" /\ sup.def = Len(TasksOf) /\ pc' = IF ~IsTcp THEN "waitChildren" ELSE "waitDone"
      BY <1>1, <2>3 DEF SendStop
    <3>2. Counts(sup') /\ err' = "none"
      BY <2>1, <3>1 DEF Ended, AtEnd, Counts
    <3> QED BY <2>1, <3>1, <3>2 DEF Ended
  <2> QED BY <2>2, <2>3
<1>2. CASE WaitChildren
  <2>1. sup' = sup /\ err' = err /\ pc = "waitChildren" /\ pc' = IF err = "none" THEN "merge" ELSE "failed"
    BY <1>2 DEF WaitChildren
  <2> QED BY <2>1 DEF Ended, AtEnd
<1>3. ASSUME NEW w \in Worker, FinishReceive(w) PROVE Ended'
  <2>1. /\ sup'.def = sup.def /\ sup'.mgr = sup.mgr /\ sup'.counts = sup.counts /\ sup'.nProcessed = sup.nProcessed
        /\ err' = err /\ pc' = pc /\ pc = "waitDone"
    BY <1>0, <1>3 DEF FinishReceive, Sups
  <2>2. Counts(sup')
    BY <2>1 DEF Ended, AtEnd, Counts
  <2> QED BY <2>1, <2>2 DEF Ended, AtEnd
<1>4. CASE FinishDone
  <2>1. sup' = sup /\ err' = err /\ pc = "waitDone" /\ pc' = "merge" /\ sup.doneWorkers = sup.registered
    BY <1>4 DEF FinishDone, Step
  <2> QED BY <2>1 DEF Ended, AtEnd
<1>5. CASE Merge
  <2>1. pc' \in {"failed", "merged"}
    BY <1>5 DEF Merge
  <2> QED BY <2>1, NotEnded
<1> QED BY <1>1, <1>2, <1>3, <1>4, <1>5 DEF FinishStep

LEMMA EndedNext ==
  ASSUME Inv, Entered, Ended, [Next]_vars
  PROVE  Ended'
<1>0. sup \in Sups
  BY Listed DEF Inv
<1>1. CASE UNCHANGED vars \/ \E w \in Worker : Works(w)
  BY <1>1 DEF vars, Works, supervisor, Ended, AtEnd, Counts
<1>2. CASE StartStep \/ InitTimeout \/ StartTimeout
  <2>1. ASSUME NEW w \in Worker, StartReady(w) \/ StartTcp(w) \/ StartDrops(w) \/ InitReceive(w) \/ InitTimeout PROVE Ended'
    <3>1. sup'.def = sup.def /\ err' = err /\ pc \in {"start", "initWait"} /\ pc' \in {"start", "initWait"}
      BY <1>0, <2>1 DEF StartReady, StartTcp, InitTcpWorker, StartDrops, InitReceive, InitTimeout, Join, Step, Sups
    <3> QED BY <3>1 DEF Ended, AtEnd
  <2>2. CASE StartDone
    <3>1. sup' = sup /\ err' = err /\ pc = "start" /\ pc' = "define"
      BY <2>2 DEF StartDone
    <3> QED BY <3>1 DEF Ended, AtEnd, Counts
  <2>3. CASE StartTimeout
    BY <2>3, NotEnded DEF StartTimeout
  <2>4. CASE InitTimeout
    BY <2>1, <2>4, RunnerConstants
  <2> QED BY <1>2, <2>1, <2>2, <2>3, <2>4 DEF StartStep
<1>3. CASE LoopStep /\ ~LoopEnd
  <2>1. pc' \in Looping \/ (pc' = "throw" /\ err' # "none")
    BY <1>3 DEF LoopStep, StartDefinition, LoopTop, LoopFails, Dispatch, DispatchDone, Cleanup, NothingReceived,
                ChildExited, IdleDone, Step, Throw, Looping
  <2> QED BY <2>1, NotEnded
<1>4. CASE LoopEnd
  BY <1>4, LoopEnded DEF LoopEnd
<1>5. CASE UserInterrupt \/ GraceExpires \/ Stall \/ FinishTimeout \/ \E w \in Worker : InactiveTcpWorker(w)
  <2>1. pc' \in Looping \cup {"failed"} \/ (pc' = "throw" /\ err' # "none")
    BY <1>5 DEF UserInterrupt, GraceExpires, Stall, FinishTimeout, InactiveTcpWorker, Step, Throw, Looping
  <2> QED BY <2>1, NotEnded
<1>6. CASE FinishStep
  BY <1>6, FinishEnded
<1>7. CASE \E w \in Worker : Receive(w)
  <2>1. pc' \in Looping \/ (pc' = "throw" /\ err' # "none")
    BY <1>7 DEF Receive, ReceiveReady, ReceiveInitAck, ReceiveShutdown, ReceiveDone, ReceiveAck, ReceiveErr, Got, Throw,
                Looping
  <2> QED BY <2>1, NotEnded
<1> QED BY <1>1, <1>2, <1>3, <1>4, <1>5, <1>6, <1>7, NextCases DEF Supervises, SupervisorStep, Deadline

-----------------------------------------------------------------------------
(* The merge *)

Opened == {w \in Mergeable : file[w] # NoFile}

Holders(e) == {w \in Opened : e \in file[w]}

\* A worker that counted a task is registered, and its results are apart from
\* those of the others.
LEMMA HoldersApart ==
  ASSUME CatchUpsSucceed, Inv, Ways, Saved, Ended, pc = "merge", NEW e
  PROVE  Holders(e) = {} \/ \E w \in Worker : Holders(e) = {w}
<1>0. /\ sup \in Sups /\ Replayable(sup, FALSE) /\ Counts(sup) /\ sup.def # 0
      /\ \A w \in Worker : sup.counts[w] = Cardinality(sup.mgr.fDone \cap sup.history[w])
  <2>1. pc # "cleanup" /\ AtEnd /\ Len(TasksOf) # 0
    BY ExecutorConstants DEF AtEnd
  <2> QED BY <2>1, Listed DEF Inv, Books, Counted, Ended
<1>1. ASSUME NEW w \in Opened PROVE w \in sup.registered /\ file[w] = mem[w]
  <2>1. w \in Worker /\ sup.nProcessed[w] # 0 /\ file[w] # NoFile
    BY DEF Opened, Mergeable
  <2>2. sup.counts[w] # 0
    BY <1>0, <2>1 DEF Counts
  <2>3. sup.mgr.fDone \cap sup.history[w] # {}
    BY <1>0, <2>1, <2>2, FS_EmptySet
  <2>4. w \in sup.registered
    BY <1>0, <2>1, <2>3 DEF Replayable
  <2> QED BY <2>1, <2>4 DEF Saved
<1>2. \A w, v \in Holders(e) : w = v
  BY <1>1 DEF Holders, Ways, Shared
<1>3. Holders(e) \subseteq Worker
  BY DEF Holders, Opened, Mergeable
<1> QED BY <1>2, <1>3

\* Every task of the last definition is in the results of a worker whose file
\* is merged.
LEMMA LastHeld ==
  ASSUME CatchUpsSucceed, Inv, Ways, Saved, Ended, Reported, IsTcp, pc = "merge", NEW e \in Entries,
         e[1] = Len(TasksOf)
  PROVE  Holders(e) # {}
<1>0. /\ sup \in Sups /\ Replayable(sup, FALSE) /\ Counts(sup) /\ sup.def = Len(TasksOf) /\ sup.def # 0
      /\ \A w \in Worker : sup.counts[w] = Cardinality(sup.mgr.fDone \cap sup.history[w])
      /\ sup.doneWorkers = sup.registered /\ sup.registered \in SUBSET Worker
  <2>1. pc # "cleanup" /\ AtEnd /\ Len(TasksOf) # 0
    BY ExecutorConstants DEF AtEnd
  <2> QED BY <2>1, Listed DEF Inv, Books, Counted, Ended
<1>1. PICK t \in 0..(TasksOf[sup.def] - 1) : e = <<sup.def, t>>
  <2>1. PICK d \in Defs : e \in {<<d, t>> : t \in 0..(TasksOf[d] - 1)}
    BY DEF Entries
  <2>2. d = sup.def
    BY <1>0, <2>1
  <2> QED BY <2>1, <2>2
<1>2. t \in TaskId /\ t \in sup.mgr.fDone
  <2>1. sup.def \in Defs
    BY <1>0, SupTypes, ExecutorConstants DEF Defs
  <2>2. TasksOf[sup.def] \in Nat
    BY <2>1, Tasks
  <2>3. t \in TaskId /\ t < TasksOf[sup.def]
    BY <2>1, <2>2, Tasks
  <2> QED BY <1>0, <2>3 DEF Counts
<1>3. PICK w \in sup.registered : Only(sup, w, t)
  BY <1>0, <1>2 DEF Replayable
<1>4. t \in sup.history[w] /\ e \in mem[w] /\ w \in Worker
  BY <1>0, <1>1, <1>2, <1>3 DEF Only, Ways, Own, Agrees, Remembers
<1>5. sup.nProcessed[w] # 0
  <2> DEFINE D == sup.mgr.fDone \cap sup.history[w]
  <2>1. t \in D /\ D \subseteq TaskId /\ sup.counts[w] = Cardinality(D)
    BY <1>0, <1>2, <1>4, SupTypes DEF Managers
  <2> HIDE DEF D
  <2>2. Cardinality(D) # 0
    BY <2>1, Tasks, FS_Subset, FS_EmptySet
  <2>3. sup.nProcessed = sup.counts
    BY <1>0 DEF Counts
  <2> QED BY <2>1, <2>2, <2>3
<1>6. file[w] # NoFile /\ file[w] = mem[w]
  BY <1>0, <1>3, <1>4 DEF Reported, Reports, Saved
<1> QED BY <1>0, <1>3, <1>4, <1>5, <1>6 DEF Holders, Opened, Mergeable

\* Where no catch-up fails, no result is merged twice; and where also every
\* worker that is done has written its file, every result of the last definition
\* is merged.
Merged ==
  pc = "merged" /\ CatchUpsSucceed => \A e \in Entries :
    merged[e] \in {0, 1} /\ (IsTcp /\ CopiesSucceed /\ e[1] = Len(TasksOf) => merged[e] = 1)

LEMMA MergedSteps ==
  ASSUME [Next]_vars
  PROVE  Merge \/ pc' # "merged" \/ (pc' = pc /\ merged' = merged)
<1>1. CASE UNCHANGED vars \/ \E w \in Worker : Works(w)
  BY <1>1 DEF vars, Works, supervisor
<1>2. CASE StartStep \/ Deadline \/ UserInterrupt
  BY <1>2 DEF StartStep, StartReady, StartTcp, InitTcpWorker, StartDrops, InitReceive, StartDone, Deadline,
              InitTimeout, StartTimeout, GraceExpires, InactiveTcpWorker, Stall, FinishTimeout, UserInterrupt, Step, Throw
<1>3. CASE LoopStep
  BY <1>3 DEF LoopStep, StartDefinition, LoopTop, LoopFails, LoopEnd, Dispatch, DispatchDone, Cleanup,
              NothingReceived, ChildExited, IdleDone, Step, Throw
<1>4. CASE FinishStep
  BY <1>4 DEF FinishStep, SendStop, WaitChildren, FinishReceive, FinishDone, Step
<1>5. CASE \E w \in Worker : Receive(w)
  BY <1>5 DEF Receive, ReceiveReady, ReceiveInitAck, ReceiveShutdown, ReceiveDone, ReceiveAck, ReceiveErr, Got, Throw
<1> QED BY <1>1, <1>2, <1>3, <1>4, <1>5, NextCases DEF Supervises, SupervisorStep

LEMMA MergedNext ==
  ASSUME Inv, Ways, Saved, Ended, Merged, CopiesSucceed => Reported, [Next]_vars
  PROVE  Merged'
<1>1. CASE pc' # "merged" \/ (pc' = pc /\ merged' = merged)
  BY <1>1 DEF Merged
<1>2. CASE Merge /\ pc' = "merged"
  <2>1. pc = "merge" /\ merged' = [e \in Entries |-> Cardinality(Holders(e))]
    BY <1>2 DEF Merge, Opened, Holders
  <2>2. ASSUME CatchUpsSucceed, NEW e \in Entries
        PROVE  /\ merged'[e] \in {0, 1}
               /\ IsTcp /\ CopiesSucceed /\ e[1] = Len(TasksOf) => merged'[e] = 1
    <3>1. merged'[e] = Cardinality(Holders(e))
      BY <2>1
    <3>2. \/ Holders(e) = {} /\ merged'[e] = 0
          \/ Holders(e) # {} /\ merged'[e] = 1
      <4>1. Cardinality({}) = 0
        BY FS_EmptySet
      <4>2. \A w : Cardinality({w}) = 1
        BY FS_Singleton
      <4> QED BY <2>1, <2>2, <3>1, <4>1, <4>2, HoldersApart
    <3>3. IsTcp /\ CopiesSucceed /\ e[1] = Len(TasksOf) => Holders(e) # {}
      BY <2>1, <2>2, LastHeld
    <3> QED BY <3>2, <3>3
  <2> QED BY <2>2 DEF Merged
<1> QED BY <1>1, <1>2, MergedSteps

\* The invariant of the end of the session.
Closing == Inv /\ Queues /\ Current /\ Ways /\ Files /\ Saved /\ (CopiesSucceed => Reported)
           /\ Entered /\ Ended /\ Merged

LEMMA ClosingInit == Init => Closing
<1> SUFFICES ASSUME Init PROVE Closing
  OBVIOUS
<1>1. /\ toSup = [w \in Worker |-> << >>] /\ file = [w \in Worker |-> NoFile]
      /\ sup.earlyDone = {} /\ sup.doneWorkers = {} /\ sup.next = 0 /\ sup.def = 0
      /\ pc = "start" /\ err = "none"
  BY DEF Init, RunnerInit, ExecutorInit
<1>2. Files /\ Saved
  BY <1>1 DEF Files, Saved
<1>3. Entered
  BY <1>1, Tasks DEF Entered
<1>4. Ended /\ Merged
  BY <1>1 DEF Ended, AtEnd, Merged
<1>5. Reported
  <2>1. Len(<< >>) = 0 /\ Reports(sup) = {}
    BY <1>1 DEF Reports
  <2> QED BY <1>1, <2>1 DEF Reported, Carries
<1> QED BY <1>2, <1>3, <1>4, <1>5, InitInv, QueuesInit, WaysInit DEF Closing

LEMMA ClosingNext == Closing /\ [Next]_vars => Closing'
<1> SUFFICES ASSUME Closing, [Next]_vars PROVE Closing'
  OBVIOUS
<1>1. Inv /\ Queues /\ Current /\ Ways /\ Files /\ Saved /\ (CopiesSucceed => Reported) /\ Entered /\ Ended /\ Merged
  BY DEF Closing
<1>2. Inv' /\ Queues' /\ Current' /\ Ways' /\ Files' /\ Saved' /\ Entered' /\ Ended'
  BY <1>1, NextInv, QueuesNext, WaysNext, FilesNext, SavedNext, EnteredNext, EndedNext
<1>3. CopiesSucceed => Reported'
  BY <1>1, ReportedNext
<1>4. Merged'
  BY <1>1, MergedNext
<1> QED BY <1>2, <1>3, <1>4 DEF Closing

\* DONE says that the worker has written its results file (CloseFile), unless
\* the file cannot be copied to the results directory.
THEOREM DoneMeansSavedAlways ==
  ASSUME CopiesSucceed
  PROVE  Spec => []DoneMeansSaved
<1>1. Closing => DoneMeansSaved
  BY DEF Closing, Reported, Reports, DoneMeansSaved
<1> QED BY <1>1, ClosingInit, ClosingNext, PTL DEF Spec

\* Where no late worker misses the catch-up that the loop sends without looking at
\* the result (sendCatchup), the merge at the end of NGnTree::Process holds no
\* result twice, whatever was replayed, in an IPC session as in a TCP session and
\* with every other fault.
THEOREM NeverMergedTwice ==
  ASSUME CatchUpsSucceed
  PROVE  Spec => [](pc = "merged" => \A e \in Entries : merged[e] <= 1)
<1>1. Closing => (pc = "merged" => \A e \in Entries : merged[e] <= 1)
  BY DEF Closing, Merged
<1> QED BY <1>1, ClosingInit, ClosingNext, PTL DEF Spec

\* In a TCP session whose files are copied and whose late workers get their
\* catch-up (sendCatchup) the merge (NGnTree::Process) holds every result of the
\* last definition, once.
THEOREM MergeExactAlways ==
  ASSUME IsTcp, CopiesSucceed, CatchUpsSucceed
  PROVE  Spec => []MergeExact
<1>1. Closing => MergeExact
  BY DEF Closing, Merged, MergeExact
<1> QED BY <1>1, ClosingInit, ClosingNext, PTL DEF Spec

\* With one definition, under the same two conditions, the merge
\* (NGnTree::Process) holds every result there is, once.
THEOREM MergeCompleteAlways ==
  ASSUME IsTcp, CopiesSucceed, CatchUpsSucceed, Len(TasksOf) = 1
  PROVE  Spec => []MergeComplete
<1>1. \A e \in Entries : e[1] = Len(TasksOf)
  BY DEF Entries, Defs
<1>2. Closing => MergeComplete
  BY <1>1 DEF Closing, Merged, MergeComplete
<1> QED BY <1>2, ClosingInit, ClosingNext, PTL DEF Spec

-----------------------------------------------------------------------------
(* The messages in transit *)

Weight(m) == IF IsWork(m) THEN 1 ELSE 0

LEMMA FiniteIndices ==
  ASSUME NEW n \in Nat, NEW S \in SUBSET (1..n)
  PROVE  IsFiniteSet(S)
<1>1. IsFiniteSet(1..n)
  BY FS_Interval
<1> QED BY <1>1, FS_Subset

LEMMA WorkAppended ==
  ASSUME NEW q \in Seq(Messages), NEW m \in Messages
  PROVE  WorkIn(q) \in Nat /\ WorkIn(Append(q, m)) = WorkIn(q) + Weight(m)
<1> DEFINE p == Append(q, m)
           S == {i \in 1..Len(q) : IsWork(q[i])}
           T == {i \in 1..Len(p) : IsWork(p[i])}
           k == Len(q) + 1
<1>1. Len(q) \in Nat /\ Len(p) = k /\ p[k] = m /\ k \notin 1..Len(q) /\ \A i \in 1..Len(q) : p[i] = q[i]
  OBVIOUS
<1>2. IsFiniteSet(S)
  <2>1. S \in SUBSET (1..Len(q))
    OBVIOUS
  <2> HIDE DEF S
  <2> QED BY <1>1, <2>1, FiniteIndices
<1>3. k \notin S /\ T = IF IsWork(m) THEN S \cup {k} ELSE S
  <2>1. \A i \in 1..Len(p) : i \in 1..Len(q) \/ i = k
    BY <1>1
  <2>2. \A i \in 1..Len(q) : i \in 1..Len(p)
    BY <1>1
  <2>3. k \in 1..Len(p)
    BY <1>1
  <2> HIDE DEF k, p
  <2> QED BY <1>1, <2>1, <2>2, <2>3
<1>4. WorkIn(q) = Cardinality(S) /\ WorkIn(p) = Cardinality(T)
  BY DEF WorkIn
<1> HIDE DEF S, T, k
<1>5. Cardinality(S) \in Nat /\ Cardinality(S \cup {k}) = Cardinality(S) + 1
  BY <1>2, <1>3, FS_AddElement, FS_CardinalityType
<1> QED BY <1>3, <1>4, <1>5 DEF Weight

LEMMA WorkTaken ==
  ASSUME NEW q \in Seq(Messages), q # << >>
  PROVE  WorkIn(Tail(q)) \in Nat /\ WorkIn(q) = WorkIn(Tail(q)) + Weight(Head(q))
<1> DEFINE p == Tail(q)
           S == {i \in 1..Len(q) : IsWork(q[i])}
           T == {i \in 1..Len(p) : IsWork(p[i])}
           U == S \ {1}
           f == [i \in T |-> i + 1]
<1>1. /\ Len(q) \in Nat \ {0} /\ Len(p) = Len(q) - 1 /\ Head(q) = q[1] /\ Len(p) \in Nat
      /\ \A i \in 1..Len(p) : p[i] = q[i + 1] /\ i + 1 \in 1..Len(q) /\ i + 1 # 1
      /\ \A i \in 1..Len(q) : i # 1 => i - 1 \in 1..Len(p) /\ (i - 1) + 1 = i
  OBVIOUS
<1>2. IsFiniteSet(S) /\ IsFiniteSet(T)
  <2>1. S \in SUBSET (1..Len(q)) /\ T \in SUBSET (1..Len(p))
    OBVIOUS
  <2> HIDE DEF S, T, p
  <2> QED BY <1>1, <2>1, FiniteIndices
<1>3. ExistsBijection(T, U)
  <2>1. f \in [T -> U]
    BY <1>1
  <2>2. \A i, j \in T : f[i] = f[j] => i = j
    OBVIOUS
  <2>3. \A j \in U : \E i \in T : f[i] = j
    <3> SUFFICES ASSUME NEW j \in U PROVE \E i \in T : f[i] = j
      OBVIOUS
    <3>1. j - 1 \in T /\ (j - 1) + 1 = j
      BY <1>1
    <3> QED BY <3>1
  <2> HIDE DEF f, T, U
  <2>4. f \in Bijection(T, U)
    BY <2>1, <2>2, <2>3 DEF Bijection, Injection, Surjection, IsInjective
  <2> QED BY <2>4 DEF ExistsBijection
<1>4. WorkIn(q) = Cardinality(S) /\ WorkIn(p) = Cardinality(T)
  BY DEF WorkIn
<1>5. 1 \in S <=> IsWork(Head(q))
  BY <1>1
<1> HIDE DEF S, T
<1>6. Cardinality(U) = Cardinality(T) /\ Cardinality(T) \in Nat /\ Cardinality(S) \in Nat
  <2> HIDE DEF U
  <2> QED BY <1>2, <1>3, FS_Bijection, FS_CardinalityType
<1>7. Cardinality(U) = IF 1 \in S THEN Cardinality(S) - 1 ELSE Cardinality(S)
  BY <1>2, FS_RemoveElement
<1> HIDE DEF U
<1> QED BY <1>4, <1>5, <1>6, <1>7 DEF Weight

\* A message of work holds tasks.
LEMMA WorkHolds ==
  ASSUME NEW m \in Messages, m.cmd \in {"TASK", "TASKB", "ACKB"} => m.ids # << >>
  PROVE  IsWork(m) <=> Load(m) # {}
<1>1. CASE m.cmd \in {"TASK", "TASKB", "ACK", "ACKB"}
  <2>1. m.ids \in Seq(TaskId) /\ Load(m) = Range(m.ids)
    BY <1>1, MessageFields DEF Load
  <2>2. ASSUME NEW g \in Seq(TaskId) PROVE g # << >> <=> Range(g) # {}
    <3>1. CASE g = << >>
      BY <3>1 DEF Range
    <3>2. CASE g # << >>
      <4>1. 1 \in DOMAIN g
        BY <3>2
      <4> QED BY <3>2, <4>1 DEF Range
    <3> QED BY <3>1, <3>2
  <2>3. IsWork(m) <=> m.ids # << >>
    BY <1>1 DEF IsWork
  <2> QED BY <2>1, <2>2, <2>3
<1>2. CASE m.cmd \notin {"TASK", "TASKB", "ACK", "ACKB"}
  BY <1>2 DEF IsWork, Load
<1> QED BY <1>1, <1>2

LEMMA NoWork ==
  ASSUME NEW q \in Seq(Messages), Solid(q), Cargo(q) = {}
  PROVE  WorkIn(q) = 0
<1>1. ASSUME NEW i \in 1..Len(q) PROVE ~IsWork(q[i])
  <2>1. q[i] \in Messages /\ Load(q[i]) \in {Load(q[j]) : j \in 1..Len(q)}
    OBVIOUS
  <2>2. Load(q[i]) = {}
    BY <2>1 DEF Cargo
  <2> QED BY <2>1, <2>2, WorkHolds DEF Solid
<1>2. {i \in 1..Len(q) : IsWork(q[i])} = {}
  BY <1>1
<1> QED BY <1>2, FS_EmptySet DEF WorkIn

\* The tokens of all workers, added up.
LEMMA SumOfTokens ==
  ASSUME NEW f \in [Worker -> Nat], IsFiniteSet(Tokens(f)), NEW S \in SUBSET Worker, \A w \in Worker \ S : f[w] = 0
  PROVE  SumFunctionOnSet(f, S) = Cardinality(Tokens(f))
<1> DEFINE c(s) == CHOOSE x \in s : TRUE
           r(s) == [w \in Worker |-> IF w \in s THEN f[w] ELSE 0]
           h == [s \in SUBSET S |-> Cardinality(Tokens(r(s)))]
           E(g) == g = [s \in SUBSET S |-> IF s = {} THEN 0 ELSE f[c(s)] + g[s \ {c(s)}]]
<1>1. SumFunctionOnSet(f, S) = (CHOOSE g : E(g))[S]
  BY DEF SumFunctionOnSet, FoldFunctionOnSet, MapThenFoldSet
<1>2. ASSUME NEW s \in SUBSET S, s # {}
      PROVE  h[s] = f[c(s)] + h[s \ {c(s)}]
  <2> DEFINE x == c(s)
             a == r(s)
             b == r(s \ {x})
  <2>1. x \in s /\ x \in Worker /\ s \ {x} \in SUBSET S
    BY <1>2
  <2> HIDE DEF x
  <2>2. a \in [Worker -> Nat] /\ b = [a EXCEPT ![x] = 0] /\ a[x] = f[x]
    BY <2>1
  <2>3. IsFiniteSet(Tokens(a))
    <3>1. Tokens(a) \subseteq Tokens(f)
      BY DEF Tokens
    <3> HIDE DEF a
    <3> QED BY <3>1, FS_Subset
  <2>4. h[s] = Cardinality(Tokens(a)) /\ h[s \ {x}] = Cardinality(Tokens(b))
    BY <2>1
  <2> HIDE DEF a, b, h
  <2>5. /\ Cardinality(Tokens(a)) \in Nat /\ f[x] \in Nat
        /\ Cardinality(Tokens(b)) = Cardinality(Tokens(a)) - f[x]
    BY <2>1, <2>2, <2>3, TokensDropped
  <2>6. h[s] = f[x] + h[s \ {x}]
    BY <2>4, <2>5
  <2> QED BY <2>6 DEF x
<1>3. h[{}] = 0
  <2>1. r({}) = [w \in Worker |-> 0] /\ {} \in SUBSET S
    OBVIOUS
  <2> HIDE DEF r
  <2> QED BY <2>1, NoTokens
<1>4. E(h)
  <2> DEFINE k == [s \in SUBSET S |-> IF s = {} THEN 0 ELSE f[c(s)] + h[s \ {c(s)}]]
  <2>1. \A s \in SUBSET S : h[s] = k[s]
    <3> HIDE DEF h, c
    <3> QED BY <1>2, <1>3
  <2>2. h = k
    BY <2>1
  <2> QED BY <2>2
<1> HIDE DEF h
<1>5. ASSUME NEW g, E(g) PROVE g[S] = h[S]
  <2> DEFINE N == Cardinality(S)
             T == {n \in 0..N : \A s \in SUBSET S : Cardinality(s) = n => g[s] = h[s]}
  <2>1. \A s \in SUBSET S : IsFiniteSet(s) /\ Cardinality(s) \in Nat /\ (Cardinality(s) = 0 => s = {})
    <3> SUFFICES ASSUME NEW s \in SUBSET S
                 PROVE  IsFiniteSet(s) /\ Cardinality(s) \in Nat /\ (Cardinality(s) = 0 => s = {})
      OBVIOUS
    <3>1. s \subseteq Worker /\ IsFiniteSet(Worker)
      BY RunnerConstants
    <3>2. IsFiniteSet(s)
      BY <3>1, FS_Subset
    <3> QED BY <3>2, FS_EmptySet, FS_CardinalityType
  <2>2. N \in Nat
    BY <2>1
  <2>3. \A s \in SUBSET S : g[s] = IF s = {} THEN 0 ELSE f[c(s)] + g[s \ {c(s)}]
    BY <1>5
  <2>4. 0 \in T
    <3>1. 0 \in 0..N
      BY <2>2
    <3>2. g[{}] = h[{}]
      BY <1>3, <2>3
    <3>3. \A s \in SUBSET S : Cardinality(s) = 0 => g[s] = h[s]
      BY <2>1, <3>2
    <3> HIDE DEF N
    <3> QED BY <3>1, <3>3
  <2>5. ASSUME NEW i \in 0..N, i < N, i \in T PROVE i + 1 \in T
    <3>1. ASSUME NEW s \in SUBSET S, Cardinality(s) = i + 1 PROVE g[s] = h[s]
      <4> DEFINE x == c(s)
      <4>1. s # {}
        <5>1. Cardinality({}) = 0 /\ i + 1 # 0
          BY <2>2, FS_EmptySet
        <5> QED BY <3>1, <5>1
      <4>2. x \in s
        BY <4>1
      <4> HIDE DEF x
      <4>3. s \ {x} \in SUBSET S /\ Cardinality(s \ {x}) = i
        <5>1. IsFiniteSet(s) /\ s \ {x} \in SUBSET S /\ i \in Nat
          BY <2>1, <2>2
        <5>2. Cardinality(s \ {x}) = IF x \in s THEN Cardinality(s) - 1 ELSE Cardinality(s)
          BY ONLY <5>1, FS_RemoveElement
        <5> QED BY <3>1, <4>2, <5>1, <5>2
      <4>4. g[s \ {x}] = h[s \ {x}]
        BY <2>5, <4>3
      <4>5. g[s] = f[x] + g[s \ {x}] /\ h[s] = f[x] + h[s \ {x}]
        BY <1>2, <2>3, <4>1 DEF x
      <4> QED BY <4>4, <4>5
    <3>2. i + 1 \in 0..N
      BY <2>2, <2>5
    <3> QED BY <3>1, <3>2
  <2>6. \A i \in 0..N : i \in T
    <3> HIDE DEF T, N
    <3> QED BY <2>2, <2>4, <2>5, Induction
  <2> QED BY <2>2, <2>6
<1>6. (CHOOSE g : E(g))[S] = h[S]
  <2> HIDE DEF E
  <2>1. E(CHOOSE g : E(g))
    BY <1>4
  <2> QED BY <1>5, <2>1
<1>7. h[S] = Cardinality(Tokens(f))
  <2>1. r(S) = f
    OBVIOUS
  <2> HIDE DEF r
  <2> QED BY <2>1 DEF h
<1> QED BY <1>1, <1>6, <1>7

-----------------------------------------------------------------------------
(* The counter of a worker and its messages *)

Attending == {"off", "waitInit", "loop"}

\* The counter of a registered worker that still serves is the number of its
\* messages on their way.
Exact == pc \in Looping => \A w \in sup.registered : wpc[w] \in Attending => sup.inFlight[w] = InTransit(w)

\* A message is read and answered.
LEMMA WorkReplied ==
  ASSUME NEW r \in Seq(Messages), NEW m \in Messages, NEW p, p = r \o <<m>>
  PROVE  WorkIn(r) \in Nat /\ Weight(m) \in Nat /\ WorkIn(p) = WorkIn(r) + Weight(m)
<1>1. p = Append(r, m)
  OBVIOUS
<1>2. WorkIn(r) \in Nat /\ WorkIn(Append(r, m)) = WorkIn(r) + Weight(m)
  BY WorkAppended
<1>3. Weight(m) \in Nat
  BY DEF Weight
<1> QED BY ONLY <1>1, <1>2, <1>3

LEMMA WorkAnswered ==
  ASSUME NEW q \in Seq(Messages), q # << >>, NEW r \in Seq(Messages), NEW m \in Messages, Weight(Head(q)) = Weight(m),
         NEW p, p = r \o <<m>>
  PROVE  WorkIn(Tail(q)) + WorkIn(p) = WorkIn(q) + WorkIn(r)
<1>1. WorkIn(r) \in Nat /\ Weight(m) \in Nat /\ WorkIn(p) = WorkIn(r) + Weight(m)
  BY WorkReplied
<1>2. WorkIn(Tail(q)) \in Nat /\ WorkIn(q) = WorkIn(Tail(q)) + Weight(Head(q))
  BY WorkTaken
<1> QED BY ONLY <1>1, <1>2, Weight(Head(q)) = Weight(m)

\* A worker that goes on serving answers each message of work with one.
LEMMA WorkerAnswers ==
  ASSUME Typed, NEW w \in Worker, Solid(toWorker[w]), Works(w), wpc'[w] \in Attending
  PROVE  wpc[w] \in Attending /\ WorkIn(toWorker'[w]) + WorkIn(toSup'[w]) = WorkIn(toWorker[w]) + WorkIn(toSup[w])
<1> DEFINE q == toWorker[w]
           r == toSup[w]
           h == Head(q)
<1>0. /\ wpc \in [Worker -> WorkerStates] /\ toWorker \in [Worker -> Seq(Messages)] /\ toSup \in [Worker -> Seq(Messages)]
      /\ q \in Seq(Messages) /\ r \in Seq(Messages)
  BY DEF Typed
<1>1. \A c \in {"READY", "ACK", "ACKB"}, ids \in Seq(TaskId) : Msg(c, ids) \in Messages
  BY MessageTypes DEF Msg
<1>2. << >> \in Seq(TaskId)
  OBVIOUS
<1>3. ASSUME q # << >>, toWorker' = [toWorker EXCEPT ![w] = Tail(@)],
             NEW m \in Messages, Reply(w, <<m>>), Weight(h) = Weight(m)
      PROVE  WorkIn(toWorker'[w]) + WorkIn(toSup'[w]) = WorkIn(q) + WorkIn(r)
  <2>1. toWorker'[w] = Tail(q) /\ toSup'[w] = r \o <<m>>
    BY <1>0, <1>3 DEF Reply
  <2> DEFINE p == toSup'[w]
  <2> HIDE DEF q, r, p
  <2>2. /\ q \in Seq(Messages) /\ q # << >> /\ r \in Seq(Messages) /\ Weight(Head(q)) = Weight(m)
        /\ p = r \o <<m>>
    BY <1>0, <1>3, <2>1 DEF h, p
  <2>3. WorkIn(Tail(q)) + WorkIn(p) = WorkIn(q) + WorkIn(r)
    BY ONLY <2>2, m \in Messages, WorkAnswered
  <2> QED BY <2>1, <2>3 DEF p
<1>4. CASE Connect(w)
  <2> DEFINE m == Msg("READY", << >>)
             p == toSup'[w]
  <2>1. toWorker' = toWorker /\ wpc[w] = "off" /\ p = r \o <<m>>
    BY <1>0, <1>4 DEF Connect, Reply
  <2>2. m \in Messages
    BY <1>1, <1>2
  <2>3. Weight(m) = 0
    BY DEF Weight, IsWork, Msg
  <2> HIDE DEF m, r, p
  <2>4. WorkIn(r) \in Nat /\ WorkIn(p) = WorkIn(r) + Weight(m)
    BY <1>0, <2>1, <2>2, WorkReplied DEF r
  <2>5. WorkIn(p) = WorkIn(r)
    BY <2>3, <2>4
  <2>6. wpc[w] \in Attending
    BY <2>1 DEF Attending
  <2> QED BY <2>1, <2>5, <2>6 DEF p, r
<1>5. CASE ReceiveInit(w)
  <2>1. /\ wpc[w] = "waitInit" /\ q # << >> /\ toWorker' = [toWorker EXCEPT ![w] = Tail(@)] /\ h.cmd = "INIT"
        /\ Reply(w, <<Msg("ACK", << >>)>>)
    BY <1>5 DEF ReceiveInit, Receives
  <2>2. Msg("ACK", << >>) \in Messages /\ Weight(Msg("ACK", << >>)) = 0 /\ Weight(h) = 0
    BY <1>1, <1>2, <2>1 DEF Weight, IsWork, Msg
  <2> QED BY <1>3, <2>1, <2>2 DEF Attending
<1>6. CASE ReceiveSetDef(w)
  <2>1. /\ wpc[w] = "loop" /\ q # << >> /\ toWorker'[w] = Tail(q) /\ h.cmd = "SETDEF" /\ toSup' = toSup
    BY <1>0, <1>6 DEF ReceiveSetDef, Receives
  <2>2. Weight(h) = 0
    BY <2>1 DEF Weight, IsWork
  <2>3. WorkIn(Tail(q)) \in Nat /\ WorkIn(q) = WorkIn(Tail(q)) + Weight(h)
    BY <1>0, <2>1, WorkTaken
  <2> HIDE DEF q, h
  <2>4. WorkIn(Tail(q)) = WorkIn(q)
    BY <2>2, <2>3
  <2>5. wpc[w] \in Attending
    BY <2>1 DEF Attending
  <2> QED BY <2>1, <2>4, <2>5 DEF q
<1>7. CASE ReceiveTask(w) \/ ReceiveBatch(w)
  <2>1. PICK c \in {"ACK", "ACKB"} :
          /\ wpc[w] = "loop" /\ q # << >> /\ toWorker' = [toWorker EXCEPT ![w] = Tail(@)] /\ h.cmd \in {"TASK", "TASKB"}
          /\ Reply(w, <<Msg(c, h.ids)>>)
    BY <1>7 DEF ReceiveTask, ReceiveBatch, Receives
  <2>2. h = q[1] /\ 1 \in 1..Len(q) /\ h \in Messages
    BY <1>0, <2>1
  <2>3. h.ids \in Seq(TaskId) /\ h.ids # << >>
    BY <2>1, <2>2, MessageFields DEF Solid
  <2>4. Msg(c, h.ids) \in Messages /\ Weight(Msg(c, h.ids)) = 1 /\ Weight(h) = 1
    BY <1>1, <2>1, <2>3 DEF Weight, IsWork, Msg
  <2> QED BY <1>3, <2>1, <2>4 DEF Attending
<1>8. ASSUME Goes(w, "exited") \/ Goes(w, "closing") \/ Goes(w, "closed") \/ Goes(w, "dead") PROVE FALSE
  BY <1>0, <1>8 DEF Goes, Attending
<1>9. CASE ReceiveStop(w) \/ StopInsideBatch(w)
  <2>1. Goes(w, "closed") \/ Goes(w, "closing")
    <3>1. CASE ReceiveStop(w)
      BY <3>1 DEF ReceiveStop
    <3>2. CASE StopInsideBatch(w)
      <4>1. \E p : Goes(w, IF Tail(toWorker[w])[p].abort THEN "closed" ELSE "closing")
        BY <3>2 DEF StopInsideBatch
      <4> QED BY <4>1
    <3> QED BY <1>9, <3>1, <3>2
  <2> QED BY <1>8, <2>1
<1>10. CASE StopBeforeInit(w) \/ CloseFile(w) \/ Exit(w) \/ GiveUpInit(w, Over) \/ WorkerFault(w)
  BY <1>8, <1>10 DEF StopBeforeInit, CloseFile, Exit, GiveUpInit, WorkerFault, TaskThrows, AckFails, Interrupt, Crash
<1> QED BY <1>4, <1>5, <1>6, <1>7, <1>9, <1>10 DEF Works, WorkerStep

\* A step of a worker.
LEMMA WorkerExact ==
  ASSUME Inv, Queues, Exact, NEW w \in Worker, Works(w), NEW S, NEW C, Moves(w, S, C)
  PROVE  Exact'
<1>1. Typed /\ sup' = sup /\ pc' = pc /\ sup.registered \in SUBSET Worker
  BY Listed DEF Inv, Works, supervisor
<1>2. \A v \in Worker : v # w => toWorker'[v] = toWorker[v] /\ toSup'[v] = toSup[v] /\ wpc'[v] = wpc[v]
  BY <1>1, MovesFacts, WorkerStays
<1>3. ASSUME pc \in Looping, NEW v \in sup.registered, wpc'[v] \in Attending
      PROVE  sup.inFlight[v] = WorkIn(toWorker'[v]) + WorkIn(toSup'[v])
  <2>1. CASE v = w
    <3>1. /\ wpc[w] \in Attending
          /\ WorkIn(toWorker'[w]) + WorkIn(toSup'[w]) = WorkIn(toWorker[w]) + WorkIn(toSup[w])
      BY <1>1, <1>3, <2>1, WorkerAnswers DEF Queues
    <3> QED BY <1>3, <2>1, <3>1 DEF Exact, InTransit
  <2>2. CASE v # w
    <3>1. v \in Worker
      BY <1>1
    <3> QED BY <1>2, <1>3, <2>2, <3>1 DEF Exact, InTransit
  <2> QED BY <2>1, <2>2
<1> QED BY <1>1, <1>3 DEF Exact, InTransit, WorkIn

\* What is received while the loop goes on is an acknowledgement of a
\* registered worker, or no work of one.
LEMMA SupervisorTakes ==
  ASSUME Typed, Supervises, pc' \in Looping, NEW v \in sup.registered, v \in Worker
  PROVE  WorkIn(toSup'[v]) = WorkIn(toSup[v]) \/ ReceiveAck(v)
<1>1. CASE StartStep \/ Deadline \/ UserInterrupt
  BY <1>1 DEF StartStep, StartReady, StartTcp, InitTcpWorker, StartDrops, InitReceive, StartDone, Deadline, channels,
              InitTimeout, StartTimeout, GraceExpires, InactiveTcpWorker, Stall, FinishTimeout, UserInterrupt, Looping, Step
<1>2. CASE LoopStep
  BY <1>2 DEF LoopStep, StartDefinition, LoopTop, LoopFails, LoopEnd, Dispatch, DispatchDone, Cleanup, channels,
              NothingReceived, ChildExited, IdleDone
<1>3. CASE FinishStep
  BY <1>3 DEF FinishStep, SendStop, WaitChildren, FinishReceive, FinishDone, Merge, channels, Looping, Step
<1>4. CASE \E w \in Worker : Receive(w)
  <2>1. PICK w \in Worker : Receive(w)
    BY <1>4
  <2> DEFINE r == toSup[v]
             h == Head(toSup[w])
  <2>2. Takes(w)
    BY <2>1 DEF Receive, ReceiveReady, ReceiveInitAck, ReceiveShutdown, ReceiveDone, ReceiveAck, ReceiveErr, Got
  <2>3. ReceiveAck(w) \/ h.cmd \in {"READY", "SHUTDOWN", "DONE"} \/ (h.cmd = "ACK" /\ h.ids = << >>)
    BY <2>1 DEF Receive, ReceiveReady, ReceiveInitAck, ReceiveShutdown, ReceiveDone, ReceiveErr, Got, Throw, Looping
  <2>4. CASE w # v
    BY <2>2, <2>4, TakesTypes
  <2>5. CASE w = v /\ ~ReceiveAck(w)
    <3>1. Weight(Head(r)) = 0 /\ r \in Seq(Messages) /\ r # << >> /\ toSup'[v] = Tail(r)
      BY <2>2, <2>3, <2>5, TakesTypes DEF Weight, IsWork, Typed
    <3> HIDE DEF r
    <3>2. WorkIn(Tail(r)) \in Nat /\ WorkIn(r) = WorkIn(Tail(r)) + Weight(Head(r))
      BY <3>1, WorkTaken
    <3>3. WorkIn(Tail(r)) = WorkIn(r)
      BY <3>1, <3>2
    <3> QED BY <3>1, <3>3 DEF r
  <2> QED BY <2>4, <2>5
<1> QED BY <1>1, <1>2, <1>3, <1>4 DEF Supervises, SupervisorStep

\* An acknowledgement counts the message that it answers.
LEMMA AckExact ==
  ASSUME Inv, Queues, Own, Letters, NEW w \in sup.registered, ReceiveAck(w), pc' \in Looping
  PROVE  /\ w \in Worker /\ toWorker' = toWorker /\ \A v \in Worker : v # w => toSup'[v] = toSup[v]
         /\ sup.inFlight[w] \in Nat \ {0} /\ sup'.inFlight = [sup.inFlight EXCEPT ![w] = @ - 1]
         /\ WorkIn(toSup'[w]) \in Nat /\ WorkIn(toSup[w]) = WorkIn(toSup'[w]) + 1
         /\ sup'.registered = sup.registered
<1> DEFINE r == toSup[w]
           h == Head(r)
           own == Owned(sup, w, h.ids)
           k == IF h.cmd = "ACKB" \/ own # {} THEN 1 ELSE 0
           f == sup.inFlight
<1>1. /\ Typed /\ sup \in Sups /\ w \in Worker /\ Takes(w) /\ toWorker' = toWorker /\ r \in Seq(Messages)
      /\ h.cmd = "ACKB" \/ (h.cmd = "ACK" /\ h.ids # << >>)
      /\ f \in [Worker -> Nat] /\ Solid(r) /\ Agrees(sup, w, toWorker[w], r, wdef[w], mem[w])
  BY Listed, SupTypes DEF ReceiveAck, Got, Inv, Typed, Queues, Own
<1>2. r # << >> /\ toSup'[w] = Tail(r) /\ h \in Messages /\ \A v \in Worker : v # w => toSup'[v] = toSup[v]
  BY <1>1, TakesTypes
<1>3. h = r[1] /\ 1 \in 1..Len(r)
  BY <1>1, <1>2
<1>4. IsWork(h) /\ (h.cmd = "ACKB" => h.ids # << >>)
  BY <1>1, <1>3 DEF IsWork, Solid
<1>5. Load(h) # {} /\ Load(h) = Range(h.ids)
  BY <1>1, <1>2, <1>4, WorkHolds DEF Load
<1>6. own # {}
  <2>1. Cargo(r) = Load(h) \cup Cargo(Tail(r))
    BY <1>1, <1>2, TailMessages
  <2>2. \A t \in Load(h) : sup.mgr.fTaskToWorker[t] = w
    BY <1>1, <2>1 DEF Agrees
  <2> QED BY <1>5, <2>2 DEF Owned, M!GetTaskWorker
<1>7. k = 1
  BY <1>6
<1>8. sup' = Settle(sup, w, own, k)
  <2>1. pc' # "throw"
    BY DEF Looping
  <2> QED BY <2>1 DEF ReceiveAck, Throw
<1>9. f[w] \in Nat \ {0}
  BY <1>2, <1>5, AckIsCounted
<1>10. Max({0, f[w] - 1}) = f[w] - 1
  <2> DEFINE z == f[w] - 1
  <2>1. z \in Nat
    BY <1>9
  <2> HIDE DEF z
  <2>2. Max({0, z}) \in {0, z} /\ Max({0, z}) >= z
    BY ONLY <2>1, TwoNumbers
  <2>3. \A m : m \in {0, z} /\ m >= z => m = z
    BY <2>1
  <2>4. Max({0, z}) = z
    BY ONLY <2>2, <2>3
  <2> QED BY <2>4 DEF z
<1>11. sup'.inFlight = [f EXCEPT ![w] = Max({0, @ - 1})] /\ sup'.registered = sup.registered
  <2> HIDE DEF own, k
  <2> QED BY <1>1, <1>7, <1>8 DEF Settle, Sups
<1>12. sup'.inFlight = [f EXCEPT ![w] = @ - 1]
  <2> HIDE DEF f
  <2> QED BY <1>1, <1>10, <1>11
<1>13. WorkIn(Tail(r)) \in Nat /\ WorkIn(r) = WorkIn(Tail(r)) + 1
  <2>1. Weight(h) = 1
    BY <1>4 DEF Weight
  <2>2. WorkIn(Tail(r)) \in Nat /\ WorkIn(r) = WorkIn(Tail(r)) + Weight(h)
    BY <1>1, <1>2, WorkTaken
  <2> QED BY <2>1, <2>2
<1> HIDE DEF own, k, h
<1> QED BY <1>1, <1>2, <1>9, <1>11, <1>12, <1>13

\* A message without tasks is sent.
LEMMA ToldWork ==
  ASSUME NEW q \in Seq(Messages), NEW m \in Messages, m.cmd \in {"INIT", "STOP", "SETDEF"}, NEW p, p = q \/ p = Append(q, m)
  PROVE  WorkIn(p) = WorkIn(q)
<1>1. WorkIn(q) \in Nat /\ WorkIn(Append(q, m)) = WorkIn(q) + Weight(m)
  BY WorkAppended
<1>2. Weight(m) = 0
  BY DEF Weight, IsWork
<1>3. WorkIn(Append(q, m)) = WorkIn(q)
  BY <1>1, <1>2
<1> QED BY <1>3

\* A worker without tasks has no messages of work, and sends none.
LEMMA IdleWork ==
  ASSUME Inv, Steady, Queues, NEW v \in Worker, Cargo(toWorker[v]) = {}, Cargo(toSup[v]) = {}
  PROVE  WorkIn(toWorker[v]) = 0 /\ WorkIn(toSup[v]) = 0 /\ WorkIn(toSup'[v]) = 0
<1> DEFINE r == toSup[v]
<1>1. /\ toWorker[v] \in Seq(Messages) /\ r \in Seq(Messages) /\ Solid(toWorker[v]) /\ Solid(r)
      /\ toSup'[v] = r \/ (r # << >> /\ toSup'[v] = Tail(r))
      /\ Cargo(r) = {}
  BY DEF Inv, Typed, Queues, Steady
<1> HIDE DEF r
<1>2. WorkIn(toWorker[v]) = 0 /\ WorkIn(r) = 0
  BY <1>1, NoWork
<1>3. r # << >> => WorkIn(Tail(r)) = 0
  <2>1. r # << >> => Tail(r) \in Seq(Messages) /\ Solid(Tail(r)) /\ Cargo(Tail(r)) \subseteq Cargo(r)
    BY <1>1, TailMessages
  <2> QED BY <1>1, <2>1, NoWork
<1> QED BY <1>1, <1>2, <1>3 DEF r

\* No acknowledgement of a registered worker is received.
LEMMA OthersExact ==
  ASSUME Inv, Queues, Ways, Letters, Exact, Steady, Effect, Supervises, pc' \in Looping,
         \A w \in sup.registered : ~ReceiveAck(w),
         NEW v \in Worker, v \in sup'.registered, wpc[v] \in Attending
  PROVE  sup'.inFlight[v] = WorkIn(toWorker'[v]) + WorkIn(toSup'[v])
<1> DEFINE f == sup.inFlight
           q == toWorker[v]
           r == toSup[v]
<1>0. /\ Typed /\ sup \in Sups /\ f \in [Worker -> Nat] /\ q \in Seq(Messages) /\ r \in Seq(Messages)
      /\ sup.registered \in SUBSET Worker /\ Solid(r) /\ sup.def \in Nat
  <2>1. sup.def \in Nat
    BY Listed, SupTypes, ExecutorConstants
  <2> QED BY <2>1, Listed, SupTypes DEF Inv, Typed, Queues
<1>1. v \in sup.registered /\ pc \in Looping => f[v] = WorkIn(q) + WorkIn(r)
  BY DEF Exact, InTransit
<1>2. v \in sup.registered => WorkIn(toSup'[v]) = WorkIn(r)
  BY <1>0, SupervisorTakes
<1>3. \A d \in Defs : SetDef(d) \in Messages /\ SetDef(d).cmd = "SETDEF"
  BY Tokenless
<1>4. CASE Aside
  <2>1. v \in sup.registered /\ pc \in Looping /\ sup'.inFlight = f
    BY <1>4 DEF Aside, SameTeam, SameTasks, SameMessages
  <2>2. WorkIn(toWorker'[v]) = WorkIn(q)
    <3>1. \A m \in {Msg("INIT", << >>), Stop(TRUE), Stop(FALSE)} : m \in Messages /\ m.cmd \in {"INIT", "STOP"}
      BY Tokenless
    <3>2. toWorker'[v] = q \/ \E m \in {Msg("INIT", << >>), Stop(TRUE), Stop(FALSE)} : toWorker'[v] = Append(q, m)
      BY <1>4 DEF Aside, Told
    <3> HIDE DEF q
    <3> QED BY <1>0, <3>1, <3>2, ToldWork
  <2> QED BY <1>1, <1>2, <2>1, <2>2
<1>5. CASE Defined
  <2>1. /\ v \in sup.registered /\ pc \in Resting /\ sup'.inFlight[v] = 0 /\ sup'.def \in Defs
        /\ toWorker'[v] \in {q, Append(q, SetDef(sup'.def))}
    BY <1>0, <1>5 DEF Defined
  <2>2. Cargo(q) = {} /\ Cargo(r) = {}
    <3>1. M!Running(sup.mgr) = {}
      BY <2>1 DEF Ways, Rest
    <3> QED BY <2>1, <3>1, OwnRuns DEF Ways
  <2>3. WorkIn(q) = 0 /\ WorkIn(toSup'[v]) = 0
    BY <2>2, IdleWork
  <2>4. WorkIn(toWorker'[v]) = WorkIn(q)
    BY <1>0, <1>3, <2>1, ToldWork
  <2> QED BY <2>1, <2>3, <2>4
<1>6. ASSUME NEW w \in Worker, Joined(w) PROVE sup'.inFlight[v] = WorkIn(toWorker'[v]) + WorkIn(toSup'[v])
  <2>1. /\ pc \in Looping /\ sup'.inFlight = f /\ sup'.registered = sup.registered \cup {w}
        /\ sup.def \in Defs /\ toWorker'[w] \in {toWorker[w], Append(toWorker[w], SetDef(sup.def))} /\ Young(w)
        /\ \A u \in Worker : u # w => toWorker'[u] = toWorker[u]
    BY <1>6 DEF Joined, CaughtUp, SameTasks, SameMessages
  <2>2. CASE v # w
    BY <1>1, <1>2, <2>1, <2>2
  <2>3. CASE v = w
    <3>1. WorkIn(toWorker'[v]) = WorkIn(q)
      <4>1. toWorker'[v] = q \/ toWorker'[v] = Append(q, SetDef(sup.def))
        BY <2>1, <2>3
      <4>2. SetDef(sup.def) \in Messages /\ SetDef(sup.def).cmd = "SETDEF"
        BY <1>3, <2>1
      <4> HIDE DEF q
      <4> QED BY <1>0, <4>1, <4>2, ToldWork
    <3>2. WorkIn(q) = 0 /\ WorkIn(r) = 0 /\ WorkIn(toSup'[v]) = 0
      BY <2>1, <2>3, IdleWork DEF Ways, Youngs
    <3>3. f[v] = 0
      <4>1. CASE v \in sup.registered
        BY <1>1, <2>1, <3>2, <4>1
      <4>2. CASE v \notin sup.registered
        BY <4>2 DEF Letters
      <4> QED BY <4>1, <4>2
    <3> QED BY <2>1, <3>1, <3>2, <3>3
  <2> QED BY <2>2, <2>3
<1>7. ASSUME NEW w \in Worker, Failed(w) PROVE sup'.inFlight[v] = WorkIn(toWorker'[v]) + WorkIn(toSup'[v])
  <2>1. /\ pc \in Looping /\ v # w /\ v \in sup.registered /\ toWorker' = toWorker
        /\ sup'.inFlight = [sup.inFlight EXCEPT ![w] = 0]
    BY <1>7 DEF Failed, Forgets
  <2>2. sup'.inFlight[v] = f[v]
    BY <1>0, <2>1
  <2> QED BY <1>1, <1>2, <2>1, <2>2
<1>8. ASSUME NEW w \in Worker, Acked(w) PROVE sup'.inFlight[v] = WorkIn(toWorker'[v]) + WorkIn(toSup'[v])
  <2> DEFINE p == toSup[w]
  <2>1. /\ pc \in Looping /\ v \in sup.registered /\ toWorker' = toWorker /\ w \in sup.registered
        /\ p # << >> /\ toSup'[w] = Tail(p) /\ p \in Seq(Messages) /\ Solid(p)
    BY <1>0, <1>8 DEF Acked, SameTeam, Typed, Queues
  <2>2. PICK own \in SUBSET Load(Head(p)), k \in {0, 1} :
               Delivered(sup', sup, w, k) /\ (k = 1 => own # {} \/ Head(p).cmd = "ACKB")
    BY <1>8 DEF Acked
  <2>3. k # 1
    <3>1. WorkIn(Tail(p)) = WorkIn(p)
      BY <1>0, <2>1, SupervisorTakes
    <3>2. WorkIn(Tail(p)) \in Nat /\ WorkIn(p) = WorkIn(Tail(p)) + Weight(Head(p))
      BY <2>1, WorkTaken
    <3>3. Weight(Head(p)) # 1
      BY <3>1, <3>2
    <3>4. ~IsWork(Head(p))
      BY <3>3 DEF Weight
    <3>5. Head(p) = p[1] /\ 1 \in 1..Len(p) /\ Head(p) \in Messages
      BY <2>1
    <3> HIDE DEF p
    <3>6. Head(p).cmd # "ACKB" /\ Load(Head(p)) = {}
      BY <2>1, <3>4, <3>5, WorkHolds DEF IsWork, Solid
    <3> QED BY <2>2, <3>6
  <2>4. sup'.inFlight[v] = f[v]
    <3>1. sup'.inFlight = [f EXCEPT ![w] = Max({0, @ - 0})] /\ k = 0
      BY <2>2, <2>3 DEF Delivered
    <3>2. f[w] \in Int /\ f[w] - 0 = f[w] /\ f[w] >= 0 /\ 0 \in Int
      BY <1>0
    <3> DEFINE x == f[w]
    <3> HIDE DEF x
    <3>3. Max({0, x}) \in {0, x} /\ Max({0, x}) >= x /\ x >= 0 /\ x \in Int
      BY <3>2, TwoNumbers DEF x
    <3>4. \A m : m \in {0, x} /\ m >= x => m = x
      BY <3>3
    <3>5. Max({0, x}) = x
      BY ONLY <3>3, <3>4
    <3> HIDE DEF f
    <3> QED BY <1>0, <3>1, <3>2, <3>5 DEF x
  <2> QED BY <1>1, <1>2, <2>1, <2>4
<1>9. ASSUME NEW w \in Worker, Dispatched(w) PROVE sup'.inFlight[v] = WorkIn(toWorker'[v]) + WorkIn(toSup'[v])
  <2>1. /\ pc \in Looping /\ v \in sup.registered /\ toSup' = toSup
        /\ sup'.inFlight = [f EXCEPT ![w] = @ + 1]
    BY <1>9 DEF Dispatched, SameTeam
  <2>2. PICK m \in Messages : /\ toWorker' = [toWorker EXCEPT ![w] = Append(@, m)]
                              /\ m.cmd \in {"TASK", "TASKB"}
    <3> DEFINE B == BatchTasks(sup)
    <3>1. PICK m \in {Msg(c, B) : c \in {"TASK", "TASKB"}} :
            toWorker' = [toWorker EXCEPT ![w] = Append(@, m)] /\ m \in Messages
      BY <1>9 DEF Dispatched
    <3> HIDE DEF B
    <3>2. m.cmd \in {"TASK", "TASKB"}
      BY <3>1 DEF Msg
    <3> QED BY <3>1, <3>2
  <2>3. CASE v # w
    <3>1. toWorker'[v] = q /\ toSup'[v] = r
      BY <1>0, <2>1, <2>2, <2>3 DEF Typed
    <3>2. sup'.inFlight[v] = f[v]
      BY <1>0, <2>1, <2>3
    <3> HIDE DEF q, r, f
    <3> QED BY <1>1, <2>1, <3>1, <3>2
  <2>4. CASE v = w
    <3>1. toWorker'[v] = Append(q, m) /\ sup'.inFlight[v] = f[v] + 1
      BY <1>0, <2>1, <2>2, <2>4 DEF Typed
    <3>2. Weight(m) = 1
      BY <2>2 DEF Weight, IsWork
    <3> HIDE DEF q, r, f
    <3>3. WorkIn(q) \in Nat /\ WorkIn(Append(q, m)) = WorkIn(q) + Weight(m) /\ WorkIn(r) \in Nat
      <4>1. WorkIn(r) \in Nat
        BY <1>0, <2>2, WorkAppended
      <4> QED BY <1>0, <4>1, WorkAppended
    <3>4. toSup'[v] = r
      BY <2>1 DEF r
    <3> QED BY <1>1, <2>1, <3>1, <3>2, <3>3, <3>4
  <2> QED BY <2>3, <2>4
<1>10. ASSUME NEW w \in Worker, Retained(w) PROVE sup'.inFlight[v] = WorkIn(toWorker'[v]) + WorkIn(toSup'[v])
  <2>1. pc \in Looping /\ v \in sup.registered /\ toWorker' = toWorker /\ sup'.inFlight = f
    BY <1>10 DEF Retained, SameMessages
  <2> QED BY <1>1, <1>2, <2>1
<1> HIDE DEF f, q, r
<1> QED BY <1>4, <1>5, <1>6, <1>7, <1>8, <1>9, <1>10 DEF Effect

\* A step of the supervisor.
LEMMA SupervisorExact ==
  ASSUME Inv, Queues, Ways, Letters, Exact, Supervises
  PROVE  Exact'
<1>1. Steady /\ Effect /\ Typed
  BY SupervisorEffect DEF Inv
<1>2. ASSUME pc' \in Looping, NEW v \in Worker, v \in sup'.registered, wpc'[v] \in Attending
      PROVE  sup'.inFlight[v] = WorkIn(toWorker'[v]) + WorkIn(toSup'[v])
  <2>1. wpc[v] \in Attending
    <3>1. wpc'[v] \in {wpc[v], "dead"}
      BY <1>1, SupervisorKills
    <3> QED BY <1>2, <3>1 DEF Attending
  <2>2. CASE \E w \in sup.registered : ReceiveAck(w)
    <3>1. PICK w \in sup.registered : ReceiveAck(w)
      BY <2>2
    <3>2. /\ w \in Worker /\ toWorker' = toWorker /\ \A u \in Worker : u # w => toSup'[u] = toSup[u]
          /\ sup.inFlight[w] \in Nat \ {0} /\ sup'.inFlight = [sup.inFlight EXCEPT ![w] = @ - 1]
          /\ WorkIn(toSup'[w]) \in Nat /\ WorkIn(toSup[w]) = WorkIn(toSup'[w]) + 1
          /\ sup'.registered = sup.registered
      BY <1>2, <3>1, AckExact DEF Ways
    <3>3. pc \in Looping /\ sup.inFlight \in [Worker -> Nat]
      BY <3>1, Listed, SupTypes DEF ReceiveAck, Got, Looping
    <3>4. v \in sup.registered /\ sup.inFlight[v] = WorkIn(toWorker[v]) + WorkIn(toSup[v])
      BY <1>2, <2>1, <3>2, <3>3 DEF Exact, InTransit
    <3>5. WorkIn(toWorker[v]) \in Nat
      <4>1. toWorker[v] \in Seq(Messages) /\ << >> \in Seq(TaskId) /\ Msg("INIT", << >>) \in Messages
        BY <1>1, Tokenless DEF Typed
      <4> QED BY <4>1, WorkAppended
    <3>6. CASE v = w
      <4>1. sup'.inFlight[v] = sup.inFlight[v] - 1
        BY <3>2, <3>3, <3>6
      <4> QED BY <3>2, <3>4, <3>5, <3>6, <4>1
    <3>7. CASE v # w
      <4>1. sup'.inFlight[v] = sup.inFlight[v]
        BY <3>2, <3>3, <3>7
      <4> QED BY <1>2, <3>2, <3>4, <3>7, <4>1
    <3> QED BY <3>6, <3>7
  <2>3. CASE \A w \in sup.registered : ~ReceiveAck(w)
    BY <1>1, <1>2, <2>1, <2>3, OthersExact
  <2> QED BY <2>2, <2>3
<1>3. pc' \in Looping => sup'.registered \subseteq Worker
  <2>1. sup.registered \in SUBSET Worker
    BY Listed
  <2> QED BY <1>1, <2>1 DEF Effect, Aside, Joined, Failed, Acked, Dispatched, Retained, Defined, SameTeam
<1> QED BY <1>2, <1>3 DEF Exact, InTransit, WorkIn

LEMMA ExactNext ==
  ASSUME Inv, Queues, Ways, Letters, Exact, [Next]_vars
  PROVE  Exact'
<1>1. CASE UNCHANGED vars
  BY <1>1 DEF vars, Exact, InTransit, WorkIn
<1>2. CASE Supervises
  BY <1>2, SupervisorExact
<1>3. CASE \E w \in Worker : Works(w)
  <2>1. PICK w \in Worker : Works(w)
    BY <1>3
  <2>2. \E S, C : Moves(w, S, C)
    BY <2>1, WorkerMoves DEF Works, Inv
  <2>3. PICK S, C : Moves(w, S, C)
    BY <2>2
  <2> QED BY <2>1, <2>3, WorkerExact
<1> QED BY <1>1, <1>2, <1>3, NextCases

\* In the main loop the counter that gates dispatch is the sum of the
\* registered workers' counters, and the counter of a worker that serves is the
\* number of its messages on their way: a removed worker leaves no ghost behind
\* (releaseWorkerMessages and handleWorkerFailure).
THEOREM NoGhostMessagesAlways == Spec => []NoGhostMessages
<1> DEFINE I == Inv /\ Queues /\ Current /\ Ways /\ Letters /\ Exact
<1>1. Init => I
  <2>1. Init => Exact
    BY DEF Init, ExecutorInit, Exact, Looping
  <2> QED BY <2>1, InitInv, QueuesInit, WaysInit, LettersInit
<1>2. I /\ [Next]_vars => I'
  BY NextInv, QueuesNext, WaysNext, LettersNext, ExactNext
<1>3. I => NoGhostMessages
  <2> SUFFICES ASSUME I, InLoop PROVE NoGhostMessages
    BY DEF NoGhostMessages
  <2>1. pc \in Looping
    BY DEF InLoop, Looping
  <2>2. sup.outstandingMessages = SumFunctionOnSet(sup.inFlight, sup.registered)
    <3>1. sup.inFlight \in [Worker -> Nat] /\ sup.registered \in SUBSET Worker
      BY Listed, SupTypes
    <3>2. /\ IsFiniteSet(Tokens(sup.inFlight)) /\ sup.outstandingMessages = Cardinality(Tokens(sup.inFlight))
          /\ \A w \in Worker \ sup.registered : sup.inFlight[w] = 0
      BY DEF Letters
    <3> QED BY <3>1, <3>2, SumOfTokens
  <2>3. \A w \in sup.registered : wpc[w] = "loop" => sup.inFlight[w] = InTransit(w)
    BY <2>1 DEF Exact, Attending
  <2> QED BY <2>2, <2>3 DEF NoGhostMessages
<1> QED BY <1>1, <1>2, <1>3, PTL DEF Spec
=============================================================================
