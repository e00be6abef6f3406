----------------------- MODULE ExecuteParallel_proofs ------------------------
(***************************************************************************)
(* The thread pool is correct for any pool size, any number of dimensions, *)
(* any bounds and any exceptions: the counter, the single execution of     *)
(* every coordinate, the exception that is kept and reported.              *)
(***************************************************************************)
EXTENDS ExecuteParallel, CommonLemmas, FiniteSetTheorems, TLAPS

-----------------------------------------------------------------------------
(* The order in which Increment visits the coordinates *)

LEMMA TaskFacts ==
  /\ Len(fMinBounds) \in Nat \ {0} /\ Dimension \subseteq Nat
  /\ \A c \in Task : c = [i \in Dimension |-> c[i]]
  /\ \A c \in Task, i \in Dimension :
       c[i] \in Int /\ fMinBounds[i] <= c[i] /\ c[i] <= fMaxBounds[i]
  /\ \A i \in Dimension : fMinBounds[i] \in Int /\ fMaxBounds[i] \in Int
  /\ \A f : (\A i \in Dimension : f[i] \in Int /\ fMinBounds[i] <= f[i] /\ f[i] <= fMaxBounds[i])
            => [i \in Dimension |-> f[i]] \in Task
<1>1. Len(fMinBounds) \in Nat \ {0} /\ Dimension \subseteq Nat
  BY PoolConstants DEF Dimension
<1>2. \A i \in Dimension : fMinBounds[i] \in Int /\ fMaxBounds[i] \in Int
  BY PoolConstants DEF Dimension
<1>3. \A c \in Task, i \in Dimension :
        c[i] \in Int /\ fMinBounds[i] <= c[i] /\ c[i] <= fMaxBounds[i]
  BY <1>2 DEF Task
<1>4. \A c \in Task : c = [i \in Dimension |-> c[i]]
  BY DEF Task
<1>5. ASSUME NEW f, \A i \in Dimension : f[i] \in Int /\ fMinBounds[i] <= f[i] /\ f[i] <= fMaxBounds[i]
      PROVE  [i \in Dimension |-> f[i]] \in Task
  <2> DEFINE V == UNION {fMinBounds[i]..fMaxBounds[i] : i \in Dimension}
  <2>1. \A i \in Dimension : f[i] \in fMinBounds[i]..fMaxBounds[i]
    BY <1>2, <1>5
  <2>2. \A i \in Dimension : f[i] \in V
    BY <2>1
  <2>3. [i \in Dimension |-> f[i]] \in [Dimension -> V]
    BY <2>2
  <2> QED
    BY <2>1, <2>3 DEF Task
<1> QED
  BY <1>1, <1>2, <1>3, <1>4, <1>5

\* The coordinates c come before d: in the first dimension where they differ
\* c is smaller.
Before(c, d) == \E k \in Dimension : c[k] < d[k] /\ \A j \in Dimension : j < k => c[j] = d[j]

\* Coordinates that differ are ordered.
LEMMA BeforeTotal ==
  ASSUME NEW c \in Task, NEW d \in Task, c # d
  PROVE  Before(c, d) \/ Before(d, c)
<1> DEFINE T == {k \in Dimension : c[k] # d[k]}
<1>1. T # {} /\ T \in SUBSET Nat
  BY TaskFacts
<1>2. PICK k \in T : \A j \in T : k <= j
  BY <1>1, LeastNat
<1>3. \A j \in Dimension : j < k => c[j] = d[j]
  BY <1>1, <1>2, TaskFacts
<1>4. c[k] < d[k] \/ d[k] < c[k]
  BY <1>2, TaskFacts
<1> QED
  BY <1>2, <1>3, <1>4 DEF Before

LEMMA BeforeAsymmetric ==
  ASSUME NEW c \in Task, NEW d \in Task, Before(c, d)
  PROVE  ~Before(d, c) /\ c # d
<1>1. PICK k \in Dimension : c[k] < d[k] /\ \A j \in Dimension : j < k => c[j] = d[j]
  BY DEF Before
<1>2. ASSUME NEW l \in Dimension, d[l] < c[l], \A j \in Dimension : j < l => d[j] = c[j] PROVE FALSE
  <2>1. k \in Nat /\ l \in Nat /\ c[k] \in Int /\ d[k] \in Int /\ c[l] \in Int /\ d[l] \in Int
    BY TaskFacts
  <2>2. CASE k < l
    BY <1>1, <1>2, <2>1, <2>2
  <2>3. CASE l < k
    BY <1>1, <1>2, <2>1, <2>3
  <2>4. CASE l = k
    BY <1>1, <1>2, <2>1, <2>4
  <2> QED
    BY <2>1, <2>2, <2>3, <2>4
<1>3. c # d
  BY <1>1, TaskFacts
<1> QED
  BY <1>2, <1>3 DEF Before

\* The walk starts with the first coordinates ...
LEMMA FirstTask ==
  /\ fMinBounds \in Task
  /\ \A d \in Task : ~Before(d, fMinBounds)
<1>1. fMinBounds = [i \in Dimension |-> fMinBounds[i]]
  BY PoolConstants DEF Dimension
<1>2. \A i \in Dimension : fMinBounds[i] \in Int /\ fMinBounds[i] <= fMinBounds[i] /\ fMinBounds[i] <= fMaxBounds[i]
  BY TaskFacts, PoolConstants
<1>3. fMinBounds \in Task
  BY <1>1, <1>2, TaskFacts
<1>4. ASSUME NEW d \in Task PROVE ~Before(d, fMinBounds)
  BY TaskFacts DEF Before
<1> QED
  BY <1>3, <1>4

\* ... ends behind the last ...
LEMMA LastTask ==
  ASSUME NEW c \in Task, Movable(c) = {}, NEW d \in Task
  PROVE  Before(d, c) \/ d = c
<1>1. \A i \in Dimension : ~(c[i] < fMaxBounds[i])
  BY DEF Movable
<1>2. ~Before(c, d)
  BY <1>1, TaskFacts DEF Before
<1> QED
  BY <1>2, BeforeTotal

\* ... and Increment goes from each to the next one.
LEMMA NextTask ==
  ASSUME NEW c \in Task, Movable(c) # {}
  PROVE  /\ Increment(c) \in Task
         /\ \A d \in Task : Before(d, Increment(c)) <=> Before(d, c) \/ d = c
<1> DEFINE n == Len(fMinBounds)
           M == {n - i : i \in Movable(c)}
           k == CHOOSE i \in Movable(c) : \A j \in Movable(c) : j <= i
           e == Increment(c)
<1>1. \E i \in Movable(c) : \A j \in Movable(c) : j <= i
  <2>1. Movable(c) \subseteq 1..n /\ n \in Nat
    BY TaskFacts DEF Movable, Dimension
  <2>2. M \in SUBSET Nat /\ M # {}
    BY <2>1
  <2>3. PICK m \in M : \A l \in M : m <= l
    BY <2>2, LeastNat
  <2>4. PICK i \in Movable(c) : m = n - i
    BY <2>3
  <2>5. ASSUME NEW j \in Movable(c) PROVE j <= i
    <3>1. n - i <= n - j
      BY <2>3, <2>4
    <3> QED
      BY <2>1, <3>1
  <2> QED
    BY <2>5
<1>2. k \in Movable(c) /\ \A j \in Movable(c) : j <= k
  BY <1>1
<1> HIDE DEF k
<1>3. e = [i \in Dimension |-> IF i < k THEN c[i] ELSE IF i = k THEN c[i] + 1 ELSE fMinBounds[i]]
  BY DEF Increment, k
<1> HIDE DEF e, M
<1>4. /\ k \in Dimension /\ c[k] < fMaxBounds[k]
      /\ \A j \in Dimension : k < j => c[j] = fMaxBounds[j]
  <2>1. k \in Dimension /\ c[k] < fMaxBounds[k]
    BY <1>2 DEF Movable
  <2>2. ASSUME NEW j \in Dimension, k < j PROVE c[j] = fMaxBounds[j]
    <3>1. j \notin Movable(c)
      BY <1>2, <2>1, <2>2, TaskFacts
    <3> QED
      BY <3>1, TaskFacts DEF Movable
  <2> QED
    BY <2>1, <2>2
<1>5. /\ \A j \in Dimension : j < k => e[j] = c[j]
      /\ e[k] = c[k] + 1
      /\ \A j \in Dimension : k < j => e[j] = fMinBounds[j]
  BY <1>3, <1>4, TaskFacts
<1>6. e \in Task
  <2>1. ASSUME NEW i \in Dimension
        PROVE  e[i] \in Int /\ fMinBounds[i] <= e[i] /\ e[i] <= fMaxBounds[i]
    <3>1. CASE i < k
      BY <1>5, <3>1, TaskFacts
    <3>2. CASE i = k
      BY <1>4, <1>5, <3>2, TaskFacts
    <3>3. CASE k < i
      <4>1. e[i] = fMinBounds[i]
        BY <1>5, <3>3
      <4> QED
        BY <4>1, TaskFacts, PoolConstants
    <3> QED
      BY <1>4, <3>1, <3>2, <3>3, TaskFacts
  <2>2. e = [i \in Dimension |-> e[i]]
    BY <1>3
  <2> QED
    BY <2>1, <2>2, TaskFacts
<1>7. Before(c, e)
  BY <1>4, <1>5, TaskFacts DEF Before
<1>8. ASSUME NEW d \in Task, Before(d, c) PROVE Before(d, e)
  <2>1. PICK l \in Dimension : d[l] < c[l] /\ \A j \in Dimension : j < l => d[j] = c[j]
    BY <1>8 DEF Before
  <2>2. CASE l < k
    BY <1>4, <1>5, <2>1, <2>2, TaskFacts DEF Before
  <2>3. CASE k <= l
    <3>1. d[k] < e[k]
      <4>1. d[k] <= c[k]
        BY <1>4, <2>1, <2>3, TaskFacts
      <4> QED
        BY <1>4, <1>5, <4>1, TaskFacts
    <3>2. \A j \in Dimension : j < k => d[j] = e[j]
      BY <1>4, <1>5, <2>1, <2>3, TaskFacts
    <3> QED
      BY <1>4, <3>1, <3>2 DEF Before
  <2> QED
    BY <1>4, <2>2, <2>3, TaskFacts
<1>9. ASSUME NEW d \in Task, Before(d, e) PROVE Before(d, c) \/ d = c
  <2>1. PICK l \in Dimension : d[l] < e[l] /\ \A j \in Dimension : j < l => d[j] = e[j]
    BY <1>9 DEF Before
  <2>2. CASE l < k
    BY <1>4, <1>5, <2>1, <2>2, TaskFacts DEF Before
  <2>3. CASE k < l
    <3>1. d[l] < fMinBounds[l]
      BY <1>5, <2>1, <2>3
    <3> QED
      BY <3>1, TaskFacts
  <2>4. CASE l = k
    <3>1. d[k] <= c[k] /\ \A j \in Dimension : j < k => d[j] = c[j]
      BY <1>4, <1>5, <2>1, <2>4, TaskFacts
    <3>2. ~Before(c, d)
      <4> SUFFICES ASSUME NEW m \in Dimension, c[m] < d[m], \A j \in Dimension : j < m => c[j] = d[j]
                   PROVE  FALSE
        BY DEF Before
      <4>1. CASE k < m
        BY <1>4, <4>1, TaskFacts
      <4>2. CASE m = k
        BY <1>4, <3>1, <4>2, TaskFacts
      <4>3. CASE m < k
        <5>1. d[m] = c[m] /\ c[m] \in Int
          BY <1>4, <3>1, <4>3, TaskFacts
        <5> QED BY <5>1
      <4>4. m \in Int /\ k \in Int
        BY <1>4, TaskFacts
      <4> QED
        BY <4>1, <4>2, <4>3, <4>4
    <3> QED
      BY <3>2, BeforeTotal
  <2> QED
    BY <1>4, <2>2, <2>3, <2>4, TaskFacts
<1> QED
  BY <1>6, <1>7, <1>8, <1>9 DEF e

-----------------------------------------------------------------------------
(* The inductive invariant *)

Loop == {"check", "enqueue", "notify"}

Busy == {"run", "dec", "excCheck", "excStore", "drain", "notifyProducer", "notifyConsumer", "decExc"}

Raised == {"excCheck", "excStore", "drain", "notifyProducer", "notifyConsumer", "decExc", "lastExc"}

Drained == {"notifyProducer", "notifyConsumer", "decExc", "lastExc", "exited"}

\* A worker has a task in hand from its pop to its decrement.
Hands == \A t \in Thread : cur[t] # NoTask <=> tpc[t] \in Busy

\* Once a worker leaves, the pool is stopped and the queue stays empty; main
\* goes on to join when the counter is zero.
Stopped ==
  /\ \A t \in Thread : tpc[t] \in Drained => stop /\ tasks = << >>
  /\ mpc \in {"join", "returned", "thrown"} => active = 0

\* An exception is stored, or somebody is about to store one.
Blame ==
  /\ failed => \/ firstExc # NoException
               \/ mpc \in {"catchCheck", "catchStore"}
               \/ \E t \in Thread : tpc[t] \in {"excCheck", "excStore"}
  /\ \A t \in Thread : tpc[t] \in Raised => failed
  /\ mpc \in {"catchCheck", "catchStore", "catchNotify"} => failed
  /\ stop /\ mpc \in Loop => failed
  /\ mpc = "returned" => ~failed

\* exception_mutex: one worker at a time stores its exception, and only main
\* may have come before it.
Storing ==
  \A t \in Thread : tpc[t] = "excStore" =>
    /\ firstExc \in {NoException, Main}
    /\ \A u \in Thread : tpc[u] = "excStore" => u = t

\* The coordinates c were enqueued: all those main has passed.
Behind(c) == mpc \in Loop => Before(c, next) \/ (mpc = "notify" /\ c = next)

\* No coordinates are in two places, and while nobody threw those enqueued
\* are queued, in a worker's hands or done.
Account ==
  /\ Once(tasks)
  /\ \A c \in Task : Has(tasks, c) => /\ Behind(c) /\ runs[c] = 0
                                      /\ \A t \in Thread : cur[t] # c
  /\ \A t \in Thread : cur[t] # NoTask => /\ Behind(cur[t])
                                          /\ \A u \in Thread \ {t} : cur[u] # cur[t]
  /\ \A t \in Thread : tpc[t] = "run" => runs[cur[t]] = 0
  /\ \A c \in Task : runs[c] <= 1 /\ (runs[c] # 0 => Behind(c))
  /\ ~failed => \A c \in Task : Behind(c) => \/ runs[c] = 1 \/ Has(tasks, c)
                                             \/ \E t \in Thread : tpc[t] = "run" /\ cur[t] = c

Inv == TypeOK /\ Hands /\ ActiveCounts /\ Stopped /\ Blame /\ Storing /\ Account

LEMMA InitInv == Init => Inv
<1> SUFFICES ASSUME Init PROVE Inv
  OBVIOUS
<1>1. TypeOK
  <2>1. next \in Task /\ spurious \in 0..MaxSpurious
    BY FirstTask, PoolConstants DEF Init
  <2>2. tasks \in Seq(Task) /\ runs \in [Task -> Nat]
    BY DEF Init
  <2> QED
    BY <2>1, <2>2 DEF Init, TypeOK, MainState, ThreadState
<1>2. Hands
  BY DEF Init, Hands, Busy
<1>3. ActiveCounts
  <2>1. Holders = {}
    BY DEF Init, Holders
  <2> QED
    BY <2>1, FS_EmptySet DEF Init, ActiveCounts
<1>4. Stopped /\ Blame /\ Storing
  BY DEF Init, Stopped, Blame, Storing, Drained, Raised, Loop
<1>5. Account
  BY QueueEmpty, FirstTask DEF Init, Account, Behind, Loop
<1> QED
  BY <1>1, <1>2, <1>3, <1>4, <1>5 DEF Inv

\* What the counter counts.
LEMMA HoldersFinite ==
  ASSUME TypeOK
  PROVE  /\ IsFiniteSet(Holders) /\ Cardinality(Holders) \in Nat
         /\ Cardinality(Holders) = 0 => Holders = {}
<1>1. IsFiniteSet(Holders)
  BY PoolConstants, FS_Subset DEF Holders
<1> QED
  BY <1>1, FS_CardinalityType, FS_EmptySet

\* A step that moves no task, whatever else it does.
LEMMA AccountKept ==
  ASSUME TypeOK, Account, UNCHANGED <<tasks, cur, runs>>,
         \A c \in Task : Behind(c) => Behind(c)',
         ~failed' => ~failed /\ \A c \in Task : Behind(c)' => Behind(c),
         \A t \in Thread : tpc'[t] = "run" <=> tpc[t] = "run"
  PROVE  Account'
<1>1. \A t \in Thread : cur[t] # NoTask => cur[t] \in Task
  BY DEF TypeOK
<1> QED
  BY <1>1 DEF Account

-----------------------------------------------------------------------------
(* Steps that move no task *)

\* No worker goes on, except that some may be woken from condition_producer.
Woken ==
  /\ tpc' \in [Thread -> ThreadState]
  /\ \A t \in Thread : tpc'[t] = tpc[t] \/ (tpc[t] = "waiting" /\ tpc'[t] = "fetch")

LEMMA WokenEffect ==
  ASSUME Woken
  PROVE  \A t \in Thread :
           /\ tpc'[t] \in Busy <=> tpc[t] \in Busy
           /\ tpc'[t] \in Raised <=> tpc[t] \in Raised
           /\ tpc'[t] \in Drained <=> tpc[t] \in Drained
           /\ \A s \in {"run", "excCheck", "excStore", "exited"} : tpc'[t] = s <=> tpc[t] = s
BY DEF Woken, Busy, Raised, Drained

LEMMA ReleasedWoken == ASSUME TypeOK, tpc' = Released(tpc) PROVE Woken
BY DEF TypeOK, Released, Woken, ThreadState

LEMMA NotifyOneWoken == ASSUME TypeOK, NotifyOneProducer PROVE Woken
BY DEF TypeOK, NotifyOneProducer, Waiting, Woken, ThreadState

\* Main, and what wakes others, outside of Enqueue.
LEMMA MainKept ==
  ASSUME Inv, Woken, UNCHANGED <<tasks, cur, runs>>,
         UNCHANGED <<active, leaked>> \/ (active' = active + 1 /\ leaked' = leaked + 1),
         mpc' \in MainState, next' \in Task, stop' \in BOOLEAN, failed' \in BOOLEAN,
         firstExc' \in Thread \cup {Main, NoException}, spurious' \in 0..MaxSpurious
  PROVE  TypeOK' /\ Hands' /\ ActiveCounts'
<1>1. TypeOK'
  BY DEF Inv, TypeOK, Woken
<1>2. Hands'
  BY WokenEffect DEF Inv, Hands
<1>3. Holders' = Holders /\ Cardinality(Holders) \in Nat /\ Len(tasks) \in Nat
  BY HoldersFinite DEF Inv, TypeOK, Holders
<1>4. ActiveCounts'
  BY <1>3 DEF Inv, TypeOK, ActiveCounts
<1> QED
  BY <1>1, <1>2, <1>4

\* Main takes a turn: the queue, the counter and the workers stay.
LEMMA TurnInv ==
  ASSUME Inv, Check \/ CatchCheck \/ CatchStore \/ Signal \/ WaitPredicate \/ Block \/ Join
  PROVE  Inv'
<1>0. TypeOK /\ Hands /\ ActiveCounts /\ Stopped /\ Blame /\ Storing /\ Account
  BY DEF Inv
<1>1. UNCHANGED <<tasks, active, next, tpc, cur, spurious, runs, leaked, failed>>
  BY DEF Check, CatchCheck, CatchStore, Signal, WaitPredicate, Block, Join, pool, history
<1>2. /\ mpc' \in MainState /\ stop' \in BOOLEAN /\ (stop => stop')
      /\ firstExc' \in {firstExc, Main}
  BY <1>0 DEF Check, CatchCheck, CatchStore, Signal, WaitPredicate, Block, Join, Goto, pool,
              MainState, TypeOK
<1>3. Woken
  BY <1>0, <1>1 DEF Woken, TypeOK
<1>4. TypeOK' /\ Hands' /\ ActiveCounts'
  BY <1>0, <1>1, <1>2, <1>3, MainKept DEF TypeOK
<1>5. Stopped'
  BY <1>0, <1>1, <1>2 DEF Stopped, Drained, Check, CatchCheck, CatchStore, Signal, WaitPredicate,
                          Block, Join, Goto
<1>6. firstExc' # firstExc => mpc = "catchStore" /\ firstExc' = Main /\ Main # NoException
  BY PoolConstants DEF Check, CatchCheck, CatchStore, Signal, WaitPredicate, Block, Join, pool
<1>7. Blame'
  <2>1. failed => \/ firstExc' # NoException
                  \/ mpc' \in {"catchCheck", "catchStore"}
                  \/ \E t \in Thread : tpc[t] \in {"excCheck", "excStore"}
    <3>1. CASE \/ firstExc # NoException
               \/ \E t \in Thread : tpc[t] \in {"excCheck", "excStore"}
      BY <1>6, <3>1
    <3>2. CASE mpc = "catchCheck" /\ firstExc = NoException
      BY <3>2 DEF Check, CatchCheck, CatchStore, Signal, WaitPredicate, Block, Join, Goto
    <3>3. CASE mpc = "catchStore"
      <4>1. firstExc' = Main
        BY <3>3 DEF Check, CatchCheck, CatchStore, Signal, WaitPredicate, Block, Join, Goto
      <4> QED
        BY <4>1, PoolConstants
    <3> QED
      BY <1>0, <3>1, <3>2, <3>3 DEF Blame
  <2>2. mpc' \in {"catchCheck", "catchStore", "catchNotify"} => failed
    BY <1>0 DEF Check, CatchCheck, CatchStore, Signal, WaitPredicate, Block, Join, Goto, Blame
  <2>3. stop' /\ mpc' \in Loop => failed
    BY <1>0 DEF Check, CatchCheck, CatchStore, Signal, WaitPredicate, Block, Join, Goto, Blame,
                Loop, pool
  <2>4. mpc' = "returned" => ~failed
    <3> HAVE mpc' = "returned"
    <3>1. Join /\ firstExc = NoException /\ \A t \in Thread : tpc[t] = "exited"
      BY DEF Check, CatchCheck, CatchStore, Signal, WaitPredicate, Block, Join, Goto
    <3>2. mpc = "join"
      BY <3>1 DEF Join
    <3> QED
      BY <1>0, <3>1, <3>2 DEF Blame
  <2> QED
    BY <1>0, <1>1, <2>1, <2>2, <2>3, <2>4 DEF Blame
<1>8. Storing'
  BY <1>0, <1>1, <1>2 DEF Storing
<1>9. Account'
  <2>1. ASSUME NEW c \in Task
        PROVE  /\ Behind(c) => Behind(c)'
               /\ ~failed /\ Behind(c)' => Behind(c)
    <3>1. CASE Check
      <4>1. stop => failed
        BY <1>0, <3>1 DEF Check, Blame, Loop
      <4> QED
        BY <1>1, <3>1, <4>1 DEF Check, Behind, Loop, Goto
    <3>2. CASE CatchCheck \/ CatchStore \/ Signal \/ WaitPredicate \/ Block \/ Join
      <4>1. mpc \notin Loop /\ mpc' \notin Loop
        BY <3>2 DEF CatchCheck, CatchStore, Signal, WaitPredicate, Block, Join, Loop, Goto
      <4> QED
        BY <4>1 DEF Behind
    <3> QED
      BY <3>1, <3>2
  <2> QED
    BY <1>0, <1>1, <2>1, AccountKept
<1> QED
  BY <1>4, <1>5, <1>7, <1>8, <1>9 DEF Inv

LEMMA EnqueueThrowsInv == ASSUME Inv, EnqueueThrows PROVE Inv'
<1>0. TypeOK /\ Hands /\ ActiveCounts /\ Stopped /\ Blame /\ Storing /\ Account
  BY DEF Inv
<1>1. /\ mpc = "enqueue" /\ mpc' = "catchCheck" /\ failed' = TRUE
      /\ UNCHANGED <<tasks, stop, firstExc, next, tpc, cur, spurious, runs>>
      /\ UNCHANGED <<active, leaked>> \/ (active' = active + 1 /\ leaked' = leaked + 1)
  BY DEF EnqueueThrows, Goto
<1>2. Woken
  BY <1>0, <1>1 DEF Woken, TypeOK
<1>3. TypeOK' /\ Hands' /\ ActiveCounts'
  BY <1>0, <1>1, <1>2, MainKept DEF TypeOK, MainState
<1>4. Stopped' /\ Blame' /\ Storing'
  BY <1>0, <1>1 DEF Stopped, Blame, Storing, Loop
<1>5. Account'
  BY <1>0, <1>1, AccountKept DEF Behind, Loop
<1> QED
  BY <1>3, <1>4, <1>5 DEF Inv

\* Notify, NotifyAll and spurious wakeups.
LEMMA WakeInv == ASSUME Inv, Notify \/ NotifyAll \/ SpuriousWakeup PROVE Inv'
<1>0. TypeOK /\ Hands /\ ActiveCounts /\ Stopped /\ Blame /\ Storing /\ Account
  BY DEF Inv
<1>1. /\ UNCHANGED <<tasks, active, stop, firstExc, cur, runs, leaked, failed>>
      /\ mpc' \in MainState /\ spurious' \in 0..MaxSpurious
  <2>1. UNCHANGED <<tasks, active, stop, firstExc, cur, runs, leaked, failed>> /\ mpc' \in MainState
    BY <1>0 DEF Notify, NotifyAll, SpuriousWakeup, Goto, pool, history, TypeOK, MainState
  <2>2. spurious' = spurious \/ (spurious < MaxSpurious /\ spurious' = spurious + 1)
    BY DEF Notify, NotifyAll, SpuriousWakeup, history
  <2> QED
    BY <1>0, <2>1, <2>2, PoolConstants DEF TypeOK
<1>2. Woken
  <2>1. CASE Notify
    BY <1>0, <2>1, NotifyOneWoken DEF Notify
  <2>2. CASE NotifyAll
    BY <1>0, <2>2, ReleasedWoken DEF NotifyAll
  <2>3. CASE SpuriousWakeup
    BY <1>0, <2>3 DEF SpuriousWakeup, Move, Woken, TypeOK, ThreadState
  <2> QED
    BY <2>1, <2>2, <2>3
<1>3. next' \in Task /\ \A c \in Task : Behind(c)' <=> Behind(c)
  <2>1. CASE Notify /\ Movable(next) # {}
    <3>1. mpc = "notify" /\ mpc' = "check" /\ next' = Increment(next)
      BY <2>1 DEF Notify, Goto
    <3>2. next' \in Task /\ \A d \in Task : Before(d, next') <=> Before(d, next) \/ d = next
      BY <1>0, <2>1, <3>1, NextTask DEF TypeOK
    <3> QED
      BY <3>1, <3>2 DEF Behind, Loop
  <2>2. CASE Notify /\ Movable(next) = {}
    <3>1. mpc = "notify" /\ mpc' = "signal" /\ next' = fMinBounds
      BY <2>2 DEF Notify, Goto
    <3>2. \A d \in Task : Before(d, next) \/ d = next
      BY <1>0, <2>2, LastTask DEF TypeOK
    <3> QED
      BY <3>1, <3>2, FirstTask DEF Behind, Loop
  <2>3. CASE NotifyAll \/ SpuriousWakeup
    <3>1. /\ UNCHANGED next
          /\ UNCHANGED mpc \/ (mpc \notin Loop /\ mpc' \notin Loop)
      BY <2>3 DEF NotifyAll, SpuriousWakeup, Goto, Loop
    <3> QED
      BY <1>0, <3>1 DEF Behind, TypeOK
  <2> QED
    BY <2>1, <2>2, <2>3
<1>4. TypeOK' /\ Hands' /\ ActiveCounts'
  BY <1>0, <1>1, <1>2, <1>3, MainKept DEF TypeOK
<1>5. /\ mpc' \notin {"catchCheck", "catchStore", "catchNotify", "join", "returned", "thrown"} \/ UNCHANGED mpc
      /\ mpc \notin {"catchCheck", "catchStore"} \/ UNCHANGED mpc
      /\ mpc' \in Loop => mpc \in Loop
  BY DEF Notify, NotifyAll, SpuriousWakeup, Goto, Loop
<1>6. Stopped'
  BY <1>0, <1>1, <1>2, <1>5, WokenEffect DEF Stopped
<1>7. Blame'
  BY <1>0, <1>1, <1>2, <1>5, WokenEffect DEF Blame
<1>8. Storing'
  BY <1>0, <1>1, <1>2, WokenEffect DEF Storing
<1>9. Account'
  BY <1>0, <1>1, <1>2, <1>3, WokenEffect, AccountKept
<1> QED
  BY <1>4, <1>6, <1>7, <1>8, <1>9 DEF Inv

-----------------------------------------------------------------------------
(* Steps that move a task *)

LEMMA EnqueueInv == ASSUME Inv, Enqueue PROVE Inv'
<1>0. TypeOK /\ Hands /\ ActiveCounts /\ Stopped /\ Blame /\ Storing /\ Account
  BY DEF Inv
<1>1. mpc = "enqueue" /\ UNCHANGED <<stop, firstExc, next, tpc, cur, spurious, runs, leaked, failed>>
  BY DEF Enqueue, history
<1>2. CASE stop
  <2>1. mpc' = "signal" /\ UNCHANGED <<tasks, active>>
    BY <1>2 DEF Enqueue, Goto
  <2>2. Woken
    BY <1>0, <1>1 DEF Woken, TypeOK
  <2>3. failed
    BY <1>0, <1>1, <1>2 DEF Blame, Loop
  <2>4. TypeOK' /\ Hands' /\ ActiveCounts'
    BY <1>0, <1>1, <2>1, <2>2, MainKept DEF TypeOK, MainState
  <2>5. Stopped' /\ Blame' /\ Storing'
    BY <1>0, <1>1, <2>1 DEF Stopped, Blame, Storing, Loop
  <2>6. Account'
    BY <1>0, <1>1, <2>1, <2>3, AccountKept DEF Behind, Loop
  <2> QED
    BY <2>4, <2>5, <2>6 DEF Inv
<1>3. CASE ~stop
  <2>1. mpc' = "notify" /\ active' = active + 1 /\ tasks' = Append(tasks, next)
    BY <1>3 DEF Enqueue, Goto
  <2>2. tasks \in Seq(Task) /\ next \in Task
    BY <1>0 DEF TypeOK
  <2>3. /\ tasks' \in Seq(Task) /\ Len(tasks') = Len(tasks) + 1 /\ Len(tasks) \in Nat
        /\ \A x : Has(tasks', x) <=> x = next \/ Has(tasks, x)
        /\ Once(tasks) /\ ~Has(tasks, next) => Once(tasks')
    BY <2>1, <2>2, QueueAppend
  <2>4. TypeOK'
    BY <1>0, <1>1, <2>1, <2>3 DEF TypeOK, MainState
  <2>5. Hands'
    BY <1>0, <1>1 DEF Hands
  <2>6. ActiveCounts'
    <3>1. Holders' = Holders /\ Cardinality(Holders) \in Nat
      BY <1>0, <1>1, HoldersFinite DEF Holders
    <3> QED
      BY <1>0, <1>1, <2>1, <2>3, <3>1 DEF ActiveCounts, TypeOK
  <2>7. Stopped'
    BY <1>0, <1>1, <1>3, <2>1 DEF Stopped
  <2>8. Blame' /\ Storing'
    BY <1>0, <1>1, <2>1 DEF Blame, Storing, Loop
  <2>9. Account'
    <3>1. \A c \in Task : Behind(c)' <=> Behind(c) \/ c = next
      BY <1>1, <2>1 DEF Behind, Loop
    <3>2. ~Behind(next)
      BY <1>1, <2>2, BeforeAsymmetric DEF Behind, Loop
    <3>3. ~Has(tasks, next) /\ runs[next] = 0 /\ \A t \in Thread : cur[t] # next
      <4>1. next # NoTask
        BY <2>2, PoolConstants
      <4> QED
        BY <1>0, <2>2, <3>2, <4>1 DEF Account
    <3>4. \A t \in Thread : cur[t] # NoTask => cur[t] \in Task
      BY <1>0 DEF TypeOK
    <3> QED
      BY <1>0, <1>1, <2>3, <3>1, <3>3, <3>4 DEF Account
  <2> QED
    BY <2>4, <2>5, <2>6, <2>7, <2>8, <2>9 DEF Inv
<1> QED
  BY <1>2, <1>3

\* A worker moves on.
LEMMA MoveEffect ==
  ASSUME TypeOK, NEW t \in Thread, NEW from, NEW to \in ThreadState, Move(t, from, to)
  PROVE  /\ tpc[t] = from /\ tpc'[t] = to /\ \A u \in Thread \ {t} : tpc'[u] = tpc[u]
         /\ tpc' \in [Thread -> ThreadState]
BY DEF Move, TypeOK

LEMMA FetchInv == ASSUME Inv, NEW t \in Thread, Fetch(t) PROVE Inv'
<1>0. TypeOK /\ Hands /\ ActiveCounts /\ Stopped /\ Blame /\ Storing /\ Account
  BY DEF Inv
<1>1. UNCHANGED <<active, stop, firstExc, mpc, next, spurious, runs, leaked, failed>>
  BY DEF Fetch, history
<1>2. CASE tasks = << >> /\ Move(t, "fetch", IF stop THEN "exited" ELSE "waiting") /\ UNCHANGED <<tasks, cur>>
  <2>1. /\ tpc[t] = "fetch" /\ tpc'[t] = (IF stop THEN "exited" ELSE "waiting")
        /\ \A u \in Thread \ {t} : tpc'[u] = tpc[u]
        /\ tpc' \in [Thread -> ThreadState]
    BY <1>0, <1>2, MoveEffect DEF ThreadState
  <2>2. TypeOK'
    BY <1>0, <1>1, <1>2, <2>1 DEF TypeOK
  <2>3. Hands'
    BY <1>0, <1>2, <2>1 DEF Hands, Busy
  <2>4. ActiveCounts'
    BY <1>0, <1>1, <1>2 DEF ActiveCounts, Holders
  <2>5. Stopped'
    BY <1>0, <1>1, <1>2, <2>1 DEF Stopped, Drained
  <2>6. Blame'
    <3>1. (\E u \in Thread : tpc[u] \in {"excCheck", "excStore"})
            => \E u \in Thread : tpc'[u] \in {"excCheck", "excStore"}
      BY <2>1
    <3>2. \A u \in Thread : tpc'[u] \in Raised => tpc[u] \in Raised
      BY <2>1 DEF Raised
    <3> QED
      BY <1>0, <1>1, <3>1, <3>2 DEF Blame
  <2>7. Storing'
    BY <1>0, <1>1, <2>1 DEF Storing
  <2>8. Account'
    BY <1>0, <1>1, <1>2, <2>1, AccountKept DEF Behind
  <2> QED
    BY <2>2, <2>3, <2>4, <2>5, <2>6, <2>7, <2>8 DEF Inv
<1>3. CASE /\ tasks # << >> /\ Move(t, "fetch", "run")
           /\ cur' = [cur EXCEPT ![t] = Head(tasks)] /\ tasks' = Tail(tasks)
  <2> DEFINE k == Head(tasks)
  <2>1. /\ tpc[t] = "fetch" /\ tpc'[t] = "run" /\ \A u \in Thread \ {t} : tpc'[u] = tpc[u]
        /\ tpc' \in [Thread -> ThreadState]
    BY <1>0, <1>3, MoveEffect DEF ThreadState
  <2>2. tasks \in Seq(Task)
    BY <1>0 DEF TypeOK
  <2>3. /\ k \in Task /\ tasks' \in Seq(Task) /\ Has(tasks, k)
        /\ \A x : Has(tasks, x) <=> x = k \/ Has(tasks', x)
        /\ Once(tasks) => Once(tasks') /\ ~Has(tasks', k)
    BY <1>3, <2>2, QueueTail
  <2>4. Len(tasks') = Len(tasks) - 1 /\ Len(tasks) \in Nat
    BY <1>3, <2>2
  <2>5. /\ cur' \in [Thread -> Task \cup {NoTask}]
        /\ cur'[t] = k /\ \A u \in Thread \ {t} : cur'[u] = cur[u]
    BY <1>0, <1>3, <2>3 DEF TypeOK
  <2>6. cur[t] = NoTask /\ k # NoTask
    BY <1>0, <2>1, <2>3, PoolConstants DEF Hands, Busy
  <2> HIDE DEF k
  <2>7. TypeOK'
    BY <1>0, <1>1, <2>1, <2>3, <2>5 DEF TypeOK
  <2>8. Hands'
    BY <1>0, <2>1, <2>5, <2>6 DEF Hands, Busy
  <2>9. ActiveCounts'
    <3>1. Holders' = Holders \cup {t} /\ t \notin Holders
      BY <2>5, <2>6 DEF Holders
    <3>2. Cardinality(Holders') = Cardinality(Holders) + 1 /\ Cardinality(Holders) \in Nat
      BY <1>0, <3>1, HoldersFinite, FS_AddElement
    <3> QED
      BY <1>0, <1>1, <2>4, <3>2 DEF ActiveCounts, TypeOK
  <2>10. Stopped'
    BY <1>0, <1>1, <1>3, <2>1 DEF Stopped, Drained
  <2>11. Blame'
    <3>1. (\E u \in Thread : tpc[u] \in {"excCheck", "excStore"})
            => \E u \in Thread : tpc'[u] \in {"excCheck", "excStore"}
      BY <2>1
    <3>2. \A u \in Thread : tpc'[u] \in Raised => tpc[u] \in Raised
      BY <2>1 DEF Raised
    <3> QED
      BY <1>0, <1>1, <3>1, <3>2 DEF Blame
  <2>12. Storing'
    BY <1>0, <1>1, <2>1 DEF Storing
  <2>13. Account'
    <3>1. \A c : Behind(c)' <=> Behind(c)
      BY <1>1 DEF Behind
    <3>2. Behind(k) /\ runs[k] = 0 /\ \A u \in Thread : cur[u] # k
      BY <1>0, <2>3 DEF Account
    <3>3. \A c \in Task : Has(tasks', c) => c # k /\ Has(tasks, c)
      BY <1>0, <2>3 DEF Account
    <3>4. \A u \in Thread : tpc'[u] = "run" => runs'[cur'[u]] = 0
      BY <1>0, <1>1, <2>1, <2>5, <3>2 DEF Account
    <3>5. \A u \in Thread : (cur[u] # NoTask => /\ Behind(cur[u])
                                                /\ \A v \in Thread \ {u} : cur[v] # cur[u])'
      <4> TAKE u \in Thread
      <4>1. CASE u = t
        BY <1>1, <2>5, <3>2, <4>1 DEF Behind
      <4>2. CASE u # t
        BY <1>0, <1>1, <2>5, <3>2, <4>2 DEF Account, Behind
      <4> QED
        BY <4>1, <4>2
    <3>6. ~failed' => \A c \in Task : Behind(c)' => runs'[c] = 1 \/ Has(tasks', c)
                        \/ \E u \in Thread : tpc'[u] = "run" /\ cur'[u] = c
      BY <1>0, <1>1, <2>1, <2>3, <2>5, <3>1 DEF Account
    <3> QED
      BY <1>0, <1>1, <2>3, <2>5, <3>1, <3>3, <3>4, <3>5, <3>6 DEF Account
  <2> QED
    BY <2>7, <2>8, <2>9, <2>10, <2>11, <2>12, <2>13 DEF Inv
<1> QED
  BY <1>2, <1>3 DEF Fetch

\* The task was executed, and returned or threw.
LEMMA RunInv == ASSUME Inv, NEW t \in Thread, Run(t) \/ RunThrows(t) PROVE Inv'
<1>0. TypeOK /\ Hands /\ ActiveCounts /\ Stopped /\ Blame /\ Storing /\ Account
  BY DEF Inv
<1>1. /\ UNCHANGED <<tasks, active, stop, firstExc, mpc, next, cur, spurious, leaked>>
      /\ runs' = [runs EXCEPT ![cur[t]] = runs[cur[t]] + 1]
      /\ \/ Move(t, "run", "dec") /\ UNCHANGED failed
         \/ Move(t, "run", "excCheck") /\ failed' = TRUE
  BY DEF Run, RunThrows, pool
<1>2. /\ tpc[t] = "run" /\ \A u \in Thread \ {t} : tpc'[u] = tpc[u]
      /\ tpc' \in [Thread -> ThreadState]
      /\ \/ tpc'[t] = "dec" /\ UNCHANGED failed
         \/ tpc'[t] = "excCheck" /\ failed' = TRUE
  BY <1>0, <1>1, MoveEffect DEF ThreadState
<1>3. cur[t] \in Task
  BY <1>0, <1>2 DEF Hands, Busy, TypeOK
<1>4. /\ runs' \in [Task -> Nat] /\ runs'[cur[t]] = runs[cur[t]] + 1 /\ runs[cur[t]] = 0
      /\ \A c \in Task \ {cur[t]} : runs'[c] = runs[c]
  BY <1>0, <1>1, <1>2, <1>3 DEF TypeOK, Account
<1>5. TypeOK'
  BY <1>0, <1>1, <1>2, <1>4 DEF TypeOK
<1>6. Hands'
  BY <1>0, <1>1, <1>2 DEF Hands, Busy
<1>7. ActiveCounts'
  BY <1>0, <1>1 DEF ActiveCounts, Holders
<1>8. Stopped'
  BY <1>0, <1>1, <1>2 DEF Stopped, Drained
<1>9. Storing'
  BY <1>0, <1>1, <1>2 DEF Storing
<1>10. Blame'
  <2>0. mpc # "returned"
    <3>1. ASSUME mpc = "returned" PROVE FALSE
      <4>1. active = 0 /\ t \in Holders /\ Cardinality(Holders) \in Nat
        BY <1>0, <1>3, <3>1, HoldersFinite, PoolConstants DEF Stopped, Holders
      <4>2. Cardinality(Holders) = 0
        BY <1>0, <4>1 DEF ActiveCounts, TypeOK
      <4> QED
        BY <1>0, <4>1, <4>2, HoldersFinite
    <3> QED
      BY <3>1
  <2>1. (\E u \in Thread : tpc[u] \in {"excCheck", "excStore"})
            => \E u \in Thread : tpc'[u] \in {"excCheck", "excStore"}
    BY <1>2
  <2>2. \A u \in Thread : tpc'[u] \in Raised => failed'
    BY <1>0, <1>2 DEF Blame, Raised
  <2> QED
    BY <1>0, <1>1, <1>2, <2>0, <2>1, <2>2 DEF Blame
<1>11. Account'
  <2>1. \A c : Behind(c)' <=> Behind(c)
    BY <1>1 DEF Behind
  <2>2. /\ Behind(cur[t]) /\ ~Has(tasks, cur[t])
        /\ \A u \in Thread \ {t} : cur[u] # cur[t]
    BY <1>0, <1>3, PoolConstants DEF Account
  <2>3. \A u \in Thread : tpc'[u] = "run" => runs'[cur'[u]] = 0
    <3> SUFFICES ASSUME NEW u \in Thread, tpc'[u] = "run" PROVE runs'[cur'[u]] = 0
      OBVIOUS
    <3>1. u # t /\ tpc[u] = "run" /\ cur'[u] = cur[u]
      BY <1>1, <1>2
    <3>2. cur[u] \in Task
      BY <1>0, <3>1 DEF Hands, Busy, TypeOK
    <3> QED
      BY <1>0, <1>4, <2>2, <3>1, <3>2 DEF Account
  <2>4. \A c \in Task : Has(tasks', c) => /\ Behind(c)' /\ runs'[c] = 0
                                          /\ \A u \in Thread : cur'[u] # c
    BY <1>0, <1>1, <1>4, <2>1, <2>2 DEF Account
  <2>5. \A c \in Task : runs'[c] <= 1 /\ (runs'[c] # 0 => Behind(c)')
    BY <1>0, <1>4, <2>1, <2>2 DEF Account
  <2>6. \A u \in Thread : (cur[u] # NoTask => /\ Behind(cur[u])
                                              /\ \A v \in Thread \ {u} : cur[v] # cur[u])'
    BY <1>0, <1>1 DEF Account, Behind
  <2>7. ~failed' => \A c \in Task : Behind(c)' => runs'[c] = 1 \/ Has(tasks', c)
                      \/ \E u \in Thread : tpc'[u] = "run" /\ cur'[u] = c
    BY <1>0, <1>1, <1>2, <1>4, <2>1 DEF Account
  <2> QED
    BY <1>0, <1>1, <2>3, <2>4, <2>5, <2>6, <2>7 DEF Account
<1> QED
  BY <1>5, <1>6, <1>7, <1>8, <1>9, <1>10, <1>11 DEF Inv

\* A task in hand keeps the counter above zero, so it does not wrap.
LEMMA HolderCounts ==
  ASSUME TypeOK, ActiveCounts, NEW t \in Holders
  PROVE  /\ active >= 1 + Len(tasks) + leaked
         /\ Cardinality(Holders \ {t}) = Cardinality(Holders) - 1
         /\ Len(tasks) \in Nat /\ Cardinality(Holders) \in Nat
<1>1. Cardinality(Holders) \in Nat /\ Cardinality(Holders) # 0
  BY HoldersFinite
<1>2. Cardinality(Holders \ {t}) = Cardinality(Holders) - 1
  BY HoldersFinite, FS_RemoveElement
<1> QED
  BY <1>1, <1>2 DEF ActiveCounts, TypeOK

LEMMA DecInv == ASSUME Inv, NEW t \in Thread, Dec(t) PROVE Inv'
<1>0. TypeOK /\ Hands /\ ActiveCounts /\ Stopped /\ Blame /\ Storing /\ Account
  BY DEF Inv
<1>1. /\ UNCHANGED <<tasks, stop, firstExc, mpc, next, spurious, runs, leaked, failed>>
      /\ active' = active - 1 /\ cur' = [cur EXCEPT ![t] = NoTask]
  BY DEF Dec, history
<1>2. /\ \A u \in Thread \ {t} : tpc'[u] = tpc[u]
      /\ tpc' \in [Thread -> ThreadState]
      /\ \/ tpc[t] = "dec" /\ tpc'[t] \in {"lastDone", "fetch"}
         \/ tpc[t] = "decExc" /\ tpc'[t] \in {"lastExc", "exited"}
  <2>1. CASE Move(t, "dec", IF active = 1 THEN "lastDone" ELSE "fetch")
    BY <1>0, <2>1, MoveEffect DEF ThreadState
  <2>2. CASE Move(t, "decExc", IF active = 1 THEN "lastExc" ELSE "exited")
    BY <1>0, <2>2, MoveEffect DEF ThreadState
  <2> QED
    BY <2>1, <2>2 DEF Dec
<1>3. t \in Holders
  BY <1>0, <1>2 DEF Hands, Busy, Holders
<1>4. /\ cur' \in [Thread -> Task \cup {NoTask}]
      /\ cur'[t] = NoTask /\ \A u \in Thread \ {t} : cur'[u] = cur[u]
  BY <1>0, <1>1 DEF TypeOK
<1>5. /\ active >= 1 + Len(tasks) + leaked
      /\ Cardinality(Holders \ {t}) = Cardinality(Holders) - 1
      /\ Len(tasks) \in Nat /\ Cardinality(Holders) \in Nat
  BY <1>0, <1>3, HolderCounts
<1>6. TypeOK'
  BY <1>0, <1>1, <1>2, <1>4, <1>5 DEF TypeOK
<1>7. Hands'
  BY <1>0, <1>2, <1>4 DEF Hands, Busy
<1>8. ActiveCounts'
  <2>1. Holders' = Holders \ {t}
    BY <1>4 DEF Holders
  <2> QED
    BY <1>0, <1>1, <1>5, <2>1 DEF ActiveCounts, TypeOK
<1>9. Stopped'
  <2>1. mpc \notin {"join", "returned", "thrown"}
    BY <1>0, <1>5 DEF Stopped, TypeOK
  <2>2. \A u \in Thread : tpc'[u] \in Drained => tpc[u] \in Drained
    BY <1>2 DEF Drained
  <2> QED
    BY <1>0, <1>1, <2>1, <2>2 DEF Stopped
<1>10. Storing'
  BY <1>0, <1>1, <1>2 DEF Storing
<1>11. Blame'
  <2>1. (\E u \in Thread : tpc[u] \in {"excCheck", "excStore"})
            => \E u \in Thread : tpc'[u] \in {"excCheck", "excStore"}
    BY <1>2
  <2>2. \A u \in Thread : tpc'[u] \in Raised => tpc[u] \in Raised
    BY <1>2 DEF Raised
  <2> QED
    BY <1>0, <1>1, <2>1, <2>2 DEF Blame
<1>12. Account'
  <2>1. \A c : Behind(c)' <=> Behind(c)
    BY <1>1 DEF Behind
  <2>2. \A u \in Thread : tpc'[u] = "run" <=> tpc[u] = "run" /\ u # t
    BY <1>2
  <2>3. \A c \in Task : Has(tasks', c) => /\ Behind(c)' /\ runs'[c] = 0
                                          /\ \A u \in Thread : cur'[u] # c
    BY <1>0, <1>1, <1>4, <2>1, PoolConstants DEF Account
  <2>4. \A u \in Thread : (cur[u] # NoTask => /\ Behind(cur[u])
                                              /\ \A v \in Thread \ {u} : cur[v] # cur[u])'
    <3> SUFFICES ASSUME NEW u \in Thread, cur'[u] # NoTask
                 PROVE  Behind(cur[u])' /\ \A v \in Thread \ {u} : cur'[v] # cur'[u]
      OBVIOUS
    <3>1. u # t /\ cur'[u] = cur[u] /\ cur[u] # NoTask
      BY <1>4
    <3>2. Behind(cur[u]) /\ \A v \in Thread \ {u} : cur[v] # cur[u]
      BY <1>0, <3>1 DEF Account
    <3> QED
      BY <1>1, <1>4, <3>1, <3>2 DEF Behind
  <2>5. ~failed' => \A c \in Task : Behind(c)' => runs'[c] = 1 \/ Has(tasks', c)
                      \/ \E u \in Thread : tpc'[u] = "run" /\ cur'[u] = c
    <3>1. tpc[t] # "run"
      BY <1>2
    <3> QED
      BY <1>0, <1>1, <1>4, <2>1, <2>2, <3>1 DEF Account
  <2>6. \A u \in Thread : tpc'[u] = "run" => runs'[cur'[u]] = 0
    BY <1>0, <1>1, <1>4, <2>2 DEF Account
  <2> QED
    BY <1>0, <1>1, <2>1, <2>3, <2>4, <2>5, <2>6 DEF Account
<1> QED
  BY <1>6, <1>7, <1>8, <1>9, <1>10, <1>11, <1>12 DEF Inv

\* A worker goes on with, or without, the task it has in hand.
LEMMA WorkerKept ==
  ASSUME Inv, NEW t \in Thread, tpc' \in [Thread -> ThreadState],
         UNCHANGED <<tasks, active, stop, next, cur, spurious, runs, leaked, failed>>,
         mpc' = mpc \/ (mpc = "asleep" /\ mpc' = "wait"),
         firstExc' \in Thread \cup {Main, NoException},
         \A u \in Thread \ {t} : tpc'[u] = tpc[u] \/ (tpc[u] = "waiting" /\ tpc'[u] = "fetch"),
         tpc'[t] \in Busy <=> tpc[t] \in Busy, tpc[t] # "run", tpc'[t] # "run"
  PROVE  TypeOK' /\ Hands' /\ ActiveCounts' /\ Account'
<1>0. TypeOK /\ Hands /\ ActiveCounts /\ Stopped /\ Blame /\ Storing /\ Account
  BY DEF Inv
<1>1. TypeOK'
  BY <1>0 DEF TypeOK, MainState
<1>2. Hands'
  <2>1. \A u \in Thread : tpc'[u] \in Busy <=> tpc[u] \in Busy
    BY DEF Busy
  <2> QED
    BY <1>0, <2>1 DEF Hands
<1>3. ActiveCounts'
  BY <1>0 DEF ActiveCounts, Holders
<1>4. Account'
  <2>1. \A c \in Task : Behind(c)' <=> Behind(c)
    BY DEF Behind, Loop
  <2>2. \A u \in Thread : tpc'[u] = "run" <=> tpc[u] = "run"
    OBVIOUS
  <2> QED
    BY <1>0, <2>1, <2>2, AccountKept
<1> QED
  BY <1>1, <1>2, <1>3, <1>4

LEMMA LastInv ==
  ASSUME Inv, NEW t \in Thread, Last(t) \/ ExcNotifyConsumer(t)
  PROVE  Inv'
<1>0. TypeOK /\ Hands /\ ActiveCounts /\ Stopped /\ Blame /\ Storing /\ Account
  BY DEF Inv
<1>1. /\ UNCHANGED <<tasks, active, stop, firstExc, next, cur, spurious, runs, leaked, failed>>
      /\ mpc' = mpc \/ (mpc = "asleep" /\ mpc' = "wait")
  BY DEF Last, ExcNotifyConsumer, NotifyConsumer, pool, history
<1>2. /\ \A u \in Thread \ {t} : tpc'[u] = tpc[u]
      /\ tpc' \in [Thread -> ThreadState]
      /\ \/ tpc[t] = "lastDone" /\ tpc'[t] = "fetch"
         \/ tpc[t] = "lastExc" /\ tpc'[t] = "exited"
         \/ tpc[t] = "notifyConsumer" /\ tpc'[t] = "decExc"
  BY <1>0, MoveEffect DEF Last, ExcNotifyConsumer, ThreadState
<1>3. TypeOK' /\ Hands' /\ ActiveCounts' /\ Account'
  <2>1. (tpc'[t] \in Busy <=> tpc[t] \in Busy) /\ tpc[t] # "run" /\ tpc'[t] # "run"
    BY <1>2 DEF Busy
  <2>2. firstExc' \in Thread \cup {Main, NoException}
    BY <1>0, <1>1 DEF TypeOK
  <2> QED
    BY <1>1, <1>2, <2>1, <2>2, WorkerKept
<1>4. Stopped'
  <2>1. \A u \in Thread : tpc'[u] \in Drained => tpc[u] \in Drained
    BY <1>2 DEF Drained
  <2> QED
    BY <1>0, <1>1, <2>1 DEF Stopped
<1>5. Storing'
  BY <1>0, <1>1, <1>2 DEF Storing
<1>6. Blame'
  <2>1. (\E u \in Thread : tpc[u] \in {"excCheck", "excStore"})
            => \E u \in Thread : tpc'[u] \in {"excCheck", "excStore"}
    BY <1>2
  <2>2. \A u \in Thread : tpc'[u] \in Raised => tpc[u] \in Raised
    BY <1>2 DEF Raised
  <2> QED
    BY <1>0, <1>1, <2>1, <2>2 DEF Blame, Loop
<1> QED
  BY <1>3, <1>4, <1>5, <1>6 DEF Inv

LEMMA ExcCheckInv == ASSUME Inv, NEW t \in Thread, ExcCheck(t) PROVE Inv'
<1>0. TypeOK /\ Hands /\ ActiveCounts /\ Stopped /\ Blame /\ Storing /\ Account
  BY DEF Inv
<1>1. /\ UNCHANGED <<tasks, active, stop, firstExc, mpc, next, cur, spurious, runs, leaked, failed>>
      /\ ExceptionMutexFree
  BY DEF ExcCheck, pool, history
<1>2. /\ \A u \in Thread \ {t} : tpc'[u] = tpc[u]
      /\ tpc' \in [Thread -> ThreadState]
      /\ tpc[t] = "excCheck" /\ tpc'[t] = IF firstExc = NoException THEN "excStore" ELSE "drain"
  BY <1>0, MoveEffect DEF ExcCheck, ThreadState
<1>3. TypeOK' /\ Hands' /\ ActiveCounts' /\ Account'
  <2>1. (tpc'[t] \in Busy <=> tpc[t] \in Busy) /\ tpc[t] # "run" /\ tpc'[t] # "run"
    BY <1>2 DEF Busy
  <2>2. firstExc' \in Thread \cup {Main, NoException}
    BY <1>0, <1>1 DEF TypeOK
  <2> QED
    BY <1>1, <1>2, <2>1, <2>2, WorkerKept
<1>4. Stopped'
  <2>1. \A u \in Thread : tpc'[u] \in Drained => tpc[u] \in Drained
    BY <1>2 DEF Drained
  <2> QED
    BY <1>0, <1>1, <2>1 DEF Stopped
<1>5. Storing'
  BY <1>0, <1>1, <1>2 DEF Storing, ExceptionMutexFree
<1>6. Blame'
  <2>1. firstExc # NoException \/ tpc'[t] = "excStore"
    BY <1>2
  <2>2. \A u \in Thread : tpc'[u] \in Raised => failed
    BY <1>0, <1>2 DEF Raised, Blame
  <2> QED
    BY <1>0, <1>1, <2>1, <2>2 DEF Blame
<1> QED
  BY <1>3, <1>4, <1>5, <1>6 DEF Inv

LEMMA ExcStoreInv == ASSUME Inv, NEW t \in Thread, ExcStore(t) PROVE Inv'
<1>0. TypeOK /\ Hands /\ ActiveCounts /\ Stopped /\ Blame /\ Storing /\ Account
  BY DEF Inv
<1>1. UNCHANGED <<tasks, active, stop, mpc, next, cur, spurious, runs, leaked, failed>> /\ firstExc' = t
  BY DEF ExcStore, history
<1>2. /\ \A u \in Thread \ {t} : tpc'[u] = tpc[u]
      /\ tpc' \in [Thread -> ThreadState]
      /\ tpc[t] = "excStore" /\ tpc'[t] = "drain"
  BY <1>0, MoveEffect DEF ExcStore, ThreadState
<1>3. TypeOK' /\ Hands' /\ ActiveCounts' /\ Account'
  <2>1. (tpc'[t] \in Busy <=> tpc[t] \in Busy) /\ tpc[t] # "run" /\ tpc'[t] # "run"
    BY <1>2 DEF Busy
  <2> QED
    BY <1>1, <1>2, <2>1, WorkerKept
<1>4. Stopped'
  <2>1. \A u \in Thread : tpc'[u] \in Drained => tpc[u] \in Drained
    BY <1>2 DEF Drained
  <2> QED
    BY <1>0, <1>1, <2>1 DEF Stopped
<1>5. Storing'
  BY <1>0, <1>1, <1>2 DEF Storing
<1>6. Blame'
  <2>1. firstExc' # NoException
    BY <1>1, PoolConstants
  <2>2. \A u \in Thread : tpc'[u] \in Raised => failed
    BY <1>0, <1>2 DEF Raised, Blame
  <2> QED
    BY <1>0, <1>1, <2>1, <2>2 DEF Blame
<1> QED
  BY <1>3, <1>4, <1>5, <1>6 DEF Inv

LEMMA DrainInv == ASSUME Inv, NEW t \in Thread, Drain(t) PROVE Inv'
<1>0. TypeOK /\ Hands /\ ActiveCounts /\ Stopped /\ Blame /\ Storing /\ Account
  BY DEF Inv
<1>1. /\ UNCHANGED <<firstExc, mpc, next, cur, spurious, runs, leaked, failed>>
      /\ stop' = TRUE /\ active' = active - Len(tasks) /\ tasks' = << >>
  BY DEF Drain, history
<1>2. /\ \A u \in Thread \ {t} : tpc'[u] = tpc[u]
      /\ tpc' \in [Thread -> ThreadState]
      /\ tpc[t] = "drain" /\ tpc'[t] = "notifyProducer"
  BY <1>0, MoveEffect DEF Drain, ThreadState
<1>3. t \in Holders
  BY <1>0, <1>2 DEF Hands, Busy, Holders
<1>4. /\ active >= 1 + Len(tasks) + leaked /\ Len(tasks) \in Nat /\ Cardinality(Holders) \in Nat
      /\ Len(tasks') = 0
  BY <1>0, <1>1, <1>3, HolderCounts
<1>5. TypeOK'
  <2>1. active' \in Nat
    BY <1>0, <1>1, <1>4 DEF TypeOK
  <2> QED
    BY <1>0, <1>1, <1>2, <2>1 DEF TypeOK
<1>6. Hands'
  BY <1>0, <1>1, <1>2 DEF Hands, Busy
<1>7. ActiveCounts'
  <2>1. Holders' = Holders
    BY <1>1 DEF Holders
  <2> QED
    BY <1>0, <1>1, <1>4, <2>1 DEF ActiveCounts, TypeOK
<1>8. failed
  BY <1>0, <1>2 DEF Blame, Raised
<1>9. Stopped'
  <2>1. mpc \notin {"join", "returned", "thrown"}
    BY <1>0, <1>4 DEF Stopped, TypeOK
  <2> QED
    BY <1>1, <2>1 DEF Stopped
<1>10. Storing'
  BY <1>0, <1>1, <1>2 DEF Storing
<1>11. Blame'
  <2>1. (\E u \in Thread : tpc[u] \in {"excCheck", "excStore"})
            => \E u \in Thread : tpc'[u] \in {"excCheck", "excStore"}
    BY <1>2
  <2> QED
    BY <1>0, <1>1, <1>8, <2>1 DEF Blame
<1>12. Account'
  <2>1. \A c : Behind(c)' <=> Behind(c)
    BY <1>1 DEF Behind
  <2>2. Once(tasks') /\ \A c : ~Has(tasks', c)
    BY <1>1, QueueEmpty
  <2>3. \A u \in Thread : (cur[u] # NoTask => /\ Behind(cur[u])
                                              /\ \A v \in Thread \ {u} : cur[v] # cur[u])'
    BY <1>0, <1>1 DEF Account, Behind
  <2> QED
    BY <1>0, <1>1, <1>2, <1>8, <2>1, <2>2, <2>3 DEF Account
<1> QED
  BY <1>5, <1>6, <1>7, <1>9, <1>10, <1>11, <1>12 DEF Inv

LEMMA ExcNotifyProducerInv == ASSUME Inv, NEW t \in Thread, ExcNotifyProducer(t) PROVE Inv'
<1>0. TypeOK /\ Hands /\ ActiveCounts /\ Stopped /\ Blame /\ Storing /\ Account
  BY DEF Inv
<1>1. UNCHANGED <<tasks, active, stop, firstExc, mpc, next, cur, spurious, runs, leaked, failed>>
  BY DEF ExcNotifyProducer, pool, history
<1>2. /\ \A u \in Thread \ {t} : tpc'[u] = tpc[u] \/ (tpc[u] = "waiting" /\ tpc'[u] = "fetch")
      /\ tpc' \in [Thread -> ThreadState]
      /\ tpc[t] = "notifyProducer" /\ tpc'[t] = "notifyConsumer"
  BY <1>0 DEF ExcNotifyProducer, Released, ThreadState, TypeOK
<1>3. TypeOK' /\ Hands' /\ ActiveCounts' /\ Account'
  <2>1. (tpc'[t] \in Busy <=> tpc[t] \in Busy) /\ tpc[t] # "run" /\ tpc'[t] # "run"
    BY <1>2 DEF Busy
  <2>2. firstExc' \in Thread \cup {Main, NoException}
    BY <1>0, <1>1 DEF TypeOK
  <2> QED
    BY <1>1, <1>2, <2>1, <2>2, WorkerKept
<1>4. \A u \in Thread : /\ tpc'[u] \in Drained => tpc[u] \in Drained
                        /\ tpc'[u] \in Raised => tpc[u] \in Raised
                        /\ tpc[u] \in {"excCheck", "excStore"} => tpc'[u] \in {"excCheck", "excStore"}
                        /\ tpc'[u] = "excStore" => tpc[u] = "excStore"
  BY <1>2 DEF Drained, Raised
<1>5. Stopped'
  BY <1>0, <1>1, <1>4 DEF Stopped
<1>6. Storing'
  BY <1>0, <1>1, <1>4 DEF Storing
<1>7. Blame'
  BY <1>0, <1>1, <1>4 DEF Blame
<1> QED
  BY <1>3, <1>5, <1>6, <1>7 DEF Inv

-----------------------------------------------------------------------------
(* Theorems *)

LEMMA NextInv == Inv /\ [Next]_vars => Inv'
<1> SUFFICES ASSUME Inv, [Next]_vars PROVE Inv'
  OBVIOUS
<1>1. CASE UNCHANGED vars
  <2>1. UNCHANGED <<tasks, active, stop, firstExc, mpc, next, tpc, cur, spurious, runs, leaked, failed>>
    BY <1>1 DEF vars
  <2> QED
    BY <2>1 DEF Inv, TypeOK, Hands, ActiveCounts, Holders, Stopped, Blame, Storing, Account, Behind
<1>2. CASE MainStep
  BY <1>2, TurnInv, EnqueueInv, EnqueueThrowsInv, WakeInv DEF MainStep
<1>3. ASSUME NEW t \in Thread, ThreadStep(t) PROVE Inv'
  BY <1>3, FetchInv, RunInv, DecInv, LastInv, ExcCheckInv, ExcStoreInv, DrainInv,
     ExcNotifyProducerInv DEF ThreadStep
<1> QED
  BY <1>1, <1>2, <1>3, WakeInv DEF Next

\* The inductive invariant holds in every reachable state.
LEMMA InvAlways == Spec => []Inv
BY InitInv, NextInv, PTL DEF Spec

\* Types, and above all that active_tasks never wraps below zero.
THEOREM TypeCorrect == Spec => []TypeOK
<1>1. Inv => TypeOK
  BY DEF Inv
<1> QED
  BY <1>1, InvAlways, PTL

\* active_tasks is the number of tasks queued and in workers' hands, plus what
\* a throwing emplace left in it.
THEOREM ActiveCountsAlways == Spec => []ActiveCounts
<1>1. Inv => ActiveCounts
  BY DEF Inv
<1> QED
  BY <1>1, InvAlways, PTL

\* When the wait in ExecuteParallel is over, the queue is empty and no worker
\* has a task.
LEMMA Idle == Inv => IdleAfterWait
<1> SUFFICES ASSUME Inv, mpc \in {"join", "returned", "thrown"}
             PROVE  tasks = << >> /\ Holders = {}
  BY DEF IdleAfterWait
<1>1. TypeOK /\ active = 0 /\ active = Len(tasks) + Cardinality(Holders) + leaked
  BY DEF Inv, Stopped, ActiveCounts
<1>2. Cardinality(Holders) \in Nat /\ (Cardinality(Holders) = 0 => Holders = {})
  BY <1>1, HoldersFinite
<1>3. Cardinality(Holders) = 0 /\ Len(tasks) = 0 /\ tasks \in Seq(Task)
  BY <1>1, <1>2 DEF TypeOK
<1> QED
  BY <1>2, <1>3

\* Nobody uses the caller's function and thread objects once ExecuteParallel
\* stops waiting.
THEOREM IdleAfterWaitAlways == Spec => []IdleAfterWait
BY Idle, InvAlways, PTL

\* Every coordinate inside the bounds is processed at most once, and exactly
\* once when ExecuteParallel returns normally.
THEOREM ExactlyOnceAlways == Spec => []ExactlyOnce
<1>1. ASSUME Inv PROVE ExactlyOnce
  <2>1. \A c \in Task : runs[c] <= 1
    BY <1>1 DEF Inv, Account
  <2>2. ASSUME mpc = "returned", NEW c \in Task PROVE runs[c] = 1
    <3>1. ~failed /\ Behind(c)
      BY <1>1, <2>2 DEF Inv, Blame, Behind, Loop
    <3>2. tasks = << >> /\ Holders = {}
      BY <1>1, <2>2, Idle DEF IdleAfterWait
    <3>3. ~Has(tasks, c)
      BY <3>2, QueueEmpty
    <3>4. \A t \in Thread : cur[t] # c
      BY <3>2, PoolConstants DEF Holders
    <3> QED
      BY <1>1, <3>1, <3>3, <3>4 DEF Inv, Account
  <2> QED
    BY <2>1, <2>2 DEF ExactlyOnce
<1> QED
  BY <1>1, InvAlways, PTL

\* ExecuteParallel does not return normally after a task, or the enqueueing
\* loop, threw.
THEOREM ExceptionReportedAlways == Spec => []ExceptionReported
<1>1. Inv => ExceptionReported
  BY DEF Inv, Blame, ExceptionReported
<1> QED
  BY <1>1, InvAlways, PTL

\* When all workers have left, no task waits for one, and the counter is what
\* a throwing emplace left in it.
THEOREM NothingStrandedAlways == Spec => []NothingStranded
<1>1. ASSUME Inv, AllExited PROVE tasks = << >> /\ active = leaked
  <2>1. PICK t \in Thread : tpc[t] = "exited"
    BY <1>1, PoolConstants DEF AllExited
  <2>2. tasks = << >>
    BY <1>1, <2>1 DEF Inv, Stopped, Drained
  <2>3. Holders = {}
    BY <1>1 DEF Inv, Hands, AllExited, Busy, Holders
  <2>4. Cardinality(Holders) = 0 /\ Len(tasks) = 0
    BY <2>2, <2>3, FS_EmptySet
  <2> QED
    BY <1>1, <2>2, <2>4 DEF Inv, ActiveCounts, TypeOK
<1>2. Inv => NothingStranded
  BY <1>1 DEF NothingStranded
<1> QED
  BY <1>2, InvAlways, PTL

\* A worker never replaces the exception of another one.
THEOREM FirstExceptionKeptAlways == Spec => FirstExceptionKept
<1>1. ASSUME Inv, [Next]_vars
      PROVE  [firstExc # NoException => firstExc' = firstExc \/ Main \in {firstExc, firstExc'}]_firstExc
  <2>1. ASSUME NEW t \in Thread, ExcStore(t) PROVE firstExc \in {NoException, Main}
    BY <1>1, <2>1 DEF Inv, Storing, ExcStore, Move
  <2>2. firstExc' = firstExc \/ firstExc' = Main \/ \E t \in Thread : ExcStore(t)
    <3>1. CASE UNCHANGED vars
      BY <3>1 DEF vars
    <3>2. CASE MainStep
      BY <3>2 DEF MainStep, Check, Enqueue, EnqueueThrows, Notify, CatchCheck, CatchStore, NotifyAll,
                  Signal, WaitPredicate, Block, Join, pool
    <3>3. ASSUME NEW t \in Thread, ThreadStep(t), ~ExcStore(t) PROVE firstExc' = firstExc
      BY <3>3 DEF ThreadStep, Fetch, Run, RunThrows, Dec, Last, ExcCheck, Drain, ExcNotifyProducer,
                  ExcNotifyConsumer, pool
    <3>4. CASE SpuriousWakeup
      BY <3>4 DEF SpuriousWakeup, pool
    <3> QED
      BY <1>1, <3>1, <3>2, <3>3, <3>4 DEF Next
  <2> QED
    BY <2>1, <2>2
<1> QED
  BY <1>1, InvAlways, PTL DEF Spec, FirstExceptionKept
=============================================================================
