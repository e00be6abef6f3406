--------------------------- MODULE ExecuteParallel ---------------------------
(***************************************************************************)
(* NDimensionalExecutor::ExecuteParallel: the calling ("main") thread      *)
(* walks over the coordinates inside the bounds and enqueues one task for  *)
(* each into a queue shared with a pool of worker threads, waits until the *)
(* counter active_tasks falls to zero, joins the pool and rethrows the     *)
(* first exception.  A task is the coordinates it is for.                  *)
(*                                                                         *)
(* A step is a region that runs without releasing queue_mutex, or a single *)
(* atomic or notify operation outside it.  Two states of main hold the     *)
(* mutex between steps: "sleep" (the wait predicate was false, the thread  *)
(* is not yet blocked on condition_consumer) and "catchStore".  A worker   *)
(* in "excStore" holds exception_mutex.                                    *)
(*                                                                         *)
(* Condition variables lose a notification nobody waits for and may wake   *)
(* spuriously, at most MaxSpurious times in a behaviour.  Constructing the *)
(* std::threads is taken to succeed.                                       *)
(***************************************************************************)
EXTENDS Integers, Sequences, FiniteSets

CONSTANTS Thread,       \* the pool, one per thread object
          fMinBounds, fMaxBounds,
          Raisers,      \* which of "task", "enqueue" may throw
          MaxSpurious,  \* bound on spurious wakeups
          Main, NoException, NoTask

Dimension == 1..Len(fMinBounds)

Task == {c \in [Dimension -> UNION {fMinBounds[i]..fMaxBounds[i] : i \in Dimension}] :
           \A i \in Dimension : c[i] \in fMinBounds[i]..fMaxBounds[i]}

ASSUME PoolConstants ==
  /\ Thread # {} /\ IsFiniteSet(Thread)
  /\ fMinBounds \in Seq(Int) /\ fMinBounds # << >> /\ fMaxBounds \in [Dimension -> Int]
  /\ \A i \in Dimension : fMinBounds[i] <= fMaxBounds[i]
  /\ NoTask \notin Task /\ MaxSpurious \in Nat
  /\ Raisers \subseteq {"task", "enqueue"}
  /\ Main \notin Thread /\ NoException \notin Thread \cup {Main}

VARIABLES tasks,      \* the queue
          active,     \* active_tasks
          stop,       \* stop_pool
          firstExc,   \* first_exception, named by the thread that raised it
          mpc, next,  \* main: control state, fCurrentCoords
          tpc, cur,   \* workers: control state, task in hand
          spurious,   \* wakeups spent
          runs,       \* history: how often each task was executed
          leaked,     \* history: counter increments without a task
          failed      \* history: somebody threw

vars == <<tasks, active, stop, firstExc, mpc, next, tpc, cur, spurious, runs, leaked, failed>>

pool == <<tasks, active, stop, firstExc>>
history == <<spurious, runs, leaked, failed>>

MainState == {"check", "enqueue", "notify", "catchCheck", "catchStore", "catchNotify", "signal",
              "notifyAll", "wait", "sleep", "asleep", "join", "returned", "thrown"}

ThreadState == {"fetch", "waiting", "run", "dec", "lastDone", "excCheck", "excStore", "drain",
                "notifyProducer", "notifyConsumer", "decExc", "lastExc", "exited"}

Init ==
  /\ tasks = << >> /\ active = 0 /\ stop = FALSE /\ firstExc = NoException
  /\ mpc = "check" /\ next = fMinBounds
  /\ tpc = [t \in Thread |-> "fetch"] /\ cur = [t \in Thread |-> NoTask]
  /\ spurious = 0 /\ runs = [k \in Task |-> 0] /\ leaked = 0 /\ failed = FALSE

-----------------------------------------------------------------------------
(* Mutexes and condition variables *)

QueueMutexFree == mpc \notin {"sleep", "catchStore"}

ExceptionMutexFree == \A t \in Thread : tpc[t] # "excStore"

Waiting == {t \in Thread : tpc[t] = "waiting"}

NotifyOneProducer ==
  \/ Waiting = {} /\ UNCHANGED tpc
  \/ \E t \in Waiting : tpc' = [tpc EXCEPT ![t] = "fetch"]

\* pc with every worker that waits on condition_producer released.
Released(pc) == [t \in Thread |-> IF pc[t] = "waiting" THEN "fetch" ELSE pc[t]]

NotifyConsumer == mpc' = IF mpc = "asleep" THEN "wait" ELSE mpc

-----------------------------------------------------------------------------
(* Main *)

Goto(pc) == mpc' = pc

\* The first lock scope, and the copy of the coordinates after it.
Check ==
  /\ mpc = "check" /\ QueueMutexFree
  /\ Goto(IF stop THEN "signal" ELSE "enqueue")
  /\ UNCHANGED <<pool, next, tpc, cur, history>>

Enqueue_UncheckedStop ==
  /\ mpc = "enqueue" /\ QueueMutexFree
  /\ Goto("notify") /\ active' = active + 1 /\ tasks' = Append(tasks, next)
  /\ UNCHANGED <<stop, firstExc, next, tpc, cur, history>>

Enqueue ==
  /\ mpc = "enqueue" /\ QueueMutexFree
  /\ IF stop
     THEN Goto("signal") /\ UNCHANGED <<tasks, active>>
     ELSE Goto("notify") /\ active' = active + 1 /\ tasks' = Append(tasks, next)
  /\ UNCHANGED <<stop, firstExc, next, tpc, cur, history>>

\* Copying the coordinates throws, or emplace does, after the counter was
\* incremented.
EnqueueThrows ==
  /\ "enqueue" \in Raisers /\ mpc = "enqueue"
  /\ \/ UNCHANGED <<active, leaked>>
     \/ QueueMutexFree /\ ~stop /\ active' = active + 1 /\ leaked' = leaked + 1
  /\ Goto("catchCheck") /\ failed' = TRUE
  /\ UNCHANGED <<tasks, stop, firstExc, next, tpc, cur, spurious, runs>>

\* The dimensions Increment can still count up; it takes the last of them
\* and puts those behind it back to their lower bounds.
Movable(c) == {i \in Dimension : c[i] < fMaxBounds[i]}

Increment_KeepsLower(c) ==
  LET k == CHOOSE i \in Movable(c) : \A j \in Movable(c) : j <= i
  IN [c EXCEPT ![k] = @ + 1]

Increment(c) ==
  LET k == CHOOSE i \in Movable(c) : \A j \in Movable(c) : j <= i
  IN [i \in Dimension |-> IF i < k THEN c[i] ELSE IF i = k THEN c[i] + 1 ELSE fMinBounds[i]]

\* condition_producer.notify_one(), then Increment() decides on another round;
\* behind the last coordinates it wraps around to the first.
Notify ==
  /\ mpc = "notify" /\ NotifyOneProducer
  /\ IF Movable(next) # {}
     THEN Goto("check") /\ next' = Increment(next)
     ELSE Goto("signal") /\ next' = fMinBounds
  /\ UNCHANGED <<pool, cur, history>>

\* The catch block tests and sets first_exception under queue_mutex only.
CatchCheck ==
  /\ mpc = "catchCheck" /\ QueueMutexFree
  /\ stop' = TRUE
  /\ Goto(IF firstExc = NoException THEN "catchStore" ELSE "catchNotify")
  /\ UNCHANGED <<tasks, active, firstExc, next, tpc, cur, history>>

CatchStore_Forgets ==
  /\ mpc = "catchStore" /\ Goto("catchNotify")
  /\ UNCHANGED <<pool, next, tpc, cur, history>>

CatchStore ==
  /\ mpc = "catchStore" /\ firstExc' = Main /\ Goto("catchNotify")
  /\ UNCHANGED <<tasks, active, stop, next, tpc, cur, history>>

NotifyAll_OnlyOne ==
  /\ mpc \in {"catchNotify", "notifyAll"}
  /\ Goto(IF mpc = "catchNotify" THEN "signal" ELSE "wait")
  /\ NotifyOneProducer
  /\ UNCHANGED <<pool, next, cur, history>>

NotifyAll ==
  /\ mpc \in {"catchNotify", "notifyAll"}
  /\ Goto(IF mpc = "catchNotify" THEN "signal" ELSE "wait")
  /\ tpc' = Released(tpc)
  /\ UNCHANGED <<pool, next, cur, history>>

Signal ==
  /\ mpc = "signal" /\ QueueMutexFree
  /\ stop' = TRUE /\ Goto("notifyAll")
  /\ UNCHANGED <<tasks, active, firstExc, next, tpc, cur, history>>

WaitPredicate_QueueOnly ==
  /\ mpc = "wait" /\ QueueMutexFree
  /\ Goto(IF stop /\ tasks = << >> THEN "join" ELSE "sleep")
  /\ UNCHANGED <<pool, next, tpc, cur, history>>

\* condition_consumer.wait: test the predicate under the lock ...
WaitPredicate ==
  /\ mpc = "wait" /\ QueueMutexFree
  /\ Goto(IF stop /\ active = 0 THEN "join" ELSE "sleep")
  /\ UNCHANGED <<pool, next, tpc, cur, history>>

\* ... and, if it was false, release the lock and block.
Block ==
  /\ mpc = "sleep" /\ Goto("asleep")
  /\ UNCHANGED <<pool, next, tpc, cur, history>>

Join ==
  /\ mpc = "join" /\ \A t \in Thread : tpc[t] = "exited"
  /\ Goto(IF firstExc = NoException THEN "returned" ELSE "thrown")
  /\ UNCHANGED <<pool, next, tpc, cur, history>>

MainStep ==
  Check \/ Enqueue \/ EnqueueThrows \/ Notify \/ CatchCheck \/ CatchStore \/ NotifyAll
  \/ Signal \/ WaitPredicate \/ Block \/ Join

-----------------------------------------------------------------------------
(* Workers *)

Move(t, from, to) == tpc[t] = from /\ tpc' = [tpc EXCEPT ![t] = to]

\* One lock scope: wait, leave the loop, or take the front task.
Fetch(t) ==
  /\ QueueMutexFree
  /\ \/ /\ tasks = << >> /\ Move(t, "fetch", IF stop THEN "exited" ELSE "waiting")
        /\ UNCHANGED <<tasks, cur>>
     \/ /\ tasks # << >> /\ Move(t, "fetch", "run")
        /\ cur' = [cur EXCEPT ![t] = Head(tasks)] /\ tasks' = Tail(tasks)
  /\ UNCHANGED <<active, stop, firstExc, mpc, next, history>>

Run(t) ==
  /\ Move(t, "run", "dec")
  /\ runs' = [runs EXCEPT ![cur[t]] = @ + 1]
  /\ UNCHANGED <<pool, mpc, next, cur, spurious, leaked, failed>>

RunThrows(t) ==
  /\ "task" \in Raisers /\ Move(t, "run", "excCheck")
  /\ runs' = [runs EXCEPT ![cur[t]] = @ + 1] /\ failed' = TRUE
  /\ UNCHANGED <<pool, mpc, next, cur, spurious, leaked>>

\* --active_tasks, after a task that completed or one that threw.
Dec(t) ==
  /\ \/ Move(t, "dec", IF active = 1 THEN "lastDone" ELSE "fetch")
     \/ Move(t, "decExc", IF active = 1 THEN "lastExc" ELSE "exited")
  /\ active' = active - 1 /\ cur' = [cur EXCEPT ![t] = NoTask]
  /\ UNCHANGED <<tasks, stop, firstExc, mpc, next, history>>

\* The counter reached zero: notify the consumer if the pool is stopping.
Last(t) ==
  /\ Move(t, "lastDone", "fetch") \/ Move(t, "lastExc", "exited")
  /\ IF stop THEN NotifyConsumer ELSE UNCHANGED mpc
  /\ UNCHANGED <<pool, next, cur, history>>

ExcCheck_NoMutex(t) ==
  /\ Move(t, "excCheck", IF firstExc = NoException THEN "excStore" ELSE "drain")
  /\ UNCHANGED <<pool, mpc, next, cur, history>>

ExcCheck(t) ==
  /\ ExceptionMutexFree
  /\ Move(t, "excCheck", IF firstExc = NoException THEN "excStore" ELSE "drain")
  /\ UNCHANGED <<pool, mpc, next, cur, history>>

ExcStore(t) ==
  /\ Move(t, "excStore", "drain") /\ firstExc' = t
  /\ UNCHANGED <<tasks, active, stop, mpc, next, cur, history>>

Drain_KeepsCount(t) ==
  /\ QueueMutexFree /\ Move(t, "drain", "notifyProducer")
  /\ stop' = TRUE /\ tasks' = << >>
  /\ UNCHANGED <<active, firstExc, mpc, next, cur, history>>

\* Stop the pool and drop what nobody has started.
Drain(t) ==
  /\ QueueMutexFree /\ Move(t, "drain", "notifyProducer")
  /\ stop' = TRUE /\ active' = active - Len(tasks) /\ tasks' = << >>
  /\ UNCHANGED <<firstExc, mpc, next, cur, history>>

ExcNotifyProducer(t) ==
  /\ tpc[t] = "notifyProducer" /\ tpc' = [Released(tpc) EXCEPT ![t] = "notifyConsumer"]
  /\ UNCHANGED <<pool, mpc, next, cur, history>>

ExcNotifyConsumer(t) ==
  /\ Move(t, "notifyConsumer", "decExc") /\ NotifyConsumer
  /\ UNCHANGED <<pool, next, cur, history>>

ThreadStep(t) ==
  Fetch(t) \/ Run(t) \/ RunThrows(t) \/ Dec(t) \/ Last(t) \/ ExcCheck(t) \/ ExcStore(t)
  \/ Drain(t) \/ ExcNotifyProducer(t) \/ ExcNotifyConsumer(t)

SpuriousWakeup ==
  /\ spurious < MaxSpurious /\ spurious' = spurious + 1
  /\ \/ mpc = "asleep" /\ Goto("wait") /\ UNCHANGED tpc
     \/ \E t \in Thread : Move(t, "waiting", "fetch") /\ UNCHANGED mpc
  /\ UNCHANGED <<pool, next, cur, runs, leaked, failed>>

Next == MainStep \/ (\E t \in Thread : ThreadStep(t)) \/ SpuriousWakeup

\* The scheduler runs every thread that can take a step; nothing makes a
\* spurious wakeup happen.
Fairness == WF_vars(MainStep) /\ \A t \in Thread : WF_vars(ThreadStep(t))

Spec == Init /\ [][Next]_vars /\ Fairness

-----------------------------------------------------------------------------
(* Properties *)

\* The variables have the types of their declarations; active_tasks, a
\* size_t, never wraps below zero.
TypeOK ==
  /\ tasks \in Seq(Task) /\ active \in Nat /\ stop \in BOOLEAN
  /\ firstExc \in Thread \cup {Main, NoException}
  /\ mpc \in MainState /\ next \in Task
  /\ tpc \in [Thread -> ThreadState] /\ cur \in [Thread -> Task \cup {NoTask}]
  /\ spurious \in 0..MaxSpurious /\ runs \in [Task -> Nat]
  /\ leaked \in Nat /\ failed \in BOOLEAN

Holders == {t \in Thread : cur[t] # NoTask}

\* active_tasks counts the tasks queued and the tasks in a worker's hands
\* (from its pop to its decrement), through completions, exceptions and the
\* drain of the queue; a throwing emplace is the only thing that adds to it.
ActiveCounts == active = Len(tasks) + Cardinality(Holders) + leaked

\* No coordinates are processed twice, and when ExecuteParallel returns
\* normally all those inside the bounds were processed.
ExactlyOnce ==
  /\ \A k \in Task : runs[k] <= 1
  /\ mpc = "returned" => \A k \in Task : runs[k] = 1

\* Past the wait for active_tasks = 0 no task is queued or being executed, so
\* nobody uses the caller's function and thread objects any more.
IdleAfterWait ==
  mpc \in {"join", "returned", "thrown"} => tasks = << >> /\ Holders = {}

\* An exception of a task or of the enqueueing loop is never swallowed.
ExceptionReported == mpc = "returned" => ~failed

\* The stored exception is the first one: no later exception of a worker
\* replaces that of another.  Only main, which stores its own under
\* queue_mutex and not under exception_mutex, may race with a worker.
FirstExceptionKept ==
  [][firstExc # NoException => firstExc' = firstExc \/ Main \in {firstExc, firstExc'}]_firstExc

AllExited == \A t \in Thread : tpc[t] = "exited"

\* Once all workers have left, nothing is queued for them and the counter has
\* only what a throwing emplace leaked into it: otherwise the wait for
\* active_tasks = 0 can be satisfied ("without this, active_tasks can remain
\* non-zero forever and the consumer wait below deadlocks").
NothingStranded == AllExited => tasks = << >> /\ active = leaked

\* Every worker thread leaves its loop, whoever throws and whenever.
WorkersTerminate == <>AllExited

\* ExecuteParallel's documentation: if a worker throws, the exception is
\* rethrown after joining.
ExceptionRethrown == failed ~> mpc = "thrown"
=============================================================================
