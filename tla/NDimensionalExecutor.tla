------------------------ MODULE NDimensionalExecutor ------------------------
(***************************************************************************)
(* The supervisor of an IPC/TCP session (core/NDimensionalExecutor.cxx):   *)
(* StartProcessIpc, ExecuteCurrentBoundsProcessIpc once per definition and *)
(* FinishProcessIpc, and the merge with which NGnTree::Process ends.       *)
(*                                                                         *)
(* The record sup holds the IpcSession, the executor's members and the     *)
(* locals of the call in progress; a helper is an operator from sup to the *)
(* sup it leaves behind.  The bounds are {0}..{n-1}, as NGnTree sets them, *)
(* so the coordinates of a task are its number.  One pass of the main loop *)
(* is the walk top, dispatch, cleanup, receive (idle) of pc.               *)
(*                                                                         *)
(* Time is abstract: a deadline passes as a fault, or because the peer is  *)
(* gone (Expires).  Environment settings keep their defaults except        *)
(* BatchSize and PerWorker.                                                *)
(***************************************************************************)
EXTENDS NDimensionalIpcRunner

CONSTANTS TasksOf,    \* TasksOf[d]: number of tasks of definition d
          BatchSize,  \* NDMSPC_IPC_BATCH_SIZE
          PerWorker,  \* NDMSPC_TCP_MAX_INFLIGHT_PER_WORKER
          NoWorker, NoPayload

ASSUME ExecutorConstants ==
  /\ TasksOf \in Seq(Nat \ {0}) /\ TasksOf # << >>
  /\ BatchSize \in Nat \ {0} /\ PerWorker \in Nat \ {0}
  /\ NoWorker \notin Worker /\ NoPayload \notin Nat

VARIABLES pc,      \* control state of the supervisor
          sup,     \* its data
          err,     \* firstError / finishError, by kind
          merged   \* merged[e]: in how many merged files entry e is

Defs == 1..Len(TasksOf)
TaskId == 0..(Max(Range(TasksOf)) - 1)
Entries == UNION {{<<d, t>> : t \in 0..(TasksOf[d] - 1)} : d \in Defs}

\* What a worker may process; a pair that is no entry stands for an index
\* outside the ids of the definition the worker is at.
Work == ({OwnDef} \cup Defs) \X TaskId

ASSUME NoFileAssumption == \A work \in SUBSET Work : work # NoFile

mgr == sup.mgr

M == INSTANCE NTaskStateManager WITH WorkerId <- Worker, TaskPayload <- TaskId

-----------------------------------------------------------------------------
(* The state of the main loop *)

HasMore(s) == s.next < TasksOf[s.def]

MaxInFlightMessages(s) == Max({4, Len(s.vec)})

\* dispatchMessageId is only used modulo the number of workers.
Turns == LET f[n \in 0..Cardinality(Worker)] == IF n = 0 THEN 1 ELSE n * f[n - 1]
         IN f[Cardinality(Worker)]

Begin_KeepsHistory(s, d) ==
  [s EXCEPT !.def = d, !.mgr = M!Empty, !.next = 0, !.outstanding = 0, !.outstandingMessages = 0,
            !.acked = 0, !.turn = 0, !.pendingInit = {},
            !.inFlight = [w \in Worker |-> 0], !.counts = [w \in Worker |-> 0]]

\* The locals of ExecuteCurrentBoundsProcessIpc, for definition d.
Begin(s, d) ==
  LET expected == Max({1, IF IsTcp THEN Cardinality(Worker) ELSE Len(s.vec)})
      fairCap == Max({1, TasksOf[d] \div (expected * 2)})
  IN [s EXCEPT !.def = d, !.mgr = M!Empty, !.next = 0, !.outstanding = 0, !.outstandingMessages = 0,
               !.acked = 0, !.turn = 0, !.pendingInit = {}, !.batch = Max({1, Min({BatchSize, fairCap})}),
               !.inFlight = [w \in Worker |-> 0], !.history = [w \in Worker |-> {}],
               !.counts = [w \in Worker |-> 0]]

ExecutorInit ==
  /\ pc = "start" /\ err = "none" /\ merged = [e \in Entries |-> 0]
  /\ sup = [ mgr |-> M!Empty, def |-> 0, next |-> 0, outstanding |-> 0, outstandingMessages |-> 0,
             acked |-> 0, turn |-> 0, batch |-> 1,
             inFlight |-> [w \in Worker |-> 0], history |-> [w \in Worker |-> {}],
             counts |-> [w \in Worker |-> 0], nProcessed |-> [w \in Worker |-> 0],
             registered |-> IF IsTcp THEN {} ELSE Worker, vec |-> << >>, seen |-> {}, failed |-> {},
             pendingInit |-> {}, pendingReady |-> << >>, initing |-> NoWorker,
             earlyDone |-> {}, doneWorkers |-> {}, shutdownWorkers |-> {}, reaped |-> {} ]

Step(from, to) == pc = from /\ pc' = to

Throw(kind) == pc' = "throw" /\ err' = kind

Send(w, m) == toWorker' = [toWorker EXCEPT ![w] = Append(@, m)]

SendAll(ws, m) == toWorker' = [w \in Worker |-> IF w \in ws THEN Append(toWorker[w], m) ELSE toWorker[w]]

Takes(w) == toSup[w] # << >> /\ toSup' = [toSup EXCEPT ![w] = Tail(@)]

-----------------------------------------------------------------------------
(* StartProcessIpc *)

Join(s, w) == [s EXCEPT !.registered = @ \cup {w}, !.vec = Append(@, w)]

\* TCP starts with the first worker, IPC with all of them.
ReadyTarget == IF IsTcp THEN 1 ELSE Cardinality(Worker)

StartReady(w) ==
  /\ ~IsTcp /\ pc = "start" /\ Len(sup.vec) < ReadyTarget /\ Takes(w)
  /\ sup' = IF Head(toSup[w]).cmd = "READY" THEN Join(sup, w) ELSE sup
  /\ UNCHANGED <<pc, err, merged, toWorker, workers, faults>>

\* InitTcpWorker: INIT out, then a wait for this worker's ACK that only keeps
\* the READY messages of others.  When INIT cannot be sent, the worker is
\* forgotten, and its READY with it.
InitTcpWorker(s, w) ==
  \/ /\ Step("start", "initWait") /\ Send(w, Msg("INIT", << >>))
     /\ sup' = [s EXCEPT !.initing = w] /\ UNCHANGED faults
  \/ /\ pc = "start" /\ Spend("send") /\ sup' = s /\ UNCHANGED <<pc, toWorker>>

StartTcp(w) ==
  /\ IsTcp /\ UNCHANGED <<err, merged, workers>>
  /\ IF sup.pendingReady # << >>
     THEN /\ w = Head(sup.pendingReady) /\ UNCHANGED toSup
          /\ InitTcpWorker([sup EXCEPT !.pendingReady = Tail(@)], w)
     ELSE /\ Len(sup.vec) < ReadyTarget /\ Takes(w) /\ Head(toSup[w]).cmd = "READY"
          /\ InitTcpWorker(sup, w)

\* Anything else that arrives at startup is dropped.
StartDrops(w) ==
  /\ IsTcp /\ pc = "start" /\ sup.pendingReady = << >> /\ Len(sup.vec) < ReadyTarget
  /\ Takes(w) /\ Head(toSup[w]).cmd # "READY"
  /\ UNCHANGED <<pc, sup, err, merged, toWorker, workers, faults>>

InitReceive(w) ==
  /\ pc = "initWait" /\ Takes(w)
  /\ \/ /\ w = sup.initing /\ Head(toSup[w]).cmd = "ACK" /\ pc' = "start"
        /\ sup' = [Join(sup, w) EXCEPT !.seen = @ \cup {w}, !.initing = NoWorker]
     \/ /\ w # sup.initing /\ Head(toSup[w]).cmd = "READY" /\ UNCHANGED pc
        /\ sup' = [sup EXCEPT !.pendingReady = Append(@, w)]
     \/ /\ Head(toSup[w]).cmd \notin {"ACK", "READY"} \/ (w # sup.initing /\ Head(toSup[w]).cmd = "ACK")
        /\ UNCHANGED <<pc, sup>>
  /\ UNCHANGED <<err, merged, toWorker, workers, faults>>

InitTimeout ==
  /\ Step("initWait", "start") /\ Expires("init", sup.initing)
  /\ sup' = [sup EXCEPT !.initing = NoWorker]
  /\ UNCHANGED <<err, merged, channels, workers>>

StartDone ==
  /\ pc = "start" /\ sup.pendingReady = << >> /\ Len(sup.vec) >= ReadyTarget
  /\ pc' = "define" /\ UNCHANGED <<sup, err, merged, channels, workers, faults>>

\* The ready deadline: forked children are killed, TCP workers are left alone.
StartTimeout ==
  /\ pc = "start" /\ sup.pendingReady = << >> /\ Len(sup.vec) < ReadyTarget
  /\ IF \E w \in Worker : Silent(w) THEN UNCHANGED faults ELSE Spend("init")
  /\ pc' = "failed" /\ err' = "startTimeout"
  /\ wpc' = IF IsTcp THEN wpc ELSE [w \in Worker |-> IF Gone(w) THEN wpc[w] ELSE "dead"]
  /\ UNCHANGED <<sup, merged, channels, wdef, mem, file>>

-----------------------------------------------------------------------------
(* HandleWorkerFailure and releaseWorkerMessages *)

\* The tasks of S in ascending order, the order a std::set is walked.
Sorted(S) == [i \in 1..Cardinality(S) |-> CHOOSE x \in S : Cardinality({y \in S : y < x}) = i - 1]

\* std::find and erase.
Erase(q, w) ==
  IF w \in Range(q)
  THEN M!Without(q, CHOOSE k \in 1..Len(q) : q[k] = w /\ \A j \in 1..(k - 1) : q[j] # w)
  ELSE q

Recover(m, w) ==
  IF M!GetWorkerTasks(m, w) = {} THEN m ELSE M!RecoverWorkerTasks(m, w, Sorted(M!Recoverable(m, w)))

ReleaseWorkerMessages_EraseOnly(s, w) == [s EXCEPT !.inFlight[w] = 0]

ReleaseWorkerMessages(s, w) ==
  [s EXCEPT !.outstandingMessages = @ - Min({@, s.inFlight[w]}), !.inFlight[w] = 0]

HandleWorkerFailure_LiveOnly(s, w) ==
  LET live == s.history[w] \cap M!Running(s.mgr)
  IN ReleaseWorkerMessages(
       [s EXCEPT !.mgr = Recover(M!RequeueAll(@, Sorted(live)), w), !.history[w] = {},
                 !.outstanding = @ - Min({@, Cardinality(live)}),
                 !.vec = Erase(@, w), !.registered = @ \ {w}, !.failed = @ \ {w}], w)

HandleWorkerFailure_KeepAcked(s, w) ==
  LET replay == {t \in s.history[w] : M!CanRequeue(s.mgr, t)}
  IN ReleaseWorkerMessages(
       [s EXCEPT !.mgr = M!RequeueAll(@, Sorted(replay)), !.history[w] = {}, !.counts[w] = 0,
                 !.outstanding = @ - Cardinality(replay \cap M!Running(s.mgr)),
                 !.vec = Erase(@, w), !.registered = @ \ {w}, !.failed = @ \ {w}], w)

HandleWorkerFailure_AllOutstanding(s, w) ==
  [HandleWorkerFailure_KeepAcked(s, w) EXCEPT !.outstanding = s.outstanding - Cardinality(s.history[w])]

\* Everything the worker was given in this definition is replayed, what it
\* already acknowledged included, and the worker is forgotten.
HandleWorkerFailure(s, w) ==
  LET m1 == M!RequeueAll(s.mgr, Sorted({t \in s.history[w] : M!CanRequeue(s.mgr, t)}))
      m2 == Recover(m1, w)
      replayedDone == Cardinality(s.mgr.fDone \ m2.fDone)
      replayedLive == Cardinality(M!Running(s.mgr) \ M!Running(m2))
      counted == IF w \in s.registered THEN Min({s.counts[w], replayedDone + replayedLive}) ELSE 0
  IN ReleaseWorkerMessages(
       [s EXCEPT !.mgr = m2, !.history[w] = {},
                 !.outstanding = @ - Min({@, replayedLive}), !.acked = @ - Min({@, replayedDone}),
                 !.counts[w] = @ - counted,
                 !.vec = Erase(@, w),
                 !.registered = @ \ {w}, !.failed = @ \ {w}], w)

-----------------------------------------------------------------------------
(* ExecuteCurrentBoundsProcessIpc: the loop *)

\* Tell every worker the definition; a TCP worker that cannot be told is
\* marked as failed.
StartDefinition ==
  /\ pc = "define" /\ sup.def < Len(TasksOf)
  /\ \/ /\ SendAll(Range(sup.vec), SetDef(sup.def + 1))
        /\ sup' = Begin(sup, sup.def + 1) /\ pc' = "top" /\ UNCHANGED <<err, faults>>
     \/ /\ Spend("send")
        /\ \E w \in Range(sup.vec) :
             /\ SendAll(Range(sup.vec) \ {w}, SetDef(sup.def + 1))
             /\ IF IsTcp
                THEN /\ sup' = [Begin(sup, sup.def + 1) EXCEPT !.failed = @ \cup {w}]
                     /\ pc' = "top" /\ UNCHANGED err
                ELSE Throw("send") /\ sup' = Begin(sup, sup.def + 1)
  /\ UNCHANGED <<merged, toSup, workers>>

WorkLeft_IgnoresPending(s) == HasMore(s) \/ s.outstanding > 0

WorkLeft(s) == HasMore(s) \/ s.outstanding > 0 \/ M!HasPending(s.mgr)

\* The loop condition, and the exit when no worker is left.  Without TCP
\* workers the loop keeps polling for a rejoin until the grace period ends.
LoopTop ==
  /\ pc = "top" /\ err = "none" /\ WorkLeft(sup)
  /\ IF sup.vec = << >> /\ ~IsTcp
     THEN Throw("noWorkers")
     ELSE pc' = "dispatch" /\ UNCHANGED err
  /\ UNCHANGED <<sup, merged, channels, workers, faults>>

GraceExpires ==
  /\ pc = "top" /\ err = "none" /\ WorkLeft(sup) /\ IsTcp /\ sup.vec = << >> /\ Throw("noWorkers")
  /\ UNCHANGED <<sup, merged, channels, workers, faults>>

\* firstError was set earlier in the pass.
LoopFails ==
  /\ Step("top", "throw") /\ err # "none"
  /\ UNCHANGED <<sup, err, merged, channels, workers, faults>>

LoopEnd_NoCounts ==
  /\ pc = "top" /\ err = "none" /\ ~WorkLeft(sup) /\ pc' = "define"
  /\ UNCHANGED <<sup, err, merged, channels, workers, faults>>

\* The normal end: NGnTree copies the per-worker counts of this definition.
LoopEnd ==
  /\ pc = "top" /\ err = "none" /\ ~WorkLeft(sup)
  /\ IF M!PendingCount(mgr) > 0 \/ M!Running(mgr) # {}
     THEN Throw("unacknowledged") /\ UNCHANGED sup
     ELSE pc' = "define" /\ sup' = [sup EXCEPT !.nProcessed = sup.counts] /\ UNCHANGED err
  /\ UNCHANGED <<merged, channels, workers, faults>>

\* Ctrl+C: the handler kills the forked children.
UserInterrupt ==
  /\ pc \in {"top", "receive"} /\ Spend("user") /\ Throw("user")
  /\ wpc' = IF IsTcp THEN wpc ELSE [w \in Worker |-> IF Gone(w) THEN wpc[w] ELSE "dead"]
  /\ UNCHANGED <<sup, merged, channels, wdef, mem, file>>

\* detectInactiveTcpWorkers, for one worker.
InactiveTcpWorker(w) ==
  /\ IsTcp /\ pc \in {"top", "idle"} /\ w \in Range(sup.vec) \ sup.failed
  /\ Expires("timeout", w)
  /\ sup' = HandleWorkerFailure(sup, w)
  /\ IF sup'.vec = << >> THEN Throw("noWorkers") ELSE UNCHANGED <<pc, err>>
  /\ UNCHANGED <<merged, channels, workers>>

-----------------------------------------------------------------------------
(* Dispatch *)

Slot(s, j) == s.vec[((s.turn + j) % Len(s.vec)) + 1]

Eligible(s, w) == ~IsTcp \/ (w \notin s.failed /\ s.inFlight[w] < PerWorker)

\* The round-robin offsets of the workers that can take a message: any slot
\* under TCP, the next one otherwise.
Offers(s) ==
  {j \in 0..(IF IsTcp THEN Len(s.vec) - 1 ELSE 0) : Eligible(s, Slot(s, j))}

WantsDispatch(s) ==
  /\ HasMore(s) \/ M!HasPending(s.mgr)
  /\ s.outstandingMessages < MaxInFlightMessages(s)
  /\ s.vec # << >>

CanDispatch(s) == WantsDispatch(s) /\ Offers(s) # {}

AdaptiveBatchSize(s) ==
  LET nw == Len(s.vec) IN Min({s.batch, Max({1, (TasksOf[s.def] - s.next + nw - 1) \div nw})})

Capacity(s) == Max({0, MaxInFlightMessages(s) * s.batch - s.outstanding})

\* How many requeued tasks and how many new ones the next message may take.
Replays(s) ==
  Min({M!PendingCount(s.mgr), Capacity(s), Max({1, AdaptiveBatchSize(s) \div Len(s.vec)})})

Fresh(s) ==
  Min({TasksOf[s.def] - s.next, Capacity(s) - Replays(s), AdaptiveBatchSize(s) - Replays(s)})

\* The tasks of the next message, in order.
BatchTasks(s) ==
  [i \in 1..(Replays(s) + Fresh(s)) |->
     IF i <= M!PendingCount(s.mgr) THEN s.mgr.fPending[i].id ELSE s.next + i - M!PendingCount(s.mgr) - 1]

\* Requeued tasks are claimed first; then each new task is added behind the
\* queue and the front of the queue is claimed, which is another task while
\* requeued ones are waiting.
Fill(s, w) ==
  LET new == [i \in 1..Fresh(s) |-> M!Entry(s.next + i - 1, s.next + i - 1)]
      n == Replays(s) + Fresh(s)
  IN [s EXCEPT !.mgr = M!AddAndClaim(@, w, new, n), !.next = @ + Fresh(s),
               !.history[w] = @ \cup Range(BatchTasks(s)), !.outstanding = @ + n]

\* One message to the next worker in turn.  An empty batch makes the code
\* repeat the same iteration for ever.
Dispatch ==
  /\ pc = "dispatch" /\ CanDispatch(sup) /\ BatchTasks(sup) # << >>
  /\ LET j == CHOOSE i \in Offers(sup) : \A k \in Offers(sup) : i <= k
         w == Slot(sup, j)
         ids == BatchTasks(sup)
         filled == Fill(sup, w)
     IN \/ /\ Send(w, Msg(IF Len(ids) = 1 THEN "TASK" ELSE "TASKB", ids))
           /\ sup' = [filled EXCEPT !.turn = (@ + j + 1) % Turns, !.outstandingMessages = @ + 1,
                                    !.inFlight[w] = @ + 1]
           /\ UNCHANGED <<pc, err, faults>>
        \/ /\ Spend("send") /\ UNCHANGED toWorker
           /\ IF IsTcp
              THEN /\ sup' = [filled EXCEPT !.mgr = M!RequeueAll(@, ids), !.failed = @ \cup {w},
                                            !.turn = (@ + j) % Turns]
                   /\ pc' = "cleanup" /\ UNCHANGED err
              ELSE Throw("send") /\ sup' = filled
  /\ UNCHANGED <<merged, toSup, workers>>

\* Nothing to send, or nobody to send it to: the vain search for a worker has
\* advanced dispatchMessageId once around.
DispatchDone ==
  /\ Step("dispatch", "cleanup") /\ ~CanDispatch(sup)
  /\ sup' = IF WantsDispatch(sup) THEN [sup EXCEPT !.turn = (@ + Len(sup.vec)) % Turns] ELSE sup
  /\ UNCHANGED <<err, merged, channels, workers, faults>>

\* Remove the TCP workers marked as failed, then receive, or skip that when
\* there is nothing to wait for; with no worker left, the loop ends only after
\* this receive.
Cleanup ==
  /\ pc = "cleanup"
  /\ \/ \E k \in 1..Len(sup.vec) :
          /\ sup.vec[k] \in sup.failed /\ \A j \in 1..(k - 1) : sup.vec[j] \notin sup.failed
          /\ sup' = HandleWorkerFailure(sup, sup.vec[k])
          /\ err' = IF sup'.vec = << >> THEN "noWorkers" ELSE err
          /\ UNCHANGED pc
     \/ /\ Range(sup.vec) \cap sup.failed = {} /\ UNCHANGED <<sup, err>>
        /\ pc' = IF \/ sup.outstanding = 0 /\ sup.vec = << >> /\ ~IsTcp
                    \/ ~WorkLeft(sup)
                 THEN "top" ELSE "receive"
  /\ UNCHANGED <<merged, channels, workers, faults>>

-----------------------------------------------------------------------------
(* Receive *)

Got(w, cmd) == pc = "receive" /\ Takes(w) /\ Head(toSup[w]).cmd = cmd

\* A late TCP worker: INIT is sent, its ACK is handled by a later pass.
ReceiveReady(w) ==
  /\ Got(w, "READY") /\ pc' = "top"
  /\ LET s == [sup EXCEPT !.seen = @ \cup {w}]
     IN \/ /\ w \notin sup.registered \cup sup.pendingInit /\ Send(w, Msg("INIT", << >>))
           /\ sup' = [s EXCEPT !.pendingInit = @ \cup {w}] /\ UNCHANGED faults
        \/ /\ w \notin sup.registered \cup sup.pendingInit /\ Spend("send")
           /\ sup' = s /\ UNCHANGED toWorker
  /\ UNCHANGED <<err, merged, workers>>

\* The ACK of INIT registers the worker and catches it up with the current
\* definition; from a worker this definition did not send INIT to, it is
\* ignored.  Nobody looks at the results of the catch-up's sends: when one
\* fails, the worker is served all the same.
ReceiveInitAck_NoCatchup(w) ==
  /\ Got(w, "ACK") /\ Head(toSup[w]).ids = << >> /\ pc' = "top"
  /\ sup' = IF w \in sup.pendingInit
            THEN [Join(sup, w) EXCEPT !.pendingInit = @ \ {w}] ELSE sup
  /\ UNCHANGED <<toWorker, err, merged, workers, faults>>

ReceiveInitAck(w) ==
  /\ Got(w, "ACK") /\ Head(toSup[w]).ids = << >> /\ pc' = "top"
  /\ IF w \in sup.pendingInit
     THEN /\ \/ Send(w, SetDef(sup.def)) /\ UNCHANGED faults
             \/ Spend("catchup") /\ UNCHANGED toWorker
          /\ sup' = [Join(sup, w) EXCEPT !.pendingInit = @ \ {w}]
     ELSE UNCHANGED <<sup, toWorker, faults>>
  /\ UNCHANGED <<err, merged, workers>>

ReceiveShutdown(w) ==
  /\ Got(w, "SHUTDOWN")
  /\ IF Head(toSup[w]).reason = "stop"
     THEN pc' = "top" /\ UNCHANGED <<sup, err>>
     ELSE /\ sup' = HandleWorkerFailure(sup, w)
          /\ IF ~IsTcp /\ sup'.vec = << >> THEN Throw("noWorkers") ELSE pc' = "top" /\ UNCHANGED err
  /\ UNCHANGED <<toWorker, merged, workers, faults>>

ReceiveDone(w) ==
  /\ Got(w, "DONE") /\ pc' = "top"
  /\ sup' = [sup EXCEPT !.earlyDone = @ \cup ({w} \cap sup.registered)]
  /\ UNCHANGED <<toWorker, err, merged, workers, faults>>

\* The tasks of an acknowledgement that the worker owns at this moment.
Owned(s, w, ids) == {t \in Range(ids) : M!GetTaskWorker(s.mgr, t) = w}

Settle_GhostMessage(s, w, own, n) ==
  [s EXCEPT !.mgr = M!MarkAllDone(@, own),
            !.counts[w] = @ + Cardinality(own), !.acked = @ + Cardinality(own),
            !.outstanding = @ - Cardinality(own), !.inFlight[w] = Max({0, @ - n})]

\* n messages of w, with the tasks in own, are off the books.
Settle(s, w, own, n) ==
  [s EXCEPT !.mgr = M!MarkAllDone(@, own),
            !.counts[w] = @ + Cardinality(own), !.acked = @ + Cardinality(own),
            !.outstanding = @ - Cardinality(own),
            !.outstandingMessages = @ - n, !.inFlight[w] = Max({0, @ - n})]

\* ACK or ACKB of a registered worker.  An ACKB is counted as a message
\* whatever it holds, an ACK only when the worker owns the task.
ReceiveAck(w) ==
  /\ (Got(w, "ACK") /\ Head(toSup[w]).ids # << >>) \/ Got(w, "ACKB")
  /\ LET own == Owned(sup, w, Head(toSup[w]).ids)
         n == IF Head(toSup[w]).cmd = "ACKB" \/ own # {} THEN 1 ELSE 0
     IN IF w \notin sup.registered
        THEN pc' = "top" /\ UNCHANGED <<sup, err>>
        ELSE IF n > sup.outstandingMessages \/ Cardinality(own) > sup.outstanding
        THEN Throw("underflow") /\ UNCHANGED sup
        ELSE sup' = Settle(sup, w, own, n) /\ pc' = "top" /\ UNCHANGED err
  /\ UNCHANGED <<toWorker, merged, workers, faults>>

ReceiveErr(w) ==
  /\ Got(w, "ERR") /\ Throw("worker")
  /\ UNCHANGED <<sup, toWorker, merged, workers, faults>>

Receive(w) ==
  ReceiveReady(w) \/ ReceiveInitAck(w) \/ ReceiveShutdown(w) \/ ReceiveDone(w)
  \/ ReceiveAck(w) \/ ReceiveErr(w)

\* The receive times out (EAGAIN): nothing has arrived, though messages may
\* be on their way.
NothingReceived ==
  Step("receive", "idle") /\ UNCHANGED <<sup, err, merged, channels, workers, faults>>

\* waitpid reports the exit of a forked child, in index order.
Exited == IF IsTcp THEN {} ELSE {w \in Worker \ sup.reaped : Gone(w)}

ChildExited ==
  /\ pc = "idle" /\ Exited # {}
  /\ LET w == CHOOSE v \in Exited : \A u \in Exited : v <= u
     IN sup' = [HandleWorkerFailure(sup, w) EXCEPT !.reaped = @ \cup {w}]
  /\ IF sup'.vec = << >> THEN Throw("noWorkers") ELSE UNCHANGED <<pc, err>>
  /\ UNCHANGED <<merged, channels, workers, faults>>

\* No progress for NDMSPC_IPC_STALL_TIMEOUT seconds: sooner or later when no
\* message is under way, otherwise only as a fault.
Quiet == \A w \in Worker : toSup[w] = << >> /\ (toWorker[w] = << >> \/ Gone(w))

Stall ==
  /\ pc = "idle" /\ err = "none" /\ Exited = {} /\ sup.outstanding > 0 /\ Throw("stall")
  /\ IF Quiet THEN UNCHANGED faults ELSE Spend("stall")
  /\ UNCHANGED <<sup, merged, channels, workers>>

IdleDone ==
  /\ Step("idle", "top") /\ Exited = {}
  /\ UNCHANGED <<sup, err, merged, channels, workers, faults>>

-----------------------------------------------------------------------------
(* FinishProcessIpc, and the merge *)

SendStop_RegisteredOnly ==
  /\ pc = "throw" \/ (pc = "define" /\ sup.def = Len(TasksOf))
  /\ LET abort == pc = "throw"
     IN /\ SendAll(sup.registered, Stop(abort))
        /\ pc' = IF ~IsTcp THEN "waitChildren" ELSE IF abort THEN "failed" ELSE "waitDone"
  /\ sup' = [sup EXCEPT !.doneWorkers = sup.earlyDone \cap sup.registered, !.shutdownWorkers = {}]
  /\ UNCHANGED <<toSup, err, merged, workers, faults>>

\* STOP to every registered worker and to every worker seen, more than once;
\* a worker reads one of them.
SendStop ==
  /\ pc = "throw" \/ (pc = "define" /\ sup.def = Len(TasksOf))
  /\ LET abort == pc = "throw"
     IN /\ SendAll(sup.registered \cup sup.seen, Stop(abort))
        /\ pc' = IF ~IsTcp THEN "waitChildren" ELSE IF abort THEN "failed" ELSE "waitDone"
  /\ sup' = [sup EXCEPT !.doneWorkers = sup.earlyDone \cap sup.registered, !.shutdownWorkers = {}]
  /\ UNCHANGED <<toSup, err, merged, workers, faults>>

\* WaitForChildProcesses, then CleanupChildProcesses for those that did not
\* exit in time.
WaitChildren ==
  /\ pc = "waitChildren" /\ pc' = IF err = "none" THEN "merge" ELSE "failed"
  /\ \/ (\A w \in Worker : Gone(w)) /\ UNCHANGED <<wpc, faults>>
     \/ /\ Spend("slow")
        /\ wpc' = [w \in Worker |-> IF Gone(w) THEN wpc[w] ELSE "dead"]
  /\ UNCHANGED <<sup, err, merged, channels, wdef, mem, file>>

FinishReceive(w) ==
  /\ pc = "waitDone" /\ Takes(w)
  /\ LET m == Head(toSup[w])
         by == {w} \cap sup.registered
     IN /\ sup' = [sup EXCEPT !.doneWorkers = IF m.cmd = "DONE" THEN @ \cup by ELSE @,
                              !.shutdownWorkers = IF m.cmd = "SHUTDOWN" THEN @ \cup by ELSE @]
        /\ IF m.cmd = "READY" THEN Send(w, Stop(FALSE)) ELSE UNCHANGED toWorker
  /\ UNCHANGED <<pc, err, merged, workers, faults>>

FinishDone ==
  /\ Step("waitDone", "merge")
  /\ sup.doneWorkers = sup.registered /\ sup.shutdownWorkers = sup.registered
  /\ UNCHANGED <<sup, err, merged, channels, workers, faults>>

\* The DONE deadline: the session closes and NGnTree::Process fails.
FinishTimeout ==
  /\ Step("waitDone", "failed")
  /\ \E w \in sup.registered \ (sup.doneWorkers \cap sup.shutdownWorkers) : Expires("done", w)
  /\ err' = "doneTimeout"
  /\ UNCHANGED <<sup, merged, channels, workers>>

\* The workers whose file is put on the merge list.
Mergeable ==
  {w \in Worker : /\ IsTcp /\ sup.doneWorkers # {} => w \in sup.doneWorkers
                  /\ sup.nProcessed[w] # 0}

\* A file that cannot be opened is skipped with an error message.
Merge ==
  /\ pc = "merge"
  /\ LET opened == {w \in Mergeable : file[w] # NoFile}
     IN IF opened = {}
        THEN pc' = "failed" /\ err' = "nothingMerged" /\ UNCHANGED merged
        ELSE /\ merged' = [e \in Entries |-> Cardinality({w \in opened : e \in file[w]})]
             /\ pc' = "merged" /\ UNCHANGED err
  /\ UNCHANGED <<sup, channels, workers, faults>>

-----------------------------------------------------------------------------
StartStep == (\E w \in Worker : StartReady(w) \/ StartTcp(w) \/ StartDrops(w) \/ InitReceive(w)) \/ StartDone

LoopStep ==
  StartDefinition \/ LoopTop \/ LoopFails \/ LoopEnd \/ Dispatch \/ DispatchDone \/ Cleanup \/ NothingReceived
  \/ ChildExited \/ IdleDone

FinishStep == SendStop \/ WaitChildren \/ (\E w \in Worker : FinishReceive(w)) \/ FinishDone \/ Merge

SupervisorStep == StartStep \/ LoopStep \/ FinishStep

Deadline ==
  InitTimeout \/ StartTimeout \/ GraceExpires \/ (\E w \in Worker : InactiveTcpWorker(w)) \/ Stall \/ FinishTimeout

=============================================================================
