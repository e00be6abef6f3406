----------------------- MODULE NDimensionalIpcRunner -----------------------
(***************************************************************************)
(* The worker processes of an IPC/TCP session: WorkerLoop and TaskLoop of  *)
(* core/NDimensionalIpcRunner.cxx and, for a TCP worker, the INIT handshake*)
(* of NGnTree::Process in worker mode.                                     *)
(*                                                                         *)
(* A worker talks to the supervisor over one ZeroMQ connection: toWorker   *)
(* and toSup hold, in order, the messages sent and not yet received.  An   *)
(* entry is a pair <<definition, task>>: SETDEF/SETIDS (sent back to back  *)
(* and modelled as one message) tell the worker which ids the task         *)
(* numbers of TASK and TASKB index.                                        *)
(*                                                                         *)
(* What the environment may do at a worker's expense (a kill, a signal, a  *)
(* failing send, a frame dropped by ZMQ_LINGER=0, a failing copy) are      *)
(* faults: a behaviour holds at most MaxFaults of the kinds in Faults.     *)
(***************************************************************************)
EXTENDS Integers, Sequences, FiniteSetsExt

CONSTANTS Worker,     \* worker indices; BuildWorkerIdentity is one to one
          IsTcp,      \* TCP workers that join, or forked IPC children
          OwnDef,     \* the definition a worker's own binning starts with (0: another)
          Faults,     \* the kinds of fault that may happen
          MaxFaults,  \* bound on their number in a behaviour
          NoFile      \* no results file

ASSUME RunnerConstants ==
  /\ Worker \subseteq Nat /\ Worker # {} /\ IsFiniteSet(Worker)
  /\ IsTcp \in BOOLEAN /\ MaxFaults \in Nat /\ OwnDef \in Nat

VARIABLES toWorker, toSup,  \* the connection, per worker and direction
          wpc,              \* control state of the worker
          wdef,             \* its current definition
          mem,              \* what it has processed, by definition and task
          file,             \* entries in its results file, NoFile before it is saved
          faults            \* faults so far

channels == <<toWorker, toSup>>
workers == <<wpc, wdef, mem, file>>

Msg(cmd, ids) == [cmd |-> cmd, ids |-> ids]
SetDef(d) == [cmd |-> "SETDEF", def |-> d]
Stop(abort) == [cmd |-> "STOP", abort |-> abort]
Shutdown(reason) == [cmd |-> "SHUTDOWN", reason |-> reason]

RunnerInit ==
  /\ toWorker = [w \in Worker |-> << >>] /\ toSup = [w \in Worker |-> << >>]
  /\ wpc = [w \in Worker |-> "off"] /\ wdef = [w \in Worker |-> OwnDef]
  /\ mem = [w \in Worker |-> {}] /\ file = [w \in Worker |-> NoFile]
  /\ faults = 0

-----------------------------------------------------------------------------
Spend(kind) == kind \in Faults /\ faults < MaxFaults /\ faults' = faults + 1

Gone(w) == wpc[w] \in {"exited", "dead"}

\* Nothing will ever come from w again.
Silent(w) == Gone(w) /\ toSup[w] = << >>

\* A deadline on w passes: sooner or later when w is silent, otherwise only as
\* a fault.
Expires(kind, w) == IF Silent(w) THEN UNCHANGED faults ELSE Spend(kind)

\* What may be left of s once its tail is dropped.
Prefixes(s) == {SubSeq(s, 1, n) : n \in 0..Len(s)}

Reply(w, msgs) == toSup' = [toSup EXCEPT ![w] = @ \o msgs]

Receives(w, cmd) ==
  /\ toWorker[w] # << >> /\ Head(toWorker[w]).cmd = cmd
  /\ toWorker' = [toWorker EXCEPT ![w] = Tail(@)]

Goes(w, to) == wpc' = [wpc EXCEPT ![w] = to]

\* worker->Process for every task of ids; an entry seen before is skipped.  A
\* worker that was not told the definition indexes the ids of its own.
Process(w, ids) == mem' = [mem EXCEPT ![w] = @ \cup {<<wdef[w], t>> : t \in Range(ids)}]

-----------------------------------------------------------------------------
(* Joining *)

\* Connect and announce: a forked child goes straight to its task loop.
Connect(w) ==
  /\ wpc[w] = "off" /\ Goes(w, IF IsTcp THEN "waitInit" ELSE "loop")
  /\ Reply(w, <<Msg("READY", << >>)>>)
  /\ UNCHANGED <<toWorker, wdef, mem, file, faults>>

ReceiveInit(w) ==
  /\ wpc[w] = "waitInit" /\ Receives(w, "INIT")
  /\ Goes(w, "loop") /\ Reply(w, <<Msg("ACK", << >>)>>)
  /\ UNCHANGED <<wdef, mem, file, faults>>

\* STOP before INIT: the session is already over.
StopBeforeInit(w) ==
  /\ wpc[w] = "waitInit" /\ Receives(w, "STOP") /\ Goes(w, "exited")
  /\ UNCHANGED <<toSup, wdef, mem, file, faults>>

\* The 30 s deadline for INIT passes: it does once the session is over.
GiveUpInit(w, over) ==
  /\ wpc[w] = "waitInit" /\ toWorker[w] = << >> /\ Goes(w, "exited")
  /\ IF over THEN UNCHANGED faults ELSE Spend("init")
  /\ UNCHANGED <<channels, wdef, mem, file>>

-----------------------------------------------------------------------------
(* TaskLoop *)

ReceiveSetDef(w) ==
  /\ wpc[w] = "loop" /\ Receives(w, "SETDEF")
  /\ wdef' = [wdef EXCEPT ![w] = Head(toWorker[w]).def]
  /\ UNCHANGED <<toSup, wpc, mem, file, faults>>

ReceiveTask_AckFirst(w) ==
  /\ wpc[w] = "loop" /\ Receives(w, "TASK")
  /\ Reply(w, <<Msg("ACK", Head(toWorker[w]).ids)>>)
  /\ UNCHANGED <<workers, faults>>

ReceiveTask(w) ==
  /\ wpc[w] = "loop" /\ Receives(w, "TASK")
  /\ Process(w, Head(toWorker[w]).ids)
  /\ Reply(w, <<Msg("ACK", Head(toWorker[w]).ids)>>)
  /\ UNCHANGED <<wpc, wdef, file, faults>>

ReceiveBatch(w) ==
  /\ wpc[w] = "loop" /\ Receives(w, "TASKB")
  /\ Process(w, Head(toWorker[w]).ids)
  /\ Reply(w, <<Msg("ACKB", Head(toWorker[w]).ids)>>)
  /\ UNCHANGED <<wpc, wdef, file, faults>>

\* Process throws: ERR, and the worker leaves its loop the normal way.  The
\* tasks of the batch before the failing one stay processed.
TaskThrows(w) ==
  /\ wpc[w] = "loop" /\ Spend("error")
  /\ Receives(w, "TASK") \/ Receives(w, "TASKB")
  /\ \E k \in 1..Len(Head(toWorker[w]).ids) :
       LET ids == Head(toWorker[w]).ids
       IN Process(w, SubSeq(ids, 1, k - 1)) /\ Reply(w, <<Msg("ERR", <<ids[k]>>)>>)
  /\ Goes(w, "closing")
  /\ UNCHANGED <<wdef, file>>

\* The acknowledgement cannot be sent: the worker leaves its loop the normal
\* way, without a SHUTDOWN.
AckFails(w) ==
  /\ wpc[w] = "loop" /\ Spend("ack") /\ Goes(w, "closing")
  /\ Receives(w, "TASK") \/ Receives(w, "TASKB")
  /\ Process(w, Head(toWorker[w]).ids)
  /\ UNCHANGED <<toSup, wdef, file>>

ReceiveStop_NoBreak(w) ==
  /\ wpc[w] = "loop" /\ Receives(w, "STOP") /\ Reply(w, <<Shutdown("stop")>>)
  /\ UNCHANGED <<workers, faults>>

ReceiveStop(w) ==
  /\ wpc[w] = "loop" /\ Receives(w, "STOP")
  /\ IF Head(toWorker[w]).abort
     THEN Goes(w, "closed") /\ Reply(w, <<Shutdown("abort")>>)
     ELSE Goes(w, "closing") /\ Reply(w, <<Shutdown("stop")>>)
  /\ UNCHANGED <<wdef, mem, file, faults>>

\* checkAbort, called before each task of a batch, reads ahead one frame: its
\* i-th call sees the i-th frame behind the batch.  A STOP among them ends the
\* batch after k tasks; what was read before the STOP is never handled.
StopInsideBatch(w) ==
  /\ wpc[w] = "loop" /\ Receives(w, "TASKB")
  /\ LET ids == Head(toWorker[w]).ids
         rest == Tail(toWorker[w])
     IN \E p \in 1..Len(rest) : \E k \in (p - 1)..(Len(ids) - 1) :
          LET part == SubSeq(ids, 1, k)
              acks == IF k = 0 THEN << >> ELSE <<Msg("ACKB", part)>>
          IN /\ rest[p].cmd = "STOP" /\ \A q \in 1..(p - 1) : rest[q].cmd # "STOP"
             /\ Process(w, part)
             /\ Goes(w, IF rest[p].abort THEN "closed" ELSE "closing")
             /\ Reply(w, <<Shutdown(IF rest[p].abort THEN "abort" ELSE "stop")>> \o acks)
  /\ UNCHANGED <<wdef, file, faults>>

\* SIGINT or SIGTERM: SHUTDOWN, and nothing is saved.  Inside a batch the
\* finished part is still acknowledged, after the SHUTDOWN.
Interrupt(w) ==
  /\ wpc[w] = "loop" /\ Spend("interrupt") /\ Goes(w, "closed")
  /\ \/ Reply(w, <<Shutdown("interrupted")>>) /\ UNCHANGED <<toWorker, mem>>
     \/ /\ Receives(w, "TASKB")
        /\ \E k \in 1..(Len(Head(toWorker[w]).ids) - 1) :
             LET part == SubSeq(Head(toWorker[w]).ids, 1, k)
             IN Process(w, part) /\ Reply(w, <<Shutdown("interrupted"), Msg("ACKB", part)>>)
  /\ UNCHANGED <<wdef, file>>

\* Save, copy to the results directory, report DONE and close the socket.  A
\* copy that fails is only logged; the local file is removed all the same.
CloseFile_DoneFirst(w) ==
  /\ wpc[w] = "closing" /\ Goes(w, "closed") /\ Reply(w, <<Msg("DONE", << >>)>>)
  /\ UNCHANGED <<toWorker, wdef, mem, file, faults>>

CloseFile(w) ==
  /\ wpc[w] = "closing" /\ Goes(w, "closed")
  /\ \/ file' = [file EXCEPT ![w] = mem[w]] /\ UNCHANGED faults
     \/ IsTcp /\ Spend("copy") /\ UNCHANGED file
  /\ Reply(w, <<Msg("DONE", << >>)>>)
  /\ UNCHANGED <<toWorker, wdef, mem>>

\* zmq_close with ZMQ_LINGER=0 drops what is not yet on the wire.
Exit(w) ==
  /\ wpc[w] = "closed" /\ Goes(w, "exited")
  /\ \/ UNCHANGED <<toSup, faults>>
     \/ Spend("linger") /\ \E rest \in Prefixes(toSup[w]) : toSup' = [toSup EXCEPT ![w] = rest]
  /\ UNCHANGED <<toWorker, wdef, mem, file>>

\* The process is killed: memory and unsent frames are gone.
Crash(w) ==
  /\ wpc[w] \notin {"off", "exited", "dead"} /\ Spend("crash") /\ Goes(w, "dead")
  /\ \E rest \in Prefixes(toSup[w]) : toSup' = [toSup EXCEPT ![w] = rest]
  /\ UNCHANGED <<toWorker, wdef, mem, file>>

WorkerStep(w) ==
  \/ Connect(w) \/ ReceiveInit(w) \/ StopBeforeInit(w) \/ ReceiveSetDef(w) \/ ReceiveTask(w)
  \/ ReceiveBatch(w) \/ ReceiveStop(w) \/ StopInsideBatch(w) \/ CloseFile(w) \/ Exit(w)

WorkerFault(w) == TaskThrows(w) \/ AckFails(w) \/ Interrupt(w) \/ Crash(w)
=============================================================================
