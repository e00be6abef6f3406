---------------------------- MODULE TcpBootstrap ----------------------------
(***************************************************************************)
(* How a TCP worker gets its index and joins a session: main of            *)
(* core/cli/ndmspc-worker.cxx, the worker branch of NGnTree::Process, and  *)
(* the supervisor's StartProcessIpc, InitTcpWorker, HandleBootstrap, the   *)
(* late join of its dispatch loop and the end in FinishProcessIpc.         *)
(*                                                                         *)
(* A member of Proc is one life of a worker process: a restart is another  *)
(* member.  It bootstraps under an identity of its own and serves as       *)
(* wk_<index>, written here as the index.  The ROUTER socket keeps one     *)
(* peer for an identity (owner): a second one is refused as long as the    *)
(* first is not seen to be gone, and what is sent to an identity without   *)
(* a peer is dropped.  Tasks and definitions are in NDimensionalExecutor.  *)
(***************************************************************************)
EXTENDS Naturals, Sequences, FiniteSets

CONSTANTS Proc,
          Given,        \* the index a process is started with, or NoIndex
          MaxWorkers,   \* fIpcSession->maxWorkers
          ReadyTarget,  \* 1, or all with NDMSPC_TCP_WAIT_ALL_WORKERS
          NoIndex, NoProc,
          MaxFaults     \* bound on crashes and early deadlines

Idx == 0..MaxWorkers    \* MaxWorkers stands for every index that is too large

ASSUME BootstrapAssumption ==
  /\ MaxWorkers \in Nat \ {0} /\ ReadyTarget \in 1..MaxWorkers /\ MaxFaults \in Nat
  /\ NoIndex \notin Idx /\ NoProc \notin Proc
  /\ Given \in [Proc -> Idx \cup {NoIndex}]

VARIABLES ppc,      \* control state of a process, "gone" however it ended
          index,    \* its workerIndex
          owner,    \* the peer the router has for wk_<i>
          toSup, toProc,
          spc,      \* control state of the supervisor
          initing,  \* the identity InitTcpWorker waits for
          bootstrapNextIdx, bootstrapAssignments,
          registered, pendingReady, pendingInit, seen,
          faults

procVars == <<ppc, index>>
net == <<owner, toSup, toProc>>
boot == <<bootstrapNextIdx, bootstrapAssignments>>
roster == <<registered, pendingReady, pendingInit, seen>>
vars == <<procVars, net, spc, initing, boot, roster, faults>>

Init ==
  /\ ppc = [p \in Proc |-> "off"] /\ index = Given
  /\ owner = [i \in Idx |-> NoProc]
  /\ toSup = [p \in Proc |-> << >>] /\ toProc = [p \in Proc |-> << >>]
  /\ spc = "start" /\ initing = NoIndex
  /\ bootstrapNextIdx = 0 /\ bootstrapAssignments = [p \in Proc |-> NoIndex]
  /\ registered = {} /\ pendingReady = << >> /\ pendingInit = {} /\ seen = {}
  /\ faults = 0

Live == {"boot", "macro", "ready", "serving"}

Gone(p) == ppc[p] \notin Live

\* A process ends, and what is on its way to it is lost.
Ends(p) ==
  ppc' = [ppc EXCEPT ![p] = "gone"] /\ toProc' = [toProc EXCEPT ![p] = << >>]

Fault == faults < MaxFaults /\ faults' = faults + 1

\* To the peers of the identities in ids, when they have one.
Sent(ids, m) ==
  [p \in Proc |-> IF ~Gone(p) /\ index[p] \in ids /\ owner[index[p]] = p
                  THEN Append(toProc[p], m) ELSE toProc[p]]

Reply(p, m) == [toProc EXCEPT ![p] = IF Gone(p) THEN @ ELSE Append(@, m)]

-----------------------------------------------------------------------------
(* The worker process *)

\* A process that was given both its index and the macro does not bootstrap.
Start(p) ==
  /\ ppc[p] = "off"
  /\ \/ ppc' = [ppc EXCEPT ![p] = "boot"] /\ toSup' = [toSup EXCEPT ![p] = <<"BOOTSTRAP">>]
     \/ Given[p] # NoIndex /\ ppc' = [ppc EXCEPT ![p] = "macro"] /\ UNCHANGED toSup
  /\ UNCHANGED <<index, owner, toProc, spc, initing, boot, roster, faults>>

Hears(p, state, m) == ppc[p] = state /\ toProc[p] # << >> /\ Head(toProc[p]) = m

Read(p) == [toProc EXCEPT ![p] = Tail(@)]

\* An index given on the command line wins over the assigned one.
GetConfig(p) ==
  /\ \E i \in Idx :
       /\ Hears(p, "boot", <<"CONFIG", i>>) /\ toProc' = Read(p)
       /\ index' = [index EXCEPT ![p] = IF @ = NoIndex THEN i ELSE @]
  /\ ppc' = [ppc EXCEPT ![p] = "macro"]
  /\ UNCHANGED <<owner, toSup, spc, initing, boot, roster, faults>>

GetReject(p) ==
  /\ Hears(p, "boot", <<"REJECT">>) /\ Ends(p)
  /\ UNCHANGED <<index, owner, toSup, spc, initing, boot, roster, faults>>

\* The macro calls Process: connect as wk_<index> and announce READY.
Connect(p) ==
  /\ ppc[p] = "macro" /\ ppc' = [ppc EXCEPT ![p] = "ready"]
  /\ IF owner[index[p]] = NoProc
     THEN /\ owner' = [owner EXCEPT ![index[p]] = p]
          /\ toSup' = [toSup EXCEPT ![p] = Append(@, "READY")]
     ELSE UNCHANGED <<owner, toSup>>
  /\ UNCHANGED <<index, toProc, spc, initing, boot, roster, faults>>

\* INIT: the thread data is set up, which may fail, and ACK is sent.
GetInit(p) ==
  /\ Hears(p, "ready", <<"INIT">>)
  /\ \/ /\ ppc' = [ppc EXCEPT ![p] = "serving"] /\ toProc' = Read(p)
        /\ toSup' = [toSup EXCEPT ![p] = Append(@, "ACK")] /\ UNCHANGED faults
     \/ Fault /\ Ends(p) /\ UNCHANGED toSup
  /\ UNCHANGED <<index, owner, spc, initing, boot, roster>>

\* A second INIT means nothing to the task loop.
IgnoreInit(p) ==
  /\ Hears(p, "serving", <<"INIT">>) /\ toProc' = Read(p)
  /\ UNCHANGED <<procVars, owner, toSup, spc, initing, boot, roster, faults>>

GetStop(p) ==
  /\ Hears(p, "ready", <<"STOP">>) \/ Hears(p, "serving", <<"STOP">>)
  /\ Ends(p)
  /\ UNCHANGED <<index, owner, toSup, spc, initing, boot, roster, faults>>

Crash(p) ==
  /\ ~Gone(p) /\ Fault /\ Ends(p)
  /\ UNCHANGED <<index, owner, toSup, spc, initing, boot, roster>>

\* The router sees that its peer is gone.
Disconnect(p) ==
  /\ ppc[p] = "gone" /\ index[p] \in Idx /\ owner[index[p]] = p
  /\ owner' = [owner EXCEPT ![index[p]] = NoProc]
  /\ UNCHANGED <<procVars, toSup, toProc, spc, initing, boot, roster, faults>>

-----------------------------------------------------------------------------
(* The supervisor *)

Takes(p, m) ==
  toSup[p] # << >> /\ Head(toSup[p]) = m /\ toSup' = [toSup EXCEPT ![p] = Tail(@)]

HandleBootstrap_FreeSlot(p) ==
  LET i == Cardinality(registered)
  IN IF i >= MaxWorkers
     THEN toProc' = Reply(p, <<"REJECT">>) /\ UNCHANGED boot
     ELSE /\ toProc' = Reply(p, <<"CONFIG", i>>)
          /\ bootstrapAssignments' = [bootstrapAssignments EXCEPT ![p] = i]
          /\ UNCHANGED bootstrapNextIdx

\* A repeated request gets its index again; a new one the next index, which is
\* never given back, or REJECT.
HandleBootstrap(p) ==
  IF bootstrapAssignments[p] # NoIndex
  THEN toProc' = Reply(p, <<"CONFIG", bootstrapAssignments[p]>>) /\ UNCHANGED boot
  ELSE IF bootstrapNextIdx >= MaxWorkers
  THEN toProc' = Reply(p, <<"REJECT">>) /\ UNCHANGED boot
  ELSE /\ toProc' = Reply(p, <<"CONFIG", bootstrapNextIdx>>)
       /\ bootstrapNextIdx' = bootstrapNextIdx + 1
       /\ bootstrapAssignments' = [bootstrapAssignments EXCEPT ![p] = bootstrapNextIdx]

TakesBootstrap(p) ==
  /\ Takes(p, "BOOTSTRAP") /\ HandleBootstrap(p)
  /\ UNCHANGED <<procVars, owner, spc, initing, roster, faults>>

\* The first half of InitTcpWorker.
InitTcpWorker(i) ==
  IF i >= MaxWorkers \/ i \in registered
  THEN UNCHANGED <<toProc, spc, initing>>
  ELSE toProc' = Sent({i}, <<"INIT">>) /\ spc' = "initWait" /\ initing' = i

Starting == spc = "start" /\ pendingReady = << >> /\ Cardinality(registered) < ReadyTarget

StartReady(p) ==
  /\ Starting /\ Takes(p, "READY") /\ InitTcpWorker(index[p])
  /\ UNCHANGED <<procVars, owner, boot, roster, faults>>

StartDrops(p) ==
  /\ Starting /\ Takes(p, "ACK")
  /\ UNCHANGED <<procVars, owner, toProc, spc, initing, boot, roster, faults>>

\* The READY messages InitTcpWorker kept come first, and all of them are
\* worked off before the session starts.
StartPending ==
  /\ spc = "start" /\ pendingReady # << >>
  /\ InitTcpWorker(Head(pendingReady)) /\ pendingReady' = Tail(pendingReady)
  /\ UNCHANGED <<procVars, owner, toSup, boot, registered, pendingInit, seen, faults>>

StartDone ==
  /\ spc = "start" /\ pendingReady = << >> /\ Cardinality(registered) >= ReadyTarget
  /\ spc' = "run"
  /\ UNCHANGED <<procVars, net, initing, boot, roster, faults>>

\* The deadline is looked at when nothing is to be received.
StartTimeout ==
  /\ Starting /\ (\A p \in Proc : toSup[p] = << >>)
  /\ spc' = "closed"
  /\ UNCHANGED <<procVars, net, initing, boot, roster, faults>>

\* The ACK wait of InitTcpWorker keeps the READY messages of others and
\* answers BOOTSTRAP; the rest is dropped.
InitReady_Drops(p) ==
  /\ spc = "initWait" /\ Takes(p, "READY")
  /\ UNCHANGED <<procVars, owner, toProc, spc, initing, boot, roster, faults>>

InitReady(p) ==
  /\ spc = "initWait" /\ Takes(p, "READY")
  /\ pendingReady' =
       IF \/ index[p] \in registered \cup {initing}
          \/ \E k \in 1..Len(pendingReady) : pendingReady[k] = index[p]
       THEN pendingReady ELSE Append(pendingReady, index[p])
  /\ UNCHANGED <<procVars, owner, toProc, spc, initing, boot, registered, pendingInit, seen, faults>>

InitAck(p) ==
  /\ spc = "initWait" /\ Takes(p, "ACK")
  /\ IF index[p] = initing
     THEN /\ spc' = "start" /\ initing' = NoIndex
          /\ registered' = registered \cup {initing} /\ seen' = seen \cup {initing}
     ELSE UNCHANGED <<spc, initing, registered, seen>>
  /\ UNCHANGED <<procVars, owner, toProc, boot, pendingReady, pendingInit, faults>>

\* Nobody will send the ACK that InitTcpWorker waits for.
Deaf(i) ==
  \A p \in Proc :
    index[p] = i =>
      /\ \A k \in 1..Len(toSup[p]) : toSup[p][k] # "ACK"
      /\ ~(ppc[p] = "ready" /\ toProc[p] # << >> /\ owner[i] = p)

InitTimeout ==
  /\ spc = "initWait" /\ spc' = "start" /\ initing' = NoIndex
  /\ IF Deaf(initing) THEN UNCHANGED faults ELSE Fault
  /\ UNCHANGED <<procVars, net, boot, roster>>

ReceiveBootstrap_NotLate(p) == (Starting \/ spc = "initWait") /\ TakesBootstrap(p)

\* BOOTSTRAP is answered at startup, during an ACK wait and in the loop.
ReceiveBootstrap(p) == (Starting \/ spc \in {"initWait", "run"}) /\ TakesBootstrap(p)

-----------------------------------------------------------------------------
(* The dispatch loop *)

Joining(i) == i \in registered \cup pendingInit

LateReady_Unchecked(p) ==
  /\ spc = "run" /\ Takes(p, "READY") /\ seen' = seen \cup {index[p]}
  /\ IF index[p] \in pendingInit \/ index[p] >= MaxWorkers
     THEN UNCHANGED <<toProc, pendingInit>>
     ELSE toProc' = Sent({index[p]}, <<"INIT">>) /\ pendingInit' = pendingInit \cup {index[p]}
  /\ UNCHANGED <<procVars, owner, spc, initing, boot, registered, pendingReady, faults>>

\* A late worker is sent INIT, and the loop goes on.
LateReady(p) ==
  /\ spc = "run" /\ Takes(p, "READY") /\ seen' = seen \cup {index[p]}
  /\ IF Joining(index[p]) \/ index[p] >= MaxWorkers
     THEN UNCHANGED <<toProc, pendingInit>>
     ELSE toProc' = Sent({index[p]}, <<"INIT">>) /\ pendingInit' = pendingInit \cup {index[p]}
  /\ UNCHANGED <<procVars, owner, spc, initing, boot, registered, pendingReady, faults>>

LateAck(p) ==
  /\ spc = "run" /\ Takes(p, "ACK")
  /\ IF index[p] \in pendingInit
     THEN registered' = registered \cup {index[p]} /\ pendingInit' = pendingInit \ {index[p]}
     ELSE UNCHANGED <<registered, pendingInit>>
  /\ UNCHANGED <<procVars, owner, toProc, spc, initing, boot, pendingReady, seen, faults>>

\* HandleWorkerFailure: a registered worker was silent for too long.
Remove(i) ==
  /\ spc = "run" /\ i \in registered /\ registered' = registered \ {i}
  /\ IF \A p \in Proc : index[p] = i => Gone(p) THEN UNCHANGED faults ELSE Fault
  /\ UNCHANGED <<procVars, net, spc, initing, boot, pendingReady, pendingInit, seen>>

\* pendingInitWorkers is a local of the call for one definition.
NextDefinition ==
  /\ spc = "run" /\ pendingInit' = {}
  /\ UNCHANGED <<procVars, net, spc, initing, boot, registered, pendingReady, seen, faults>>

\* FinishProcessIpc: after an abort nobody waits for the workers.
Finish ==
  /\ spc = "run" /\ spc' \in {"finish", "closed"} /\ toProc' = Sent(registered \cup seen, <<"STOP">>)
  /\ UNCHANGED <<procVars, owner, toSup, initing, boot, roster, faults>>

FinishReceive(p) ==
  /\ spc = "finish"
  /\ \/ Takes(p, "READY") /\ toProc' = Sent({index[p]}, <<"STOP">>)
     \/ Takes(p, "BOOTSTRAP") /\ toProc' = Reply(p, <<"REJECT">>)
     \/ Takes(p, "ACK") /\ UNCHANGED toProc
  /\ UNCHANGED <<procVars, owner, spc, initing, boot, roster, faults>>

Close ==
  /\ spc = "finish" /\ spc' = "closed"
  /\ UNCHANGED <<procVars, net, initing, boot, roster, faults>>

-----------------------------------------------------------------------------
(* Deadlines of the worker *)

\* No other process was started with, or given, the index of p.
Alone(p) == \A q \in Proc \ {p} : ppc[q] = "off" \/ index[q] # index[p]

\* No answer can come any more.
Hopeless(p) ==
  \/ spc = "closed" /\ toProc[p] = << >>
  \/ ppc[p] = "ready" /\ (~Alone(p) \/ index[p] >= MaxWorkers)

\* 300 s for CONFIG, 30 s for INIT: they pass when no answer comes, while the
\* supervisor waits for a worker that is gone, or as a fault.
GiveUp(p) ==
  /\ ppc[p] \in {"boot", "ready"} /\ Ends(p)
  /\ IF Hopeless(p) \/ (spc = "initWait" /\ Deaf(initing)) THEN UNCHANGED faults ELSE Fault
  /\ UNCHANGED <<index, owner, toSup, spc, initing, boot, roster>>

-----------------------------------------------------------------------------
ProcStep(p) ==
  GetConfig(p) \/ GetReject(p) \/ Connect(p) \/ GetInit(p) \/ IgnoreInit(p) \/ GetStop(p)

Startup(p) ==
  ReceiveBootstrap(p) \/ StartReady(p) \/ StartDrops(p) \/ InitReady(p) \/ InitAck(p)

ReceiveFrom(p) == Startup(p) \/ LateReady(p) \/ LateAck(p) \/ FinishReceive(p)

Next ==
  \/ \E p \in Proc : Start(p) \/ ProcStep(p) \/ Crash(p) \/ Disconnect(p) \/ GiveUp(p)
  \/ \E p \in Proc : ReceiveFrom(p)
  \/ StartPending \/ StartDone \/ StartTimeout \/ InitTimeout
  \/ NextDefinition \/ Finish \/ Close
  \/ \E i \in Idx : Remove(i)

\* Processes and supervisor go on, and deadlines pass; the session need not
\* end.  A message that is queued is received: ZeroMQ serves its peers in turn.
Fairness ==
  /\ \A p \in Proc :
       /\ WF_vars(ProcStep(p) \/ (Hopeless(p) /\ GiveUp(p)))
       /\ SF_vars(ReceiveFrom(p))
  /\ WF_vars(StartPending \/ StartDone \/ (Deaf(initing) /\ InitTimeout))

Spec == Init /\ [][Next]_vars /\ Fairness

-----------------------------------------------------------------------------
(* Properties *)

TypeOK ==
  /\ ppc \in [Proc -> Live \cup {"off", "gone"}]
  /\ index \in [Proc -> Idx \cup {NoIndex}] /\ owner \in [Idx -> Proc \cup {NoProc}]
  /\ spc \in {"start", "initWait", "run", "finish", "closed"} /\ initing \in Idx \cup {NoIndex}
  /\ bootstrapNextIdx \in 0..MaxWorkers /\ bootstrapAssignments \in [Proc -> Idx \cup {NoIndex}]
  /\ registered \subseteq Idx /\ pendingInit \subseteq Idx /\ seen \subseteq Idx
  /\ pendingReady \in Seq(Idx) /\ faults \in Nat

\* "already registered, replacing ... shouldn't happen with proper cleanup":
\* the worker whose ACK is awaited, at startup or in the loop, is not
\* registered, also when a process comes back under its old identity.
NeverReplaced == initing \notin registered /\ pendingInit \cap registered = {}

\* Two processes that got their index from the supervisor never have the same
\* one, so a bootstrapped worker is kept out by the router, and its results
\* directory is shared, only through an index given by hand.
IndexIsMine ==
  \A p, q \in Proc :
    p # q /\ Given[p] = NoIndex /\ Given[q] = NoIndex /\ index[p] # NoIndex => index[p] # index[q]

\* A worker that waits for INIT under an index nobody else has or had is not
\* forgotten: its READY or the answer is under way, or its READY is kept for
\* later, whatever arrived during another worker's INIT, and however the
\* definitions changed.
ReadyKept ==
  \A p \in Proc :
    ppc[p] = "ready" /\ Alone(p) /\ index[p] < MaxWorkers /\ spc # "closed" =>
      \/ toSup[p] # << >> \/ toProc[p] # << >>
      \/ \E k \in 1..Len(pendingReady) : pendingReady[k] = index[p]

\* A worker that bootstraps or waits for INIT is answered, or it ends.
Answered == \A p \in Proc : ppc[p] \in {"boot", "ready"} ~> ppc[p] \notin {"boot", "ready"}
=============================================================================
