-------------------------- MODULE WebSocketSession --------------------------
(***************************************************************************)
(* One NWsClient and the WebSocket side of the server it connects to.      *)
(***************************************************************************)
EXTENDS NWsClient

vars == <<handlerVars, clientVars>>

Init == HandlerInit /\ ClientInit

Next ==
  \/ HandlerNext /\ UNCHANGED clientVars
  \/ \E f \in {"Connect", "Disconnect", "Send"} : Call(f)
  \/ CallerStep \/ ServiceStep \/ ReceiveFragment \/ LinkLost

\* Both threads of the client run, libwebsockets reports what happens to its
\* connections, and the server's threads run.  Nothing makes a fault happen.
Fairness ==
  /\ WF_vars(CallerStep) /\ WF_vars(ServiceProgress)
  /\ WF_vars((WsReady \/ WsClose \/ WsData) /\ setting = "no" /\ UNCHANGED clientVars)
  /\ WF_vars((HeartbeatWakes \/ HandleTimer \/ SetHeartbeatMs_Start) /\ UNCHANGED clientVars)

Spec == Init /\ [][Next]_vars /\ Fairness

-----------------------------------------------------------------------------
(* Properties *)

TypeOK == HandlerTypeOK /\ ClientTypeOK

\* A message of the client that the server has still to handle.
IsData(e) == e.type = "WS_DATA" /\ e.conn \notin Peer

\* The server handles the client's messages in the order of the Send calls,
\* none twice, and each on the connection it was sent for: what was queued for
\* a connection that ended never reaches the next one (NWsClient.cxx:107, 284).
InOrder ==
  /\ \A i, j \in DOMAIN relayed : i < j => relayed[i].id < relayed[j].id
  /\ \A i \in DOMAIN relayed, j \in DOMAIN events :
       IsData(events[j]) => relayed[i].id < events[j].msg.id
  /\ \A i, j \in DOMAIN events :
       IsData(events[i]) /\ IsData(events[j]) /\ i < j => events[i].msg.id < events[j].msg.id
  /\ \A i \in DOMAIN events : IsData(events[i]) => events[i].conn = events[i].msg.conn

\* A message that Send accepted is still queued or on its way to the server,
\* however soon Disconnect follows, unless its connection broke, a write
\* failed, or it came too late for a connection already reported closed.
NothingLost ==
  \A m \in accepted :
    \/ m.conn \in faulty
    \/ \E i \in DOMAIN fOutgoingMessageQueue : fOutgoingMessageQueue[i] = m
    \/ \E i \in DOMAIN events : events[i].msg = m
    \/ \E i \in DOMAIN relayed : relayed[i] = m

\* A client that has received everything sent to it knows exactly who is
\* connected, whoever came and went while it joined; the exception is a
\* message spoilt by the fragments an earlier connection left behind.
RosterAgrees == live \in fClients /\ down = << >> => view \in {fClients, Garbled}

\* The two ways a call may never return: a message pushed after the callbacks
\* emptied the queue or the service thread stopped, which Disconnect waits for
\* (NWsClient.cxx:264), and a notification that falls between the test and the
\* wait of Connect (NWsClient.cxx:237).  A crash ends the program.
Stranded == fOutgoingMessageQueue # << >> /\ (~fWsi \/ svc # "run")
MissedWakeup == at = "blocked" /\ fConnectionAttemptComplete

\* Apart from those two, every Connect, Send and Disconnect returns, whatever
\* the network does meanwhile.
CallsReturn == []<>(at \in {"idle", "crashed"} \/ Stranded \/ MissedWakeup)
=============================================================================
