----------------------------- MODULE NWsHandler -----------------------------
(***************************************************************************)
(* The server's side of a WebSocket session: NWsHandler (http/NWsHandler)  *)
(* and the heartbeat thread of NHttpServer (http/NHttpServer).             *)
(*                                                                         *)
(* The server's main thread handles the WS_READY, WS_DATA and WS_CLOSE     *)
(* events of every connection in the order they arrive (events).  The      *)
(* connections are the browsers in Peer and the successive connections of  *)
(* one NWsClient, numbered from 1; live is the open one, 0 when there is   *)
(* none, and down holds what was sent to it and has not arrived.  What is  *)
(* sent to a connection that is gone is lost.  The text of a message and   *)
(* the statistics of a heartbeat are left out.                             *)
(***************************************************************************)
EXTENDS Naturals, Sequences, FiniteSets

CONSTANTS Peer,           \* other connections of the server
          MaxConnections, \* bound on the connections of the client
          MaxMessages,    \* bound on the messages the client sends
          MaxEvents       \* bound on what peers, heartbeats and settings do

ASSUME HandlerConstants ==
  /\ IsFiniteSet(Peer) /\ Peer \cap (0..MaxConnections) = {}
  /\ MaxConnections \in Nat /\ MaxMessages \in Nat /\ MaxEvents \in Nat

VARIABLES events,   \* WS events the main thread has still to handle
          fClients, \* ids of the registered connections
          live,     \* the client's open connection, 0 if none
          down,     \* messages on their way to it
          relayed,  \* messages of the client, in the order the server handled them
          budget,   \* what is left of MaxEvents
          beat,     \* heartbeat thread: off, waiting, beating
          running,  \* fHeartbeatRunning
          setting   \* SetHeartbeatMs in progress: "no", or the new interval

handlerVars == <<events, fClients, live, down, relayed, budget, beat, running, setting>>

Conns == Peer \cup (1..MaxConnections)
Message == [id : 1..MaxMessages, conn : 1..MaxConnections]

Roster(S) == [type |-> "clients", users |-> S]
Note(t) == [type |-> t, users |-> {}]
Down == [type : {"welcome", "joined", "goodbye", "data", "heartbeat"}, users : {{}}]
          \cup [type : {"clients"}, users : SUBSET Conns]

Event(t, c, m) == [type |-> t, conn |-> c, msg |-> m]
NoMessage == [id |-> 0, conn |-> 0]

HandlerInit ==
  /\ events = << >> /\ fClients = {} /\ live = 0 /\ down = << >> /\ relayed = << >>
  /\ budget = MaxEvents /\ beat = "waiting" /\ running = TRUE /\ setting = "no"

-----------------------------------------------------------------------------
(* ProcessWS *)

\* SendCharStarWS to the connections in S, as far as the client sees it.
SendTo(S, msgs) == down' = IF live \in S THEN down \o msgs ELSE down

Handles(t) == events # << >> /\ Head(events).type = t /\ events' = Tail(events)

WsReady ==
  /\ Handles("WS_READY")
  /\ LET c == Head(events).conn
         all == fClients \cup {c}
     IN /\ fClients' = all
        /\ SendTo(all, <<Note(IF c = live THEN "welcome" ELSE "joined"), Roster(all)>>)
  /\ UNCHANGED <<live, relayed, budget, beat, running, setting>>

WsClose_NoRoster ==
  /\ Handles("WS_CLOSE")
  /\ fClients' = fClients \ {Head(events).conn}
  /\ SendTo(fClients', <<Note("goodbye")>>)
  /\ UNCHANGED <<live, relayed, budget, beat, running, setting>>

WsClose ==
  /\ Handles("WS_CLOSE")
  /\ fClients' = fClients \ {Head(events).conn}
  /\ SendTo(fClients', <<Note("goodbye"), Roster(fClients')>>)
  /\ UNCHANGED <<live, relayed, budget, beat, running, setting>>

\* A message goes to every client but its sender.
WsData ==
  /\ Handles("WS_DATA")
  /\ LET c == Head(events).conn
     IN /\ SendTo(fClients \ {c}, <<Note("data")>>)
        /\ relayed' = IF c \notin Peer THEN Append(relayed, Head(events).msg) ELSE relayed
  /\ UNCHANGED <<fClients, live, budget, beat, running, setting>>

-----------------------------------------------------------------------------
(* The peers, and the broadcasts of the HTTP side *)

Spends == budget > 0 /\ budget' = budget - 1

\* A browser connects, sends or leaves.
PeerDoes(p) ==
  /\ Spends
  /\ \E t \in {"WS_READY", "WS_DATA", "WS_CLOSE"} :
       /\ (t = "WS_READY") <=> (p \notin fClients)
       /\ \A i \in DOMAIN events : events[i].conn # p
       /\ events' = Append(events, Event(t, p, NoMessage))
  /\ UNCHANGED <<fClients, live, down, relayed, beat, running, setting>>

\* NHttpServer::WebSocketBroadcast, in the main thread.
WebSocketBroadcast ==
  /\ Spends /\ SendTo(fClients, <<Note("data")>>)
  /\ UNCHANGED <<events, fClients, live, relayed, beat, running, setting>>

-----------------------------------------------------------------------------
(* The heartbeat thread *)

\* The interval passes: HandleTimer will run.  Stopping only cuts the wait
\* short, so that a stop request that is not noticed waits for one interval.
HeartbeatWakes ==
  /\ beat = "waiting" /\ (running => Spends) /\ (~running => UNCHANGED budget)
  /\ beat' = IF running THEN "beating" ELSE "off"
  /\ UNCHANGED <<events, fClients, live, down, relayed, running, setting>>

HandleTimer ==
  /\ beat = "beating" /\ SendTo(fClients, <<Note("heartbeat")>>)
  /\ beat' = IF running THEN "waiting" ELSE "off"
  /\ UNCHANGED <<events, fClients, live, relayed, budget, running, setting>>

\* SetHeartbeatMs: stop the thread, wait for its end, start a new one if the
\* interval is positive.
SetHeartbeatMs_Stop(ms) ==
  /\ Spends /\ setting = "no" /\ setting' = ms
  /\ running' = (running /\ beat = "off")
  /\ UNCHANGED <<events, fClients, live, down, relayed, beat>>

SetHeartbeatMs_Start ==
  /\ setting # "no" /\ beat = "off" /\ setting' = "no"
  /\ running' = (setting = "on") /\ beat' = IF setting = "on" THEN "waiting" ELSE "off"
  /\ UNCHANGED <<events, fClients, live, down, relayed, budget>>

\* The main thread is inside SetHeartbeatMs while setting # "no".
MainThread ==
  /\ setting = "no"
  /\ \/ WsReady \/ WsClose \/ WsData \/ WebSocketBroadcast
     \/ \E ms \in {"on", "off"} : SetHeartbeatMs_Stop(ms)

HandlerNext ==
  \/ MainThread \/ SetHeartbeatMs_Start
  \/ HeartbeatWakes \/ HandleTimer
  \/ \E p \in Peer : PeerDoes(p)

HandlerTypeOK ==
  /\ events \in Seq([type : {"WS_READY", "WS_DATA", "WS_CLOSE"}, conn : Conns,
                     msg : Message \cup {NoMessage}])
  /\ fClients \subseteq Conns /\ live \in 0..MaxConnections
  /\ down \in Seq(Down) /\ relayed \in Seq(Message)
  /\ budget \in 0..MaxEvents /\ beat \in {"off", "waiting", "beating"}
  /\ running \in BOOLEAN /\ setting \in {"no", "on", "off"}
=============================================================================
