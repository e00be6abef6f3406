---------------------- MODULE WebSocketSession_proofs -----------------------
(***************************************************************************)
(* The safety of a WebSocket session: the messages of the client arrive in *)
(* order and are not lost, and the roster the client shows is the server's.*)
(*                                                                         *)
(* The inductive invariant follows a message from the queue of the client  *)
(* over the events of the server to the relay, and a roster from the       *)
(* server's list over the connection to the view of the client.            *)
(***************************************************************************)
EXTENDS WebSocketSession, FiniteSetTheorems, TLAPS

-----------------------------------------------------------------------------
(* The inductive invariant *)

\* What the caller may be doing while the client has no context, is still
\* connecting, or waits for its service thread.
Caller ==
  /\ ~fLwsContext => /\ ~fWsi /\ svc = "none" /\ link = "none"
                     /\ at \notin {"pushing", "ask", "join"}
                     /\ fOutgoingMessageQueue = << >>
  /\ fLwsContext => conn >= 1
  /\ at = "join" => fOutgoingMessageQueue = << >>
  /\ link = "connecting" => /\ ~fConnected /\ fOutgoingMessageQueue = << >>
                            /\ at \in {"test", "toBlock", "blocked", "check", "drain", "join"}
  /\ link = "lost" /\ fConnected => conn \in faulty
  /\ at \in {"push", "pushing"} => Cardinality(accepted) < MaxMessages
  /\ live = IF link = "up" THEN conn ELSE 0

\* Send numbers the messages upwards.
Numbered == IsFiniteSet(accepted) /\ \A m \in accepted : m.id <= Cardinality(accepted)

\* The queue holds accepted messages of the present connection, oldest first.
Queued ==
  /\ \A i \in 1..Len(fOutgoingMessageQueue) :
       fOutgoingMessageQueue[i] \in accepted /\ fOutgoingMessageQueue[i].conn = conn
  /\ \A i, j \in 1..Len(fOutgoingMessageQueue) :
       i < j => fOutgoingMessageQueue[i].id < fOutgoingMessageQueue[j].id

\* Only the events of the client's messages carry one, and no connection that
\* is not yet established has an event or is registered.
Known ==
  /\ \A i \in 1..Len(events) :
       /\ IF IsData(events[i]) THEN events[i].msg \in accepted ELSE events[i].msg = NoMessage
       /\ events[i].conn \in Peer \/ events[i].conn <= conn
       /\ link = "connecting" => events[i].conn # conn
  /\ \A c \in fClients : c \in Peer \/ (c <= conn /\ (link = "connecting" => c # conn))
  /\ \A i \in 1..Len(relayed) : relayed[i] \in accepted

\* What is still queued was sent after everything that has left the queue.
Later ==
  \A k \in 1..Len(fOutgoingMessageQueue) :
    /\ \A i \in 1..Len(relayed) : relayed[i].id < fOutgoingMessageQueue[k].id
    /\ \A i \in 1..Len(events) :
         IsData(events[i]) => events[i].msg.id < fOutgoingMessageQueue[k].id

\* The last roster on its way to a registered client is the server's list; if
\* none is on its way, the client has it already.
Latest ==
  live \in fClients =>
    \/ \E i \in 1..Len(down) :
         /\ down[i] = Roster(fClients)
         /\ \A j \in 1..Len(down) : i < j => down[j].type # "clients"
    \/ /\ \A j \in 1..Len(down) : down[j].type # "clients"
       /\ view \in {fClients, Garbled}

Inv ==
  /\ TypeOK /\ Caller /\ Numbered /\ Queued /\ Known /\ Later /\ InOrder /\ NothingLost /\ Latest

EventType == [type : {"WS_READY", "WS_DATA", "WS_CLOSE"}, conn : Conns, msg : Message \cup {NoMessage}]

\* The parts of the types that the proofs need again and again.
LEMMA Typed ==
  ASSUME TypeOK
  PROVE  /\ events \in Seq(EventType) /\ relayed \in Seq(Message)
         /\ fOutgoingMessageQueue \in Seq(Message) /\ down \in Seq(Down)
         /\ fClients \subseteq Conns /\ accepted \subseteq Message
         /\ conn \in 0..MaxConnections /\ conn \in Nat /\ MaxConnections \in Nat
         /\ Len(events) \in Nat /\ Len(relayed) \in Nat
         /\ Len(fOutgoingMessageQueue) \in Nat /\ Len(down) \in Nat
         /\ DOMAIN events = 1..Len(events) /\ DOMAIN relayed = 1..Len(relayed)
         /\ DOMAIN fOutgoingMessageQueue = 1..Len(fOutgoingMessageQueue)
BY HandlerConstants DEF TypeOK, HandlerTypeOK, ClientTypeOK, EventType

\* A connection of the client is no peer.
LEMMA NoPeer == \A c \in 0..MaxConnections : c \notin Peer
BY HandlerConstants

\* NoMessage is never accepted.
LEMMA NoMessageFacts == NoMessage \notin Message /\ \A m \in Message : m.id \in Nat /\ m.conn \in Nat
<1>1. NoMessage.id = 0
  BY DEF NoMessage
<1> QED BY <1>1, HandlerConstants DEF Message

-----------------------------------------------------------------------------
(* Steps that leave most of the session alone *)

\* The caller moves on, or the flags change, and nothing else.
LEMMA LocalKeeps ==
  ASSUME Inv, TypeOK', Caller',
         UNCHANGED <<events, fClients, live, down, relayed, view, conn, link,
                     fOutgoingMessageQueue, accepted, faulty>>
  PROVE  Inv'
<1>1. Numbered' /\ Queued' /\ Known' /\ Later' /\ Latest'
  BY DEF Inv, Numbered, Queued, Known, Later, Latest, IsData
<1>2. InOrder' /\ NothingLost'
  BY DEF Inv, InOrder, NothingLost, IsData
<1> QED BY <1>1, <1>2 DEF Inv

\* A message that is no roster is sent to the client.
LEMMA NoteKeepsLatest ==
  ASSUME Inv, NEW t \in {"welcome", "joined", "goodbye", "data", "heartbeat"}, NEW S,
         SendTo(S, <<Note(t)>>), UNCHANGED <<live, fClients, view>>
  PROVE  down' \in Seq(Down) /\ Latest'
<1> DEFINE d == down \o <<Note(t)>>
<1>0. down \in Seq(Down) /\ Len(down) \in Nat /\ Latest
  BY Typed DEF Inv
<1>1. CASE down' = down
  BY <1>0, <1>1 DEF Latest
<1>2. CASE down' = d
  <2>1. Note(t) \in Down /\ Note(t).type # "clients"
    BY DEF Note, Down
  <2>2. /\ d \in Seq(Down) /\ Len(d) = Len(down) + 1
        /\ \A i \in 1..Len(down) : d[i] = down[i]
        /\ d[Len(down) + 1] = Note(t)
    BY <1>0, <2>1
  <2>3. \A j \in 1..Len(d) : j \in 1..Len(down) \/ d[j].type # "clients"
    BY <1>0, <2>1, <2>2
  <2> HIDE DEF d
  <2>4. CASE live \notin fClients
    BY <1>2, <2>2, <2>4 DEF Latest
  <2>5. CASE \E i \in 1..Len(down) :
               /\ down[i] = Roster(fClients)
               /\ \A j \in 1..Len(down) : i < j => down[j].type # "clients"
    <3>1. PICK i \in 1..Len(down) : /\ down[i] = Roster(fClients)
                                    /\ \A j \in 1..Len(down) : i < j => down[j].type # "clients"
      BY <2>5
    <3>2. /\ i \in 1..Len(d) /\ d[i] = Roster(fClients)
          /\ \A j \in 1..Len(d) : i < j => d[j].type # "clients"
      BY <1>0, <2>2, <2>3, <3>1
    <3> QED BY <1>2, <2>2, <3>2 DEF Latest
  <2>6. CASE (\A j \in 1..Len(down) : down[j].type # "clients") /\ view \in {fClients, Garbled}
    <3>1. \A j \in 1..Len(d) : d[j].type # "clients"
      BY <2>2, <2>3, <2>6
    <3> QED BY <1>2, <2>2, <2>6, <3>1 DEF Latest
  <2> QED BY <1>0, <2>4, <2>5, <2>6 DEF Latest
<1> QED BY <1>1, <1>2 DEF SendTo

\* A roster is sent to everyone on it.
LEMMA RosterMakesLatest ==
  ASSUME Inv, NEW t \in {"welcome", "joined", "goodbye", "data", "heartbeat"},
         fClients' \subseteq Conns, SendTo(fClients', <<Note(t), Roster(fClients')>>), UNCHANGED live
  PROVE  down' \in Seq(Down) /\ Latest'
<1> DEFINE d == down \o <<Note(t), Roster(fClients')>>
<1>0. down \in Seq(Down) /\ Len(down) \in Nat
  BY Typed DEF Inv
<1>1. CASE live \notin fClients'
  BY <1>0, <1>1 DEF Latest, SendTo
<1>2. CASE live \in fClients'
  <2>1. Note(t) \in Down /\ Roster(fClients') \in Down
    BY DEF Note, Roster, Down
  <2>2. /\ d \in Seq(Down) /\ Len(d) = Len(down) + 2
        /\ d[Len(down) + 2] = Roster(fClients')
    BY <1>0, <2>1
  <2>3. down' = d
    BY <1>2 DEF SendTo
  <2> HIDE DEF d
  <2>4. /\ Len(down) + 2 \in 1..Len(d)
        /\ \A j \in 1..Len(d) : ~(Len(down) + 2 < j)
    BY <1>0, <2>2
  <2> QED BY <2>2, <2>3, <2>4 DEF Latest, Roster
<1> QED BY <1>1, <1>2

-----------------------------------------------------------------------------
(* The server takes the next event *)

\* The message of the event it takes, if it is one of the client's, goes to
\* the end of the relay.
LEMMA PopKeepsOrder ==
  ASSUME Inv, events # << >>, events' = Tail(events),
         IF IsData(Head(events)) THEN relayed' = Append(relayed, Head(events).msg) ELSE relayed' = relayed,
         UNCHANGED <<conn, link, fOutgoingMessageQueue, accepted, faulty>>,
         fClients' \subseteq fClients \cup {Head(events).conn}
  PROVE  /\ events' \in Seq(EventType) /\ relayed' \in Seq(Message)
         /\ Known' /\ Later' /\ InOrder' /\ NothingLost'
<1> DEFINE h == Head(events)
           q == fOutgoingMessageQueue
<1>0. /\ TypeOK /\ Known /\ Later /\ InOrder /\ NothingLost
      /\ events \in Seq(EventType) /\ relayed \in Seq(Message) /\ accepted \subseteq Message
      /\ Len(events) \in Nat \ {0} /\ Len(relayed) \in Nat
  BY Typed DEF Inv
<1>1. /\ h = events[1] /\ 1 \in 1..Len(events)
      /\ Tail(events) \in Seq(EventType) /\ Len(Tail(events)) = Len(events) - 1
      /\ \A i \in 1..Len(Tail(events)) : i + 1 \in 1..Len(events) /\ Tail(events)[i] = events[i + 1]
      /\ \A i \in 1..Len(events) : i = 1 \/ (i - 1 \in 1..Len(Tail(events)) /\ Tail(events)[i - 1] = events[i])
  BY <1>0
<1>2. IF IsData(h) THEN h.msg \in accepted ELSE h.msg = NoMessage
  BY <1>0, <1>1 DEF Known
<1>3. /\ relayed' \in Seq(Message) /\ Len(relayed') \in Nat
      /\ \A i \in 1..Len(relayed) : i \in 1..Len(relayed') /\ relayed'[i] = relayed[i]
      /\ IsData(h) => Len(relayed) + 1 \in 1..Len(relayed') /\ relayed'[Len(relayed) + 1] = h.msg
      /\ \A i \in 1..Len(relayed') :
           i \in 1..Len(relayed) \/ (IsData(h) /\ i = Len(relayed) + 1)
  <2>1. CASE IsData(h)
    <3>1. h.msg \in Message /\ relayed' = Append(relayed, h.msg)
      BY <1>0, <1>2, <2>1
    <3> HIDE DEF h
    <3> QED BY <1>0, <2>1, <3>1
  <2>2. CASE ~IsData(h)
    BY <1>0, <2>2
  <2> QED BY <2>1, <2>2
<1>a. DOMAIN events = 1..Len(events) /\ DOMAIN relayed = 1..Len(relayed)
  BY <1>0
<1>b. DOMAIN events' = 1..Len(Tail(events)) /\ DOMAIN relayed' = 1..Len(relayed')
  BY <1>1, <1>3
<1> HIDE DEF h
<1>4. Known'
  <2>1. ASSUME NEW i \in 1..Len(events')
        PROVE  /\ IF IsData(events'[i]) THEN events'[i].msg \in accepted ELSE events'[i].msg = NoMessage
               /\ events'[i].conn \in Peer \/ events'[i].conn <= conn
               /\ link = "connecting" => events'[i].conn # conn
    BY <1>0, <1>1 DEF Known
  <2>2. ASSUME NEW c \in fClients'
        PROVE  c \in Peer \/ (c <= conn /\ (link = "connecting" => c # conn))
    <3>1. CASE c \in fClients
      BY <1>0, <3>1 DEF Known
    <3>2. CASE c = h.conn
      BY <1>0, <1>1, <3>2 DEF Known
    <3> QED BY <3>1, <3>2 DEF h
  <2>3. \A i \in 1..Len(relayed') : relayed'[i] \in accepted
    BY <1>0, <1>2, <1>3 DEF Known
  <2> QED BY <2>1, <2>2, <2>3 DEF Known, IsData
<1>5. Later'
  <2> SUFFICES ASSUME NEW k \in 1..Len(q)
               PROVE  /\ \A i \in 1..Len(relayed') : relayed'[i].id < q[k].id
                      /\ \A i \in 1..Len(events') : IsData(events'[i]) => events'[i].msg.id < q[k].id
    BY DEF Later, IsData
  <2>1. \A i \in 1..Len(relayed') : relayed'[i].id < q[k].id
    BY <1>0, <1>1, <1>3 DEF Later
  <2>2. \A i \in 1..Len(events') : IsData(events'[i]) => events'[i].msg.id < q[k].id
    BY <1>0, <1>1 DEF Later
  <2> QED BY <2>1, <2>2
<1>6. InOrder'
  <2>1. \A i, j \in 1..Len(relayed') : i < j => relayed'[i].id < relayed'[j].id
    <3> SUFFICES ASSUME NEW i \in 1..Len(relayed'), NEW j \in 1..Len(relayed'), i < j
                 PROVE  relayed'[i].id < relayed'[j].id
      OBVIOUS
    <3>1. i \in 1..Len(relayed) /\ relayed'[i] = relayed[i]
      BY <1>0, <1>3
    <3>2. CASE j \in 1..Len(relayed)
      BY <1>0, <1>a, <1>3, <3>1, <3>2 DEF InOrder
    <3>3. CASE IsData(h) /\ j = Len(relayed) + 1
      <4>1. relayed[i].id < events[1].msg.id
        <5>1. i \in DOMAIN relayed /\ 1 \in DOMAIN events /\ IsData(events[1])
          BY <1>a, <1>1, <3>1, <3>3
        <5> QED BY <1>0, <5>1 DEF InOrder
      <4> QED BY <1>1, <1>3, <3>1, <3>3, <4>1
    <3> QED BY <1>3, <3>2, <3>3
  <2>2. \A i \in 1..Len(relayed'), j \in 1..Len(events') :
          IsData(events'[j]) => relayed'[i].id < events'[j].msg.id
    <3> SUFFICES ASSUME NEW i \in 1..Len(relayed'), NEW j \in 1..Len(events'), IsData(events'[j])
                 PROVE  relayed'[i].id < events'[j].msg.id
      OBVIOUS
    <3>1. j + 1 \in 1..Len(events) /\ events'[j] = events[j + 1]
      BY <1>1
    <3>2. CASE i \in 1..Len(relayed)
      BY <1>0, <1>a, <1>3, <3>1, <3>2 DEF InOrder
    <3>3. CASE IsData(h) /\ i = Len(relayed) + 1
      <4>1. events[1].msg.id < events[j + 1].msg.id
        <5>1. 1 \in DOMAIN events /\ j + 1 \in DOMAIN events /\ 1 < j + 1
          BY <1>a, <1>1, <3>1
        <5>2. IsData(events[1]) /\ IsData(events[j + 1])
          BY <1>1, <3>1, <3>3
        <5> QED BY <1>0, <5>1, <5>2 DEF InOrder
      <4> QED BY <1>1, <1>3, <3>1, <3>3, <4>1
    <3> QED BY <1>3, <3>2, <3>3
  <2>3. \A i, j \in 1..Len(events') :
          IsData(events'[i]) /\ IsData(events'[j]) /\ i < j => events'[i].msg.id < events'[j].msg.id
    <3> SUFFICES ASSUME NEW i \in 1..Len(events'), NEW j \in 1..Len(events'),
                        IsData(events'[i]), IsData(events'[j]), i < j
                 PROVE  events'[i].msg.id < events'[j].msg.id
      OBVIOUS
    <3>1. i + 1 \in 1..Len(events) /\ j + 1 \in 1..Len(events) /\ i + 1 < j + 1
      BY <1>1
    <3>2. events'[i] = events[i + 1] /\ events'[j] = events[j + 1]
      BY <1>1
    <3> QED BY <1>0, <1>a, <3>1, <3>2 DEF InOrder
  <2>4. \A i \in 1..Len(events') : IsData(events'[i]) => events'[i].conn = events'[i].msg.conn
    BY <1>0, <1>a, <1>1 DEF InOrder
  <2> QED BY <1>b, <2>1, <2>2, <2>3, <2>4 DEF InOrder, IsData
<1>7. NothingLost'
  <2> SUFFICES ASSUME NEW m \in accepted, m.conn \notin faulty,
                      ~\E i \in DOMAIN q : q[i] = m
               PROVE  \/ \E i \in DOMAIN events' : events'[i].msg = m
                      \/ \E i \in DOMAIN relayed' : relayed'[i] = m
    BY DEF NothingLost
  <2>1. CASE \E i \in DOMAIN relayed : relayed[i] = m
    BY <1>a, <1>b, <1>3, <2>1
  <2>2. CASE \E i \in DOMAIN events : events[i].msg = m
    <3>1. PICK i \in 1..Len(events) : events[i].msg = m
      BY <1>a, <2>2
    <3>2. CASE i = 1
      <4>1. IsData(h) /\ h.msg = m
        BY <1>0, <1>1, <1>2, <3>1, <3>2, NoMessageFacts
      <4> QED BY <1>b, <1>3, <4>1
    <3>3. CASE i # 1
      BY <1>b, <1>1, <3>1, <3>3
    <3> QED BY <3>2, <3>3
  <2> QED BY <1>0, <2>1, <2>2 DEF NothingLost
<1> QED BY <1>1, <1>3, <1>4, <1>5, <1>6, <1>7

-----------------------------------------------------------------------------
(* An event reaches the server *)

\* An event that carries no message of the client.
LEMMA PushKeepsOrder ==
  ASSUME Inv, NEW e \in EventType, events' = Append(events, e), ~IsData(e), e.msg = NoMessage,
         e.conn \in Peer \/ (e.conn <= conn /\ link' # "connecting"),
         link' = "connecting" => link = "connecting",
         UNCHANGED <<fClients, relayed, conn, fOutgoingMessageQueue, accepted>>,
         faulty \subseteq faulty'
  PROVE  events' \in Seq(EventType) /\ Known' /\ Later' /\ InOrder' /\ NothingLost'
<1>0. /\ TypeOK /\ Known /\ Later /\ InOrder /\ NothingLost
      /\ events \in Seq(EventType) /\ relayed \in Seq(Message) /\ accepted \subseteq Message
      /\ Len(events) \in Nat /\ Len(relayed) \in Nat
      /\ conn \in 0..MaxConnections
  BY Typed DEF Inv
<1>1. /\ events' \in Seq(EventType) /\ Len(events') = Len(events) + 1
      /\ \A i \in 1..Len(events) : i \in 1..Len(events') /\ events'[i] = events[i]
      /\ events'[Len(events) + 1] = e
      /\ \A i \in 1..Len(events') : i \in 1..Len(events) \/ events'[i] = e
  BY <1>0
<1>a. DOMAIN events = 1..Len(events) /\ DOMAIN events' = 1..Len(events')
  BY <1>0, <1>1
<1>2. \A i \in 1..Len(events') : IsData(events'[i]) => i \in 1..Len(events)
  BY <1>1
<1>3. e.conn # conn \/ link' # "connecting"
  BY <1>0, NoPeer
<1>4. Known'
  <2>1. ASSUME NEW i \in 1..Len(events')
        PROVE  /\ IF IsData(events'[i]) THEN events'[i].msg \in accepted ELSE events'[i].msg = NoMessage
               /\ events'[i].conn \in Peer \/ events'[i].conn <= conn
               /\ link' = "connecting" => events'[i].conn # conn
    <3>1. CASE i \in 1..Len(events)
      BY <1>0, <1>1, <3>1 DEF Known
    <3>2. CASE events'[i] = e
      BY <1>3, <3>2
    <3> QED BY <1>1, <3>1, <3>2
  <2>2. \A c \in fClients : c \in Peer \/ (c <= conn /\ (link' = "connecting" => c # conn))
    BY <1>0 DEF Known
  <2>3. \A i \in 1..Len(relayed) : relayed[i] \in accepted
    BY <1>0 DEF Known
  <2> QED BY <2>1, <2>2, <2>3 DEF Known, IsData
<1>5. Later'
  <2> SUFFICES ASSUME NEW k \in 1..Len(fOutgoingMessageQueue)
               PROVE  /\ \A i \in 1..Len(relayed) : relayed[i].id < fOutgoingMessageQueue[k].id
                      /\ \A i \in 1..Len(events') :
                           IsData(events'[i]) => events'[i].msg.id < fOutgoingMessageQueue[k].id
    BY DEF Later, IsData
  <2>1. \A i \in 1..Len(relayed) : relayed[i].id < fOutgoingMessageQueue[k].id
    BY <1>0 DEF Later
  <2>2. ASSUME NEW i \in 1..Len(events'), IsData(events'[i])
        PROVE  events'[i].msg.id < fOutgoingMessageQueue[k].id
    <3>1. i \in 1..Len(events) /\ events'[i] = events[i]
      BY <1>1, <1>2, <2>2
    <3> QED BY <1>0, <2>2, <3>1 DEF Later
  <2> QED BY <2>1, <2>2
<1>6. InOrder'
  BY <1>0, <1>1, <1>2, <1>a DEF InOrder, IsData
<1>7. NothingLost'
  BY <1>0, <1>1, <1>a DEF NothingLost
<1> QED BY <1>1, <1>4, <1>5, <1>6, <1>7

\* The oldest message of the queue, written by the callback.
LEMMA WriteKeepsOrder ==
  ASSUME Inv, link = "up", fOutgoingMessageQueue # << >>,
         fOutgoingMessageQueue' = Tail(fOutgoingMessageQueue),
         \/ /\ events' = Append(events, Event("WS_DATA", conn, Head(fOutgoingMessageQueue)))
            /\ faulty' = faulty
         \/ events' = events /\ faulty' = faulty \cup {conn},
         UNCHANGED <<fClients, relayed, conn, link, accepted>>
  PROVE  /\ events' \in Seq(EventType) /\ fOutgoingMessageQueue' \in Seq(Message)
         /\ Queued' /\ Known' /\ Later' /\ InOrder' /\ NothingLost'
<1> DEFINE q == fOutgoingMessageQueue
           h == Head(q)
           e == Event("WS_DATA", conn, h)
<1>0. /\ TypeOK /\ Caller /\ Queued /\ Known /\ Later /\ InOrder /\ NothingLost
      /\ events \in Seq(EventType) /\ relayed \in Seq(Message) /\ accepted \subseteq Message
      /\ q \in Seq(Message) /\ Len(q) \in Nat \ {0}
      /\ Len(events) \in Nat /\ Len(relayed) \in Nat
      /\ conn \in 0..MaxConnections
  BY Typed DEF Inv
<1>1. /\ h = q[1] /\ h \in Message /\ 1 \in 1..Len(q)
      /\ Tail(q) \in Seq(Message) /\ Len(Tail(q)) = Len(q) - 1
      /\ \A i \in 1..Len(Tail(q)) : i + 1 \in 1..Len(q) /\ Tail(q)[i] = q[i + 1]
      /\ \A i \in 1..Len(q) : i = 1 \/ (i - 1 \in 1..Len(Tail(q)) /\ Tail(q)[i - 1] = q[i])
  BY <1>0
<1>2. h \in accepted /\ h.conn = conn
  BY <1>0, <1>1 DEF Queued
<1>3. conn \in 1..MaxConnections /\ conn \notin Peer
  BY <1>0, NoPeer DEF Caller
<1>4. /\ e \in EventType /\ IsData(e) /\ e.conn = conn /\ e.msg = h
  BY <1>1, <1>3 DEF Event, EventType, Conns, IsData
<1>a. /\ DOMAIN events = 1..Len(events) /\ DOMAIN relayed = 1..Len(relayed)
      /\ DOMAIN q = 1..Len(q) /\ DOMAIN q' = 1..Len(q')
  BY <1>0, <1>1
<1> HIDE DEF h, e
<1>5. Queued'
  <2>1. \A i \in 1..Len(q') : q'[i] \in accepted /\ q'[i].conn = conn
    BY <1>0, <1>1 DEF Queued
  <2>2. \A i, j \in 1..Len(q') : i < j => q'[i].id < q'[j].id
    BY <1>0, <1>1 DEF Queued
  <2> QED BY <2>1, <2>2 DEF Queued
<1>6. ASSUME events' = events, faulty' = faulty \cup {conn}
      PROVE  Known' /\ Later' /\ InOrder' /\ NothingLost'
  <2>1. Known' /\ InOrder'
    BY <1>0, <1>6 DEF Known, InOrder, IsData
  <2>2. Later'
    BY <1>0, <1>1, <1>6 DEF Later, IsData
  <2>3. NothingLost'
    <3> SUFFICES ASSUME NEW m \in accepted, m.conn \notin faulty'
                 PROVE  \/ \E i \in DOMAIN q' : q'[i] = m
                        \/ \E i \in DOMAIN events : events[i].msg = m
                        \/ \E i \in DOMAIN relayed : relayed[i] = m
      BY <1>6 DEF NothingLost
    <3>1. m # h /\ m.conn \notin faulty
      BY <1>2, <1>6
    <3>2. ASSUME NEW i \in 1..Len(q), q[i] = m PROVE \E k \in DOMAIN q' : q'[k] = m
      BY <1>1, <1>a, <3>1, <3>2
    <3> QED BY <1>0, <1>a, <3>1, <3>2 DEF NothingLost
  <2> QED BY <2>1, <2>2, <2>3
<1>7. ASSUME events' = Append(events, e), faulty' = faulty
      PROVE  events' \in Seq(EventType) /\ Known' /\ Later' /\ InOrder' /\ NothingLost'
  <2>1. /\ events' \in Seq(EventType) /\ Len(events') = Len(events) + 1
        /\ \A i \in 1..Len(events) : i \in 1..Len(events') /\ events'[i] = events[i]
        /\ Len(events) + 1 \in 1..Len(events') /\ events'[Len(events) + 1] = e
        /\ \A i \in 1..Len(events') : i \in 1..Len(events) \/ i = Len(events) + 1
    BY <1>0, <1>4, <1>7
  <2>a. DOMAIN events' = 1..Len(events')
    BY <2>1
  <2>2. Known'
    <3>1. ASSUME NEW i \in 1..Len(events')
          PROVE  /\ IF IsData(events'[i]) THEN events'[i].msg \in accepted ELSE events'[i].msg = NoMessage
                 /\ events'[i].conn \in Peer \/ events'[i].conn <= conn
      <4>1. CASE i \in 1..Len(events)
        BY <1>0, <2>1, <4>1 DEF Known
      <4>2. CASE i = Len(events) + 1
        BY <1>0, <1>2, <1>4, <2>1, <4>2
      <4> QED BY <2>1, <4>1, <4>2
    <3> QED BY <1>0, <3>1 DEF Known, IsData
  <2>3. Later'
    <3> SUFFICES ASSUME NEW k \in 1..Len(q')
                 PROVE  /\ \A i \in 1..Len(relayed) : relayed[i].id < q'[k].id
                        /\ \A i \in 1..Len(events') : IsData(events'[i]) => events'[i].msg.id < q'[k].id
      BY DEF Later, IsData
    <3>1. k + 1 \in 1..Len(q) /\ q'[k] = q[k + 1] /\ 1 < k + 1
      BY <1>1
    <3>2. h.id < q'[k].id
      BY <1>0, <1>1, <3>1 DEF Queued
    <3>3. \A i \in 1..Len(relayed) : relayed[i].id < q'[k].id
      BY <1>0, <3>1 DEF Later
    <3>4. ASSUME NEW i \in 1..Len(events'), IsData(events'[i]) PROVE events'[i].msg.id < q'[k].id
      <4>1. CASE i \in 1..Len(events)
        BY <1>0, <2>1, <3>1, <3>4, <4>1 DEF Later
      <4>2. CASE i = Len(events) + 1
        BY <1>4, <2>1, <3>2, <4>2
      <4> QED BY <2>1, <4>1, <4>2
    <3> QED BY <3>3, <3>4
  <2>4. InOrder'
    <3>1. \A i \in 1..Len(relayed) : relayed[i].id < h.id
      BY <1>0, <1>1 DEF Later
    <3>2. \A i \in 1..Len(events) : IsData(events[i]) => events[i].msg.id < h.id
      BY <1>0, <1>1 DEF Later
    <3>3. \A i \in 1..Len(relayed), j \in 1..Len(events') :
            IsData(events'[j]) => relayed[i].id < events'[j].msg.id
      BY <1>0, <1>4, <1>a, <2>1, <3>1 DEF InOrder
    <3>4. \A i, j \in 1..Len(events') :
            IsData(events'[i]) /\ IsData(events'[j]) /\ i < j => events'[i].msg.id < events'[j].msg.id
      <4> SUFFICES ASSUME NEW i \in 1..Len(events'), NEW j \in 1..Len(events'),
                          IsData(events'[i]), IsData(events'[j]), i < j
                   PROVE  events'[i].msg.id < events'[j].msg.id
        OBVIOUS
      <4>1. i \in 1..Len(events)
        BY <1>0, <2>1
      <4>2. CASE j \in 1..Len(events)
        BY <1>0, <1>a, <2>1, <4>1, <4>2 DEF InOrder
      <4>3. CASE j = Len(events) + 1
        BY <1>4, <2>1, <3>2, <4>1, <4>3
      <4> QED BY <2>1, <4>2, <4>3
    <3>5. \A i \in 1..Len(events') : IsData(events'[i]) => events'[i].conn = events'[i].msg.conn
      BY <1>0, <1>2, <1>4, <1>a, <2>1 DEF InOrder
    <3>6. \A i, j \in DOMAIN relayed : i < j => relayed[i].id < relayed[j].id
      BY <1>0 DEF InOrder
    <3> QED BY <1>a, <2>a, <3>3, <3>4, <3>5, <3>6 DEF InOrder, IsData
  <2>5. NothingLost'
    <3> SUFFICES ASSUME NEW m \in accepted, m.conn \notin faulty
                 PROVE  \/ \E i \in DOMAIN q' : q'[i] = m
                        \/ \E i \in DOMAIN events' : events'[i].msg = m
                        \/ \E i \in DOMAIN relayed : relayed[i] = m
      BY <1>7 DEF NothingLost
    <3>1. ASSUME NEW i \in 1..Len(q), q[i] = m
          PROVE  (\E k \in DOMAIN q' : q'[k] = m) \/ (\E k \in DOMAIN events' : events'[k].msg = m)
      <4>1. CASE i = 1
        BY <1>1, <1>4, <2>1, <2>a, <3>1, <4>1
      <4>2. CASE i # 1
        BY <1>1, <1>a, <3>1, <4>2
      <4> QED BY <4>1, <4>2
    <3>2. ASSUME NEW i \in 1..Len(events), events[i].msg = m
          PROVE  \E k \in DOMAIN events' : events'[k].msg = m
      BY <2>1, <2>a, <3>2
    <3> QED BY <1>0, <1>a, <3>1, <3>2 DEF NothingLost
  <2> QED BY <2>1, <2>2, <2>3, <2>4, <2>5
<1> QED BY <1>0, <1>1, <1>5, <1>6, <1>7 DEF e, h

-----------------------------------------------------------------------------
(* The server's steps *)

\* A step of the server that leaves the connection and the client alone.
LEMMA ServerFrame ==
  ASSUME Inv, UNCHANGED clientVars, UNCHANGED live, HandlerTypeOK', Known', Later', InOrder',
         NothingLost', Latest'
  PROVE  Inv'
<1>1. ClientTypeOK'
  BY DEF Inv, TypeOK, ClientTypeOK, clientVars, callVars, flagVars, netVars, inVars
<1>2. Caller'
  BY DEF Inv, Caller, clientVars, callVars, flagVars, netVars
<1>3. Numbered' /\ Queued'
  BY DEF Inv, Numbered, Queued, clientVars, netVars
<1> QED BY <1>1, <1>2, <1>3 DEF Inv, TypeOK

LEMMA WsReadyInv ==
  ASSUME Inv, WsReady, UNCHANGED clientVars
  PROVE  Inv'
<1>0. TypeOK /\ HandlerTypeOK /\ events \in Seq(EventType)
  BY Typed DEF Inv, TypeOK
<1>1. /\ events # << >> /\ events' = Tail(events) /\ Head(events).type = "WS_READY"
      /\ fClients' = fClients \cup {Head(events).conn}
      /\ relayed' = relayed /\ live' = live
      /\ UNCHANGED <<conn, link, fOutgoingMessageQueue, accepted, faulty>>
  BY DEF WsReady, Handles, clientVars, netVars
<1>2. ~IsData(Head(events)) /\ Head(events).conn \in Conns
  <2>1. Head(events) \in EventType
    BY <1>0, <1>1
  <2> QED BY <1>1, <2>1 DEF IsData, EventType
<1>3. /\ events' \in Seq(EventType) /\ relayed' \in Seq(Message)
      /\ Known' /\ Later' /\ InOrder' /\ NothingLost'
  BY <1>1, <1>2, PopKeepsOrder
<1>4. PICK t \in {"welcome", "joined", "goodbye", "data", "heartbeat"} :
        SendTo(fClients', <<Note(t), Roster(fClients')>>)
  BY <1>1 DEF WsReady
<1>5. fClients' \subseteq Conns
  BY <1>0, <1>1, <1>2, Typed
<1>6. down' \in Seq(Down) /\ Latest'
  BY <1>1, <1>4, <1>5, RosterMakesLatest
<1>7. HandlerTypeOK'
  BY <1>0, <1>1, <1>3, <1>5, <1>6 DEF HandlerTypeOK, EventType, WsReady
<1> QED BY <1>1, <1>3, <1>6, <1>7, ServerFrame

LEMMA WsCloseInv ==
  ASSUME Inv, WsClose, UNCHANGED clientVars
  PROVE  Inv'
<1>0. TypeOK /\ HandlerTypeOK /\ events \in Seq(EventType)
  BY Typed DEF Inv, TypeOK
<1>1. /\ events # << >> /\ events' = Tail(events) /\ Head(events).type = "WS_CLOSE"
      /\ fClients' = fClients \ {Head(events).conn}
      /\ relayed' = relayed /\ live' = live
      /\ UNCHANGED <<conn, link, fOutgoingMessageQueue, accepted, faulty>>
      /\ SendTo(fClients', <<Note("goodbye"), Roster(fClients')>>)
  BY DEF WsClose, Handles, clientVars, netVars
<1>2. ~IsData(Head(events))
  BY <1>1 DEF IsData
<1>3. /\ events' \in Seq(EventType) /\ relayed' \in Seq(Message)
      /\ Known' /\ Later' /\ InOrder' /\ NothingLost'
  BY <1>1, <1>2, PopKeepsOrder
<1>5. fClients' \subseteq Conns
  BY <1>0, <1>1, Typed
<1>6. down' \in Seq(Down) /\ Latest'
  BY <1>1, <1>5, RosterMakesLatest
<1>7. HandlerTypeOK'
  BY <1>0, <1>1, <1>3, <1>5, <1>6 DEF HandlerTypeOK, EventType, WsClose
<1> QED BY <1>1, <1>3, <1>6, <1>7, ServerFrame

LEMMA WsDataInv ==
  ASSUME Inv, WsData, UNCHANGED clientVars
  PROVE  Inv'
<1>0. TypeOK /\ HandlerTypeOK /\ events \in Seq(EventType)
  BY Typed DEF Inv, TypeOK
<1>1. /\ events # << >> /\ events' = Tail(events) /\ Head(events).type = "WS_DATA"
      /\ fClients' = fClients /\ live' = live
      /\ UNCHANGED <<conn, link, fOutgoingMessageQueue, accepted, faulty, view>>
      /\ SendTo(fClients \ {Head(events).conn}, <<Note("data")>>)
      /\ relayed' = IF Head(events).conn \notin Peer THEN Append(relayed, Head(events).msg) ELSE relayed
  BY DEF WsData, Handles, clientVars, netVars, inVars
<1>2. IF IsData(Head(events)) THEN relayed' = Append(relayed, Head(events).msg) ELSE relayed' = relayed
  BY <1>1 DEF IsData
<1>3. /\ events' \in Seq(EventType) /\ relayed' \in Seq(Message)
      /\ Known' /\ Later' /\ InOrder' /\ NothingLost'
  BY <1>1, <1>2, PopKeepsOrder
<1>6. down' \in Seq(Down) /\ Latest'
  BY <1>1, NoteKeepsLatest
<1>7. HandlerTypeOK'
  BY <1>0, <1>1, <1>3, <1>6 DEF HandlerTypeOK, EventType, WsData
<1> QED BY <1>1, <1>3, <1>6, <1>7, ServerFrame

\* Broadcasts, heartbeats and their settings send the client no roster.
LEMMA QuietInv ==
  ASSUME Inv, UNCHANGED clientVars,
         \/ WebSocketBroadcast
         \/ \E ms \in {"on", "off"} : SetHeartbeatMs_Stop(ms)
         \/ SetHeartbeatMs_Start \/ HeartbeatWakes \/ HandleTimer
  PROVE  Inv'
<1>0. HandlerTypeOK /\ TypeOK /\ Latest /\ MaxEvents \in Nat
  BY HandlerConstants DEF Inv, TypeOK
<1>1. UNCHANGED <<events, fClients, live, relayed>>
  BY DEF WebSocketBroadcast, SetHeartbeatMs_Stop, SetHeartbeatMs_Start, HeartbeatWakes, HandleTimer
<1>2. UNCHANGED <<conn, link, fOutgoingMessageQueue, accepted, faulty, view>>
  BY DEF clientVars, netVars, inVars
<1>3. down' \in Seq(Down) /\ Latest'
  <2>1. CASE down' = down
    BY <1>0, <1>1, <1>2, <2>1 DEF Latest, HandlerTypeOK
  <2>2. ASSUME NEW t \in {"data", "heartbeat"}, SendTo(fClients, <<Note(t)>>)
        PROVE  down' \in Seq(Down) /\ Latest'
    BY <1>1, <1>2, <2>2, NoteKeepsLatest
  <2> QED
    BY <2>1, <2>2 DEF WebSocketBroadcast, SetHeartbeatMs_Stop, SetHeartbeatMs_Start, HeartbeatWakes,
                      HandleTimer
<1>4. /\ budget' \in 0..MaxEvents /\ beat' \in {"off", "waiting", "beating"}
      /\ running' \in BOOLEAN /\ setting' \in {"no", "on", "off"}
  <2>1. /\ budget \in 0..MaxEvents /\ beat \in {"off", "waiting", "beating"}
        /\ running \in BOOLEAN /\ setting \in {"no", "on", "off"}
    BY <1>0 DEF HandlerTypeOK
  <2>2. CASE WebSocketBroadcast
    BY <1>0, <2>1, <2>2 DEF WebSocketBroadcast, Spends
  <2>3. CASE \E ms \in {"on", "off"} : SetHeartbeatMs_Stop(ms)
    BY <1>0, <2>1, <2>3 DEF SetHeartbeatMs_Stop, Spends
  <2>4. CASE SetHeartbeatMs_Start
    BY <2>1, <2>4 DEF SetHeartbeatMs_Start
  <2>5. CASE HeartbeatWakes
    BY <1>0, <2>1, <2>5 DEF HeartbeatWakes, Spends
  <2>6. CASE HandleTimer
    BY <2>1, <2>6 DEF HandleTimer
  <2> QED BY <2>2, <2>3, <2>4, <2>5, <2>6
<1>5. HandlerTypeOK'
  BY <1>0, <1>1, <1>3, <1>4 DEF HandlerTypeOK
<1>6. Known' /\ Later' /\ InOrder' /\ NothingLost'
  BY <1>1, <1>2 DEF Inv, Known, Later, InOrder, NothingLost, IsData
<1> QED BY <1>1, <1>3, <1>5, <1>6, ServerFrame

LEMMA PeerInv ==
  ASSUME Inv, NEW p \in Peer, PeerDoes(p), UNCHANGED clientVars
  PROVE  Inv'
<1>0. HandlerTypeOK /\ TypeOK /\ Latest /\ MaxEvents \in Nat
  BY HandlerConstants DEF Inv, TypeOK
<1>1. PICK t \in {"WS_READY", "WS_DATA", "WS_CLOSE"} : events' = Append(events, Event(t, p, NoMessage))
  BY DEF PeerDoes
<1>2. /\ Event(t, p, NoMessage) \in EventType /\ ~IsData(Event(t, p, NoMessage))
      /\ Event(t, p, NoMessage).msg = NoMessage /\ Event(t, p, NoMessage).conn \in Peer
  BY DEF Event, EventType, Conns, IsData
<1>3. /\ UNCHANGED <<fClients, live, down, relayed, beat, running, setting>>
      /\ UNCHANGED <<conn, link, fOutgoingMessageQueue, accepted, faulty, view>>
  BY DEF PeerDoes, clientVars, netVars, inVars
<1>4. events' \in Seq(EventType) /\ Known' /\ Later' /\ InOrder' /\ NothingLost'
  BY <1>1, <1>2, <1>3, PushKeepsOrder
<1>5. HandlerTypeOK'
  BY <1>0, <1>3, <1>4 DEF HandlerTypeOK, EventType, PeerDoes, Spends
<1>6. Latest'
  BY <1>0, <1>3 DEF Latest
<1> QED BY <1>3, <1>4, <1>5, <1>6, ServerFrame

-----------------------------------------------------------------------------
(* The caller's steps *)

\* The steps that move the caller, its flags and the request for a callback.
LEMMA CallInv ==
  ASSUME Inv, NEW f \in {"Connect", "Disconnect", "Send"}, Call(f)
  PROVE  Inv'
<1>0. TypeOK /\ HandlerTypeOK /\ ClientTypeOK /\ Caller
  BY DEF Inv, TypeOK
<1>1. /\ at = "idle" /\ at' \in {"attempt", "drain", "push"} /\ tries' \in {0, 1}
      /\ at' = "push" => Cardinality(accepted) < MaxMessages
  BY DEF Call
<1>2. /\ UNCHANGED <<events, fClients, live, down, relayed, budget, beat, running, setting>>
      /\ UNCHANGED <<fConnected, fShutdownRequested, fConnectionAttemptComplete, svc, link, conn,
                     messageBuffer, view, fLwsContext, fWsi, fOutgoingMessageQueue, writable, accepted, faulty>>
  BY DEF Call, handlerVars, flagVars, netVars, inVars
<1>3. TypeOK'
  <2>1. HandlerTypeOK'
    BY <1>0, <1>2 DEF HandlerTypeOK
  <2>2. ClientTypeOK'
    BY <1>0, <1>1, <1>2, RetriesAssumption DEF ClientTypeOK
  <2> QED BY <2>1, <2>2 DEF TypeOK
<1>4. Caller'
  BY <1>0, <1>1, <1>2 DEF Caller
<1> QED BY <1>2, <1>3, <1>4, LocalKeeps

LEMMA ConnectWaitInv ==
  ASSUME Inv, Connect_Wait
  PROVE  Inv'
<1>0. TypeOK /\ HandlerTypeOK /\ ClientTypeOK /\ Caller
  BY DEF Inv, TypeOK
<1>2. /\ UNCHANGED <<events, fClients, live, down, relayed, budget, beat, running, setting>>
      /\ UNCHANGED <<fConnected, fShutdownRequested, fConnectionAttemptComplete, svc, link, conn,
                     messageBuffer, view, fLwsContext, fWsi, fOutgoingMessageQueue, writable, accepted, faulty>>
  BY DEF Connect_Wait, handlerVars, flagVars, netVars, inVars
<1>1. /\ at \in {"test", "toBlock", "check"} /\ at' \in {"check", "toBlock", "blocked", "drain", "idle"}
      /\ at' = "idle" => fConnected
      /\ tries' \in {tries, 0}
  BY DEF Connect_Wait, Return
<1>3. TypeOK'
  <2>1. HandlerTypeOK'
    BY <1>0, <1>2 DEF HandlerTypeOK
  <2>2. ClientTypeOK'
    BY <1>0, <1>1, <1>2, RetriesAssumption DEF ClientTypeOK
  <2> QED BY <2>1, <2>2 DEF TypeOK
<1>4. Caller'
  BY <1>0, <1>1, <1>2 DEF Caller
<1> QED BY <1>2, <1>3, <1>4, LocalKeeps

LEMMA DrainInv ==
  ASSUME Inv, Disconnect_Drain
  PROVE  Inv'
<1>0. TypeOK /\ HandlerTypeOK /\ ClientTypeOK /\ Caller
  BY DEF Inv, TypeOK
<1>2. /\ UNCHANGED <<events, fClients, live, down, relayed, budget, beat, running, setting>>
      /\ UNCHANGED <<svc, link, conn, messageBuffer, view, fLwsContext, fOutgoingMessageQueue, writable,
                     accepted, faulty>>
  BY DEF Disconnect_Drain, handlerVars, netVars, inVars
<1>1. /\ at = "drain" /\ at' \in {"join", "idle"} /\ tries' \in {tries, 0}
      /\ at' = "join" => fLwsContext /\ fOutgoingMessageQueue = << >>
      /\ at' = "idle" => ~fLwsContext
      /\ (fConnected' => fConnected) /\ (fWsi' => fWsi)
  BY DEF Disconnect_Drain, Return
<1>b. /\ fConnected' \in BOOLEAN /\ fWsi' \in BOOLEAN
      /\ fShutdownRequested' \in BOOLEAN /\ fConnectionAttemptComplete' \in BOOLEAN
  <2>1. /\ fConnected \in BOOLEAN /\ fWsi \in BOOLEAN
        /\ fShutdownRequested \in BOOLEAN /\ fConnectionAttemptComplete \in BOOLEAN
    BY <1>0 DEF ClientTypeOK
  <2> QED BY <2>1, Zenon DEF Disconnect_Drain
<1>3. TypeOK'
  <2>1. HandlerTypeOK'
    BY <1>0, <1>2 DEF HandlerTypeOK
  <2>2. ClientTypeOK'
    BY <1>0, <1>1, <1>2, <1>b, RetriesAssumption DEF ClientTypeOK
  <2> QED BY <2>1, <2>2 DEF TypeOK
<1>4. Caller'
  BY <1>0, <1>1, <1>2 DEF Caller
<1> QED BY <1>2, <1>3, <1>4, LocalKeeps

LEMMA SendPushInv ==
  ASSUME Inv, Send_Push \/ Send_Ask
  PROVE  Inv'
<1>0. TypeOK /\ HandlerTypeOK /\ ClientTypeOK /\ Caller
  BY DEF Inv, TypeOK
<1>2. /\ UNCHANGED <<events, fClients, live, down, relayed, budget, beat, running, setting>>
      /\ UNCHANGED <<fConnected, fShutdownRequested, fConnectionAttemptComplete, svc, link, conn, tries,
                     messageBuffer, view, fLwsContext, fWsi, fOutgoingMessageQueue, accepted, faulty>>
  BY DEF Send_Push, Send_Ask, handlerVars, flagVars, netVars, inVars
<1>1. /\ at \in {"push", "ask"} /\ at' \in {"idle", "pushing", "crashed"}
      /\ at' = "pushing" => at = "push" /\ fWsi
  BY DEF Send_Push, Send_Ask
<1>w. writable' \in BOOLEAN
  BY <1>0 DEF Send_Push, Send_Ask, ClientTypeOK
<1>3. TypeOK'
  <2>1. HandlerTypeOK'
    BY <1>0, <1>2 DEF HandlerTypeOK
  <2>2. ClientTypeOK'
    BY <1>0, <1>1, <1>2, <1>w DEF ClientTypeOK
  <2> QED BY <2>1, <2>2 DEF TypeOK
<1>4. Caller'
  BY <1>0, <1>1, <1>2 DEF Caller
<1> QED BY <1>2, <1>3, <1>4, LocalKeeps

\* A new connection finds the queue empty and its number unused.
LEMMA AttemptInv ==
  ASSUME Inv, Connect_Attempt
  PROVE  Inv'
<1>0. /\ TypeOK /\ HandlerTypeOK /\ ClientTypeOK /\ Caller /\ Known /\ Numbered /\ Queued
      /\ Later /\ InOrder /\ NothingLost /\ Latest
      /\ events \in Seq(EventType) /\ fClients \subseteq Conns /\ conn \in Nat /\ MaxConnections \in Nat
      /\ accepted \subseteq Message
  BY Typed DEF Inv, TypeOK
<1>2. /\ UNCHANGED <<events, fClients, live, down, relayed, budget, beat, running, setting>>
      /\ UNCHANGED <<messageBuffer, view, fOutgoingMessageQueue, writable, accepted, faulty>>
      /\ at = "attempt" /\ UNCHANGED fConnected
  BY DEF Connect_Attempt, handlerVars, inVars, flagVars
<1>t. /\ at' \in {"idle", "attempt", "test"} /\ tries' \in 0..fMaxRetries
      /\ fShutdownRequested' \in BOOLEAN /\ fConnectionAttemptComplete' \in BOOLEAN
      /\ fWsi' \in BOOLEAN
  <2>1. /\ tries \in 0..fMaxRetries /\ fWsi \in BOOLEAN
        /\ fShutdownRequested \in BOOLEAN /\ fConnectionAttemptComplete \in BOOLEAN
    BY <1>0 DEF ClientTypeOK
  <2>2. at' \in {"idle", "attempt", "test"} /\ tries' \in 0..fMaxRetries
    BY <2>1, RetriesAssumption DEF Connect_Attempt, Return, Retry
  <2>3. /\ fShutdownRequested' \in BOOLEAN /\ fConnectionAttemptComplete' \in BOOLEAN
        /\ fWsi' \in BOOLEAN
    BY <2>1, Zenon DEF Connect_Attempt, flagVars
  <2> QED BY <2>2, <2>3
<1>h. HandlerTypeOK'
  BY <1>0, <1>2 DEF HandlerTypeOK
<1>1. CASE UNCHANGED <<fLwsContext, netVars>>
  <2>1. UNCHANGED <<fLwsContext, svc, link, conn>>
    BY <1>1 DEF netVars
  <2>3. fWsi' => fWsi \/ fLwsContext
    BY <2>1, Zenon DEF Connect_Attempt
  <2>4. ClientTypeOK'
    BY <1>0, <1>2, <1>t, <2>1 DEF ClientTypeOK
  <2>5. Caller'
    BY <1>0, <1>2, <1>t, <2>1, <2>3 DEF Caller, ClientTypeOK
  <2>6. TypeOK'
    BY <1>h, <2>4 DEF TypeOK
  <2> QED BY <1>2, <2>1, <2>5, <2>6, LocalKeeps
<1>3. CASE /\ ~fConnected /\ ~fLwsContext /\ conn < MaxConnections /\ conn' = conn + 1
           /\ fLwsContext' = TRUE /\ fWsi' = TRUE /\ svc' = "run" /\ link' = "connecting"
           /\ at' = "test" /\ UNCHANGED tries
  <2>1. fOutgoingMessageQueue = << >> /\ link = "none"
    BY <1>0, <1>3 DEF Caller
  <2>2. ClientTypeOK'
    BY <1>0, <1>2, <1>3, <1>t DEF ClientTypeOK
  <2>3. Caller'
    BY <1>0, <1>2, <1>3, <2>1 DEF Caller
  <2>4. Numbered' /\ Queued' /\ Later' /\ InOrder' /\ NothingLost' /\ Latest'
    BY <1>0, <1>2, <2>1 DEF Numbered, Queued, Later, InOrder, NothingLost, Latest, IsData
  <2>5. Known'
    <3>1. ASSUME NEW c \in Conns, c \in Peer \/ c <= conn
          PROVE  (c \in Peer \/ c <= conn') /\ c # conn'
      <4>1. conn' \in 0..MaxConnections
        BY <1>0, <1>3
      <4>2. CASE c \in Peer
        BY <4>1, <4>2, NoPeer
      <4>3. CASE c \notin Peer
        BY <1>0, <1>3, <3>1, <4>3 DEF Conns
      <4> QED BY <4>2, <4>3
    <3>2. \A i \in 1..Len(events) : events[i].conn \in Conns
      <4>1. \A i \in 1..Len(events) : events[i] \in EventType
        BY <1>0
      <4> QED BY <4>1 DEF EventType
    <3>3. ASSUME NEW i \in 1..Len(events)
          PROVE  (events[i].conn \in Peer \/ events[i].conn <= conn') /\ events[i].conn # conn'
      BY <1>0, <3>1, <3>2 DEF Known
    <3>4. ASSUME NEW c \in fClients
          PROVE  c \in Peer \/ (c <= conn' /\ c # conn')
      BY <1>0, <3>1 DEF Known
    <3> QED BY <1>0, <1>2, <1>3, <3>3, <3>4 DEF Known, IsData
  <2> QED BY <1>h, <2>2, <2>3, <2>4, <2>5 DEF Inv, TypeOK
<1> QED BY <1>1, <1>3 DEF Connect_Attempt

\* Send numbers the message it pushes above all the others.
LEMMA PushingInv ==
  ASSUME Inv, Send_Pushing
  PROVE  Inv'
<1> DEFINE q == fOutgoingMessageQueue
           n == Cardinality(accepted) + 1
           m == [id |-> n, conn |-> conn]
<1>0. /\ TypeOK /\ HandlerTypeOK /\ ClientTypeOK /\ Caller /\ Known /\ Numbered /\ Queued
      /\ Later /\ InOrder /\ NothingLost /\ Latest
      /\ events \in Seq(EventType) /\ relayed \in Seq(Message) /\ q \in Seq(Message)
      /\ Len(events) \in Nat /\ Len(relayed) \in Nat /\ Len(q) \in Nat
      /\ conn \in 0..MaxConnections /\ MaxConnections \in Nat /\ accepted \subseteq Message
  BY Typed DEF Inv, TypeOK
<1>1. /\ at = "pushing" /\ at' = "ask"
      /\ accepted' = accepted \cup {m} /\ q' = Append(q, m)
  BY DEF Send_Pushing
<1>2. /\ UNCHANGED <<events, fClients, live, down, relayed, budget, beat, running, setting>>
      /\ UNCHANGED <<tries, fConnected, fShutdownRequested, fConnectionAttemptComplete, svc, link, conn,
                     messageBuffer, view, fLwsContext, fWsi, writable, faulty>>
  BY DEF Send_Pushing, handlerVars, flagVars, netVars, inVars
<1>3. Cardinality(accepted) \in Nat /\ n \in Nat /\ n \in 1..MaxMessages
  <2>1. Cardinality(accepted) \in Nat
    BY <1>0, FS_CardinalityType DEF Numbered
  <2> QED BY <1>0, <1>1, <2>1, HandlerConstants DEF Caller
<1>4. m \in Message /\ m.id = n /\ m.conn = conn
  BY <1>0, <1>1, <1>3 DEF Message, Caller
<1>5. m \notin accepted
  BY <1>0, <1>3, <1>4 DEF Numbered
<1>6. IsFiniteSet(accepted') /\ Cardinality(accepted') = n
  BY <1>0, <1>1, <1>5, FS_AddElement DEF Numbered
<1>7. /\ q' \in Seq(Message) /\ Len(q') = Len(q) + 1
      /\ \A i \in 1..Len(q) : i \in 1..Len(q') /\ q'[i] = q[i]
      /\ q'[Len(q) + 1] = m /\ Len(q) + 1 \in 1..Len(q')
      /\ \A i \in 1..Len(q') : i \in 1..Len(q) \/ i = Len(q) + 1
  BY <1>0, <1>1, <1>4
<1>8. \A x \in accepted : x.id \in Nat /\ x.id < n
  BY <1>0, <1>3, NoMessageFacts DEF Numbered
<1> HIDE DEF m, n
<1>9. Numbered'
  <2>1. \A x \in accepted' : x.id <= n
    BY <1>1, <1>3, <1>4, <1>8
  <2> QED BY <1>6, <2>1 DEF Numbered
<1>10. Queued'
  <2>1. \A i \in 1..Len(q') : q'[i] \in accepted' /\ q'[i].conn = conn
    BY <1>0, <1>1, <1>4, <1>7 DEF Queued
  <2>2. ASSUME NEW i \in 1..Len(q'), NEW j \in 1..Len(q'), i < j PROVE q'[i].id < q'[j].id
    <3>1. i \in 1..Len(q) /\ q'[i] = q[i] /\ q[i] \in accepted
      BY <1>0, <1>7, <2>2 DEF Queued
    <3>2. CASE j \in 1..Len(q)
      BY <1>0, <1>7, <2>2, <3>1, <3>2 DEF Queued
    <3>3. CASE j = Len(q) + 1
      BY <1>4, <1>7, <1>8, <3>1, <3>3
    <3> QED BY <1>7, <3>2, <3>3
  <2> QED BY <1>2, <2>1, <2>2 DEF Queued
<1>11. Known'
  BY <1>0, <1>1, <1>2 DEF Known, IsData
<1>12. Later'
  <2>1. ASSUME NEW k \in 1..Len(q')
        PROVE  /\ \A i \in 1..Len(relayed) : relayed[i].id < q'[k].id
               /\ \A i \in 1..Len(events) : IsData(events[i]) => events[i].msg.id < q'[k].id
    <3>1. CASE k \in 1..Len(q)
      BY <1>0, <1>7, <3>1 DEF Later
    <3>2. CASE k = Len(q) + 1
      BY <1>0, <1>4, <1>7, <1>8, <3>2 DEF Known
    <3> QED BY <1>7, <3>1, <3>2
  <2> QED BY <1>2, <2>1 DEF Later, IsData
<1>13. InOrder' /\ Latest'
  BY <1>0, <1>2 DEF InOrder, Latest, IsData
<1>14. NothingLost'
  <2>1. DOMAIN q = 1..Len(q) /\ DOMAIN q' = 1..Len(q')
    BY <1>0, <1>7
  <2>2. \E i \in DOMAIN q' : q'[i] = m
    BY <1>7, <2>1
  <2>3. ASSUME NEW x, \E i \in DOMAIN q : q[i] = x PROVE \E i \in DOMAIN q' : q'[i] = x
    BY <1>7, <2>1, <2>3
  <2> QED BY <1>0, <1>1, <1>2, <2>2, <2>3 DEF NothingLost
<1>15. TypeOK'
  <2>1. HandlerTypeOK'
    BY <1>0, <1>2 DEF HandlerTypeOK
  <2>2. accepted' \subseteq Message
    BY <1>0, <1>1, <1>4
  <2>3. ClientTypeOK'
    BY <1>0, <1>1, <1>2, <1>7, <2>2 DEF ClientTypeOK
  <2> QED BY <2>1, <2>3 DEF TypeOK
<1>16. Caller'
  BY <1>0, <1>1, <1>2 DEF Caller
<1> QED BY <1>9, <1>10, <1>11, <1>12, <1>13, <1>14, <1>15, <1>16 DEF Inv

\* The end of a connection that was up, as the server sees it.
LEMMA HangupKeepsOrder ==
  ASSUME Inv, link = "up", Hangup, link' # "connecting",
         UNCHANGED <<fClients, relayed, conn, fOutgoingMessageQueue, accepted>>,
         faulty \subseteq faulty'
  PROVE  /\ events' \in Seq(EventType) /\ Known' /\ Later' /\ InOrder' /\ NothingLost' /\ Latest'
         /\ live' = 0 /\ down' = << >> /\ view' = {}
<1>0. TypeOK /\ Caller /\ conn \in Nat /\ conn \in 0..MaxConnections /\ fClients \subseteq Conns
  BY Typed DEF Inv
<1>1. conn \in 1..MaxConnections
  BY <1>0 DEF Caller
<1> DEFINE e == Event("WS_CLOSE", conn, NoMessage)
<1>2. e \in EventType /\ ~IsData(e) /\ e.msg = NoMessage /\ e.conn = conn /\ conn <= conn
  BY <1>0, <1>1 DEF Event, EventType, Conns, IsData
<1>3. events' = Append(events, e)
  BY DEF Hangup
<1> HIDE DEF e
<1>4. events' \in Seq(EventType) /\ Known' /\ Later' /\ InOrder' /\ NothingLost'
  BY <1>2, <1>3, PushKeepsOrder
<1>5. 0 \notin Conns
  BY HandlerConstants, NoPeer DEF Conns
<1>6. Latest'
  BY <1>0, <1>5 DEF Latest, Hangup
<1> QED BY <1>4, <1>6 DEF Hangup

\* The context goes with its connection; the queue is empty by then.
LEMMA JoinInv ==
  ASSUME Inv, Disconnect_Join
  PROVE  Inv'
<1>0. /\ TypeOK /\ HandlerTypeOK /\ ClientTypeOK /\ Caller /\ Known /\ Numbered /\ Queued
      /\ Later /\ InOrder /\ NothingLost /\ Latest /\ conn \in Nat
  BY Typed DEF Inv, TypeOK
<1>1. /\ at = "join" /\ fLwsContext' = FALSE /\ fWsi' = FALSE /\ fConnected' = FALSE
      /\ fOutgoingMessageQueue' = << >> /\ writable' = FALSE /\ svc' = "none" /\ link' = "none"
      /\ UNCHANGED <<fClients, relayed, beat, running, setting, budget>>
      /\ UNCHANGED <<fShutdownRequested, fConnectionAttemptComplete, conn, messageBuffer, accepted, faulty>>
  BY DEF Disconnect_Join, serverRest
<1>2. fOutgoingMessageQueue' = fOutgoingMessageQueue
  BY <1>0, <1>1 DEF Caller
<1>3. at' \in {"attempt", "idle"} /\ tries' \in 0..fMaxRetries
  BY <1>0, RetriesAssumption DEF Disconnect_Join, Retry, Return, ClientTypeOK
<1>4. /\ events' \in Seq(EventType) /\ Known' /\ Later' /\ InOrder' /\ NothingLost' /\ Latest'
      /\ live' = 0 /\ down' \in Seq(Down) /\ view' \in (SUBSET Conns) \cup {Garbled}
  <2>1. CASE link = "up"
    <3>1. Hangup
      BY <2>1 DEF Disconnect_Join
    <3>2. link' # "connecting" /\ faulty \subseteq faulty'
      BY <1>1
    <3>3. /\ events' \in Seq(EventType) /\ Known' /\ Later' /\ InOrder' /\ NothingLost' /\ Latest'
          /\ live' = 0 /\ down' = << >> /\ view' = {}
      BY <1>1, <1>2, <2>1, <3>1, <3>2, HangupKeepsOrder
    <3> QED BY <3>3
  <2>2. CASE link # "up"
    <3>1. UNCHANGED <<live, down, events, view>>
      BY <2>2 DEF Disconnect_Join
    <3>2. Known'
      BY <1>0, <1>1, <3>1 DEF Known, IsData
    <3>3. Later' /\ InOrder' /\ NothingLost' /\ Latest'
      BY <1>0, <1>1, <1>2, <3>1 DEF Later, InOrder, NothingLost, Latest, IsData
    <3>4. live = 0
      BY <1>0, <2>2 DEF Caller
    <3> QED BY <1>0, <3>1, <3>2, <3>3, <3>4 DEF HandlerTypeOK, ClientTypeOK, EventType
  <2> QED BY <2>1, <2>2
<1>5. Numbered' /\ Queued'
  BY <1>0, <1>1, <1>2 DEF Numbered, Queued
<1>6. TypeOK'
  <2>1. HandlerTypeOK'
    BY <1>0, <1>1, <1>4, HandlerConstants DEF HandlerTypeOK, EventType
  <2>2. fOutgoingMessageQueue' \in Seq(Message)
    BY <1>0, <1>2 DEF ClientTypeOK
  <2>3. writable' \in BOOLEAN /\ fLwsContext' \in BOOLEAN /\ fWsi' \in BOOLEAN /\ fConnected' \in BOOLEAN
    BY <1>1, Zenon
  <2>4. ClientTypeOK'
    BY <1>0, <1>1, <1>3, <1>4, <2>2, <2>3 DEF ClientTypeOK
  <2> QED BY <2>1, <2>4 DEF TypeOK
<1>7. Caller'
  BY <1>1, <1>3, <1>4 DEF Caller
<1> QED BY <1>4, <1>5, <1>6, <1>7 DEF Inv

-----------------------------------------------------------------------------
(* The service thread's steps *)

\* fConnectCv wakes a caller that waits and leaves every other where it is.
LEMMA NotifyFacts ==
  ASSUME TypeOK, Notify
  PROVE  /\ at' = at \/ (at = "blocked" /\ at' = "test")
         /\ tries' = tries
BY DEF Notify

LEMMA ConnectionErrorInv ==
  ASSUME Inv, ConnectionError
  PROVE  Inv'
<1>0. /\ TypeOK /\ HandlerTypeOK /\ ClientTypeOK /\ Caller /\ Known /\ Numbered /\ Queued
      /\ Later /\ InOrder /\ NothingLost /\ Latest
  BY DEF Inv, TypeOK
<1>1. /\ svc = "run" /\ link = "connecting" /\ link' = "lost"
      /\ fConnected' = FALSE /\ fConnectionAttemptComplete' = TRUE /\ fWsi' = FALSE
      /\ fOutgoingMessageQueue' = << >>
      /\ UNCHANGED <<events, fClients, live, down, relayed, budget, beat, running, setting>>
      /\ UNCHANGED <<fShutdownRequested, svc, conn, messageBuffer, view, fLwsContext, writable, accepted, faulty>>
  BY DEF ConnectionError, Serving, handlerVars, inVars
<1>2. fOutgoingMessageQueue' = fOutgoingMessageQueue /\ fLwsContext
  BY <1>0, <1>1 DEF Caller
<1>3. /\ at' = at \/ (at = "blocked" /\ at' = "test")
      /\ tries' = tries
  BY <1>0, NotifyFacts DEF ConnectionError
<1>b. fWsi' \in BOOLEAN /\ fConnected' \in BOOLEAN /\ fConnectionAttemptComplete' \in BOOLEAN
  BY <1>1, Zenon
<1>4. TypeOK'
  <2>1. HandlerTypeOK'
    BY <1>0, <1>1 DEF HandlerTypeOK
  <2>2. ClientTypeOK'
    BY <1>0, <1>1, <1>2, <1>3, <1>b DEF ClientTypeOK
  <2> QED BY <2>1, <2>2 DEF TypeOK
<1>5. Caller'
  BY <1>0, <1>1, <1>2, <1>3 DEF Caller
<1>6. Known'
  BY <1>0, <1>1 DEF Known, IsData
<1>7. Numbered' /\ Queued' /\ Later' /\ InOrder' /\ NothingLost' /\ Latest'
  BY <1>0, <1>1, <1>2 DEF Numbered, Queued, Later, InOrder, NothingLost, Latest, IsData
<1> QED BY <1>4, <1>5, <1>6, <1>7 DEF Inv

\* The new connection is not on the server's list before its WS_READY.
LEMMA EstablishedInv ==
  ASSUME Inv, Established
  PROVE  Inv'
<1>0. /\ TypeOK /\ HandlerTypeOK /\ ClientTypeOK /\ Caller /\ Known /\ Numbered /\ Queued
      /\ Later /\ InOrder /\ NothingLost /\ Latest
      /\ conn \in 0..MaxConnections /\ MaxConnections \in Nat
  BY Typed DEF Inv, TypeOK
<1> DEFINE e == Event("WS_READY", conn, NoMessage)
<1>1. /\ svc = "run" /\ link = "connecting" /\ link' = "up" /\ live' = conn
      /\ fConnected' = TRUE /\ fWsi' = TRUE /\ fConnectionAttemptComplete' = TRUE /\ writable' = TRUE
      /\ events' = Append(events, e)
      /\ UNCHANGED <<fClients, relayed, beat, running, setting, down, budget>>
      /\ UNCHANGED <<fShutdownRequested, svc, conn, messageBuffer, view, fLwsContext,
                     fOutgoingMessageQueue, accepted, faulty>>
  BY DEF Established, Serving, serverRest, inVars
<1>2. fLwsContext /\ conn \in 1..MaxConnections
  BY <1>0, <1>1 DEF Caller
<1>3. /\ at' = at \/ (at = "blocked" /\ at' = "test")
      /\ tries' = tries
  BY <1>0, NotifyFacts DEF Established
<1>b. /\ fWsi' \in BOOLEAN /\ fConnected' \in BOOLEAN /\ fConnectionAttemptComplete' \in BOOLEAN
      /\ writable' \in BOOLEAN
  BY <1>1, Zenon
<1>c. e \in EventType /\ ~IsData(e) /\ e.msg = NoMessage /\ e.conn = conn /\ conn <= conn
  BY <1>0, <1>2 DEF Event, EventType, Conns, IsData
<1> HIDE DEF e
<1>4. events' \in Seq(EventType) /\ Known' /\ Later' /\ InOrder' /\ NothingLost'
  <2>1. link' # "connecting" /\ faulty \subseteq faulty'
    BY <1>1
  <2> QED BY <1>1, <1>c, <2>1, PushKeepsOrder
<1>5. Latest'
  <2>1. conn \notin fClients
    BY <1>0, <1>1, NoPeer DEF Known
  <2> QED BY <1>1, <2>1 DEF Latest
<1>6. TypeOK'
  <2>1. HandlerTypeOK'
    BY <1>0, <1>1, <1>4 DEF HandlerTypeOK, EventType
  <2>2. ClientTypeOK'
    BY <1>0, <1>1, <1>3, <1>b DEF ClientTypeOK
  <2> QED BY <2>1, <2>2 DEF TypeOK
<1>7. Caller'
  BY <1>0, <1>1, <1>2, <1>3 DEF Caller
<1>8. Numbered' /\ Queued'
  BY <1>0, <1>1 DEF Numbered, Queued
<1> QED BY <1>4, <1>5, <1>6, <1>7, <1>8 DEF Inv

LEMMA FragmentInv ==
  ASSUME Inv, ReceiveFragment
  PROVE  Inv'
<1>0. /\ TypeOK /\ HandlerTypeOK /\ ClientTypeOK /\ Caller /\ MaxEvents \in Nat
  BY HandlerConstants DEF Inv, TypeOK
<1>1. /\ UNCHANGED <<at, tries, fConnected, fShutdownRequested, fConnectionAttemptComplete, svc, link, conn,
                     view, fLwsContext, fWsi, fOutgoingMessageQueue, writable, accepted, faulty>>
      /\ UNCHANGED <<events, live, down, fClients, relayed, beat, running, setting>>
  BY DEF ReceiveFragment, callVars, flagVars, netVars, serverRest
<1>2. messageBuffer' \in 0..MaxConnections /\ budget' \in 0..MaxEvents
  BY <1>0 DEF ReceiveFragment, Spends, ClientTypeOK, HandlerTypeOK
<1>3. TypeOK'
  <2>1. HandlerTypeOK'
    BY <1>0, <1>1, <1>2 DEF HandlerTypeOK
  <2>2. ClientTypeOK'
    BY <1>0, <1>1, <1>2 DEF ClientTypeOK
  <2> QED BY <2>1, <2>2 DEF TypeOK
<1>4. Caller'
  BY <1>0, <1>1 DEF Caller
<1> QED BY <1>1, <1>3, <1>4, LocalKeeps

\* The view becomes the roster received, or the garbled one.
LEMMA FinalInv ==
  ASSUME Inv, ReceiveFinal
  PROVE  Inv'
<1>0. /\ TypeOK /\ HandlerTypeOK /\ ClientTypeOK /\ Caller /\ Known /\ Numbered /\ Queued
      /\ Later /\ InOrder /\ NothingLost /\ Latest
      /\ down \in Seq(Down) /\ MaxConnections \in Nat
  BY Typed DEF Inv, TypeOK
<1>1. /\ UNCHANGED <<at, tries, fConnected, fShutdownRequested, fConnectionAttemptComplete, svc, link, conn,
                     fLwsContext, fWsi, fOutgoingMessageQueue, writable, accepted, faulty>>
      /\ UNCHANGED <<events, live, fClients, relayed, budget, beat, running, setting>>
      /\ down # << >> /\ down' = Tail(down) /\ messageBuffer' = 0
      /\ \/ view' = Garbled
         \/ Head(down).type = "clients" /\ view' = Head(down).users
         \/ Head(down).type # "clients" /\ view' = view
  BY DEF ReceiveFinal, callVars, flagVars, netVars, serverRest
<1>2. /\ Head(down) = down[1] /\ Head(down) \in Down /\ Len(down) \in Nat \ {0}
      /\ Tail(down) \in Seq(Down) /\ Len(Tail(down)) = Len(down) - 1
      /\ \A i \in 1..Len(Tail(down)) : i + 1 \in 1..Len(down) /\ Tail(down)[i] = down[i + 1]
      /\ \A i \in 1..Len(down) : i = 1 \/ (i - 1 \in 1..Len(Tail(down)) /\ Tail(down)[i - 1] = down[i])
  BY <1>0, <1>1
<1>3. Head(down).type = "clients" => Head(down).users \subseteq Conns
  BY <1>2 DEF Down
<1>4. TypeOK'
  <2>1. HandlerTypeOK'
    BY <1>0, <1>1, <1>2 DEF HandlerTypeOK
  <2>a. view \in (SUBSET Conns) \cup {Garbled}
    BY <1>0 DEF ClientTypeOK
  <2>2. view' \in (SUBSET Conns) \cup {Garbled}
    <3>1. CASE view' = Garbled
      BY <3>1
    <3>2. CASE Head(down).type = "clients" /\ view' = Head(down).users
      BY <1>3, <3>2
    <3>3. CASE view' = view
      BY <2>a, <3>3
    <3> QED BY <1>1, <3>1, <3>2, <3>3
  <2>3. ClientTypeOK'
    BY <1>0, <1>1, <2>2 DEF ClientTypeOK
  <2> QED BY <2>1, <2>3 DEF TypeOK
<1>5. Caller' /\ Numbered' /\ Queued' /\ Known' /\ Later' /\ InOrder' /\ NothingLost'
  BY <1>0, <1>1 DEF Caller, Numbered, Queued, Known, Later, InOrder, NothingLost, IsData
<1>6. Latest'
  <2> SUFFICES ASSUME live \in fClients
               PROVE  \/ \E i \in 1..Len(down') :
                           /\ down'[i] = Roster(fClients)
                           /\ \A j \in 1..Len(down') : i < j => down'[j].type # "clients"
                      \/ /\ \A j \in 1..Len(down') : down'[j].type # "clients"
                         /\ view' \in {fClients, Garbled}
    BY <1>1 DEF Latest
  <2>1. CASE \E i \in 1..Len(down) :
               /\ down[i] = Roster(fClients)
               /\ \A j \in 1..Len(down) : i < j => down[j].type # "clients"
    <3>1. PICK i \in 1..Len(down) : /\ down[i] = Roster(fClients)
                                    /\ \A j \in 1..Len(down) : i < j => down[j].type # "clients"
      BY <2>1
    <3>2. CASE i = 1
      <4>1. \A j \in 1..Len(down') : down'[j].type # "clients"
        <5> SUFFICES ASSUME NEW j \in 1..Len(down') PROVE down'[j].type # "clients"
          OBVIOUS
        <5>1. j + 1 \in 1..Len(down) /\ i < j + 1 /\ down'[j] = down[j + 1]
          BY <1>1, <1>2, <3>2
        <5> QED BY <3>1, <5>1
      <4>2. view' \in {fClients, Garbled}
        BY <1>1, <1>2, <3>1, <3>2 DEF Roster
      <4> QED BY <4>1, <4>2
    <3>3. CASE i # 1
      <4>1. i - 1 \in 1..Len(down') /\ down'[i - 1] = Roster(fClients)
        BY <1>1, <1>2, <3>1, <3>3
      <4>2. \A j \in 1..Len(down') : i - 1 < j => down'[j].type # "clients"
        <5> SUFFICES ASSUME NEW j \in 1..Len(down'), i - 1 < j PROVE down'[j].type # "clients"
          OBVIOUS
        <5>1. j + 1 \in 1..Len(down) /\ i < j + 1 /\ down'[j] = down[j + 1]
          BY <1>1, <1>2
        <5> QED BY <3>1, <5>1
      <4> QED BY <4>1, <4>2
    <3> QED BY <3>2, <3>3
  <2>2. CASE (\A j \in 1..Len(down) : down[j].type # "clients") /\ view \in {fClients, Garbled}
    <3>1. \A j \in 1..Len(down') : down'[j].type # "clients"
      BY <1>1, <1>2, <2>2
    <3>2. view' \in {fClients, Garbled}
      BY <1>1, <1>2, <2>2
    <3> QED BY <3>1, <3>2
  <2> QED BY <1>0, <2>1, <2>2 DEF Latest
<1> QED BY <1>4, <1>5, <1>6 DEF Inv

\* The callback takes the oldest message from the queue, if there is one.
LEMMA WriteableInv ==
  ASSUME Inv, Writeable
  PROVE  Inv'
<1>0. /\ TypeOK /\ HandlerTypeOK /\ ClientTypeOK /\ Caller /\ Numbered /\ Latest
      /\ conn \in 0..MaxConnections /\ MaxEvents \in Nat /\ MaxConnections \in Nat
  BY Typed, HandlerConstants DEF Inv, TypeOK
<1>1. /\ link = "up"
      /\ UNCHANGED <<at, tries, fConnected, fShutdownRequested, fConnectionAttemptComplete, svc, link, conn,
                     messageBuffer, view, fLwsContext, fWsi, accepted>>
      /\ UNCHANGED <<live, down, fClients, relayed, beat, running, setting>>
  BY DEF Writeable, callVars, flagVars, netVars, inVars, serverRest
<1>2. fLwsContext /\ conn \in 1..MaxConnections
  BY <1>0, <1>1 DEF Caller
<1>3. faulty \subseteq faulty' /\ faulty' \subseteq faulty \cup {conn} /\ budget' \in 0..MaxEvents
  BY <1>0 DEF Writeable, Spends, HandlerTypeOK
<1>w. writable' \in BOOLEAN
  <2>1. (Len(fOutgoingMessageQueue) > 1) \in BOOLEAN
    OBVIOUS
  <2> QED BY <2>1, Zenon DEF Writeable
<1>4. /\ events' \in Seq(EventType) /\ fOutgoingMessageQueue' \in Seq(Message)
      /\ Queued' /\ Known' /\ Later' /\ InOrder' /\ NothingLost'
      /\ fOutgoingMessageQueue = << >> => fOutgoingMessageQueue' = << >>
  <2>1. CASE fOutgoingMessageQueue = << >>
    <3>1. UNCHANGED <<fOutgoingMessageQueue, events, faulty>>
      BY <2>1 DEF Writeable
    <3>2. Queued' /\ Known' /\ Later'
      BY <1>1, <3>1 DEF Inv, Queued, Known, Later, IsData
    <3>3. InOrder' /\ NothingLost'
      BY <1>1, <3>1 DEF Inv, InOrder, NothingLost, IsData
    <3> QED BY <1>0, <2>1, <3>1, <3>2, <3>3, Typed
  <2>2. CASE fOutgoingMessageQueue # << >>
    <3>1. /\ fOutgoingMessageQueue' = Tail(fOutgoingMessageQueue)
          /\ \/ /\ events' = Append(events, Event("WS_DATA", conn, Head(fOutgoingMessageQueue)))
                /\ faulty' = faulty
             \/ events' = events /\ faulty' = faulty \cup {conn}
      BY <2>2 DEF Writeable
    <3> QED BY <1>1, <2>2, <3>1, WriteKeepsOrder
  <2> QED BY <2>1, <2>2
<1>5. TypeOK'
  <2>1. HandlerTypeOK'
    BY <1>0, <1>1, <1>3, <1>4 DEF HandlerTypeOK, EventType
  <2>2. faulty' \subseteq 1..MaxConnections
    BY <1>0, <1>2, <1>3 DEF ClientTypeOK
  <2>3. ClientTypeOK'
    BY <1>0, <1>1, <1>4, <1>w, <2>2 DEF ClientTypeOK
  <2> QED BY <2>1, <2>3 DEF TypeOK
<1>6. Caller'
  BY <1>0, <1>1, <1>2, <1>3, <1>4 DEF Caller
<1>7. Numbered' /\ Latest'
  BY <1>0, <1>1 DEF Numbered, Latest
<1> QED BY <1>4, <1>5, <1>6, <1>7 DEF Inv

\* What is dropped from the queue belongs to a connection that broke.
LEMMA ClosedInv ==
  ASSUME Inv, Closed
  PROVE  Inv'
<1>0. /\ TypeOK /\ HandlerTypeOK /\ ClientTypeOK /\ Caller /\ Known /\ Numbered /\ Queued
      /\ Later /\ InOrder /\ NothingLost /\ Latest
      /\ DOMAIN fOutgoingMessageQueue = 1..Len(fOutgoingMessageQueue)
  BY Typed DEF Inv, TypeOK
<1>1. /\ svc = "run" /\ link = "lost" /\ fConnected
      /\ fConnected' = FALSE /\ fConnectionAttemptComplete' = TRUE /\ fWsi' = FALSE
      /\ fOutgoingMessageQueue' = << >>
      /\ UNCHANGED <<events, fClients, live, down, relayed, budget, beat, running, setting>>
      /\ UNCHANGED <<fShutdownRequested, svc, link, conn, messageBuffer, view, fLwsContext, writable,
                     accepted, faulty>>
  BY DEF Closed, Serving, handlerVars, inVars, netVars
<1>2. fLwsContext /\ conn \in faulty
  BY <1>0, <1>1 DEF Caller
<1>3. /\ at' = at \/ (at = "blocked" /\ at' = "test")
      /\ tries' = tries
  BY <1>0, NotifyFacts DEF Closed
<1>b. fWsi' \in BOOLEAN /\ fConnected' \in BOOLEAN /\ fConnectionAttemptComplete' \in BOOLEAN
  BY <1>1, Zenon
<1>c. fOutgoingMessageQueue' \in Seq(Message) /\ Len(fOutgoingMessageQueue') = 0
  BY <1>1
<1>4. TypeOK'
  <2>1. HandlerTypeOK'
    BY <1>0, <1>1 DEF HandlerTypeOK
  <2>2. ClientTypeOK'
    BY <1>0, <1>1, <1>3, <1>b, <1>c DEF ClientTypeOK
  <2> QED BY <2>1, <2>2 DEF TypeOK
<1>5. Caller'
  BY <1>0, <1>1, <1>2, <1>3 DEF Caller
<1>6. Numbered' /\ Known' /\ InOrder' /\ Latest'
  BY <1>0, <1>1 DEF Numbered, Known, InOrder, Latest, IsData
<1>7. Queued' /\ Later'
  BY <1>c DEF Queued, Later
<1>8. NothingLost'
  <2>1. \A i \in DOMAIN fOutgoingMessageQueue : fOutgoingMessageQueue[i].conn \in faulty
    BY <1>0, <1>2 DEF Queued
  <2> QED BY <1>0, <1>1, <2>1 DEF NothingLost
<1> QED BY <1>4, <1>5, <1>6, <1>7, <1>8 DEF Inv

LEMMA ServiceEndsInv ==
  ASSUME Inv, LwsServiceLoop_Ends
  PROVE  Inv'
<1>0. /\ TypeOK /\ HandlerTypeOK /\ ClientTypeOK /\ Caller /\ Known /\ Numbered /\ Queued
      /\ Later /\ InOrder /\ NothingLost /\ Latest
      /\ conn \in 0..MaxConnections /\ MaxEvents \in Nat /\ MaxConnections \in Nat
  BY Typed, HandlerConstants DEF Inv, TypeOK
<1>1. /\ svc = "run" /\ svc' = "stopped"
      /\ UNCHANGED <<events, live, down, fClients, relayed, beat, running, setting>>
      /\ UNCHANGED <<link, conn, messageBuffer, view, fLwsContext, fWsi, fOutgoingMessageQueue, writable,
                     accepted>>
  BY DEF LwsServiceLoop_Ends, Serving, serverRest, inVars
<1>2. fLwsContext /\ conn \in 1..MaxConnections
  BY <1>0, <1>1 DEF Caller
<1>3. /\ at' = at \/ (at = "blocked" /\ at' = "test")
      /\ tries' = tries
  <2>1. CASE UNCHANGED callVars
    BY <2>1 DEF callVars
  <2>2. CASE Notify
    BY <1>0, <2>2, NotifyFacts
  <2> QED BY <2>1, <2>2 DEF LwsServiceLoop_Ends
<1>4. /\ faulty \subseteq faulty' /\ faulty' \subseteq faulty \cup {conn} /\ budget' \in 0..MaxEvents
      /\ fConnected' => fConnected
  BY <1>0 DEF LwsServiceLoop_Ends, Spends, HandlerTypeOK, flagVars
<1>b. fShutdownRequested' \in BOOLEAN /\ fConnected' \in BOOLEAN /\ fConnectionAttemptComplete' \in BOOLEAN
  <2>1. fShutdownRequested \in BOOLEAN /\ fConnected \in BOOLEAN /\ fConnectionAttemptComplete \in BOOLEAN
    BY <1>0 DEF ClientTypeOK
  <2> QED BY <2>1, Zenon DEF LwsServiceLoop_Ends, flagVars
<1>5. TypeOK'
  <2>1. HandlerTypeOK'
    BY <1>0, <1>1, <1>4 DEF HandlerTypeOK
  <2>2. faulty' \subseteq 1..MaxConnections
    BY <1>0, <1>2, <1>4 DEF ClientTypeOK
  <2>3. ClientTypeOK'
    BY <1>0, <1>1, <1>3, <1>b, <2>2 DEF ClientTypeOK
  <2> QED BY <2>1, <2>3 DEF TypeOK
<1>6. Caller'
  BY <1>0, <1>1, <1>2, <1>3, <1>4 DEF Caller
<1>7. Numbered' /\ Queued' /\ Known' /\ Later' /\ Latest' /\ InOrder'
  BY <1>0, <1>1 DEF Numbered, Queued, Known, Later, Latest, InOrder, IsData
<1>8. NothingLost'
  BY <1>0, <1>1, <1>4 DEF NothingLost
<1> QED BY <1>5, <1>6, <1>7, <1>8 DEF Inv

LEMMA LinkLostInv ==
  ASSUME Inv, LinkLost
  PROVE  Inv'
<1>0. /\ TypeOK /\ HandlerTypeOK /\ ClientTypeOK /\ Caller /\ Numbered /\ Queued
      /\ conn \in 0..MaxConnections /\ MaxEvents \in Nat /\ MaxConnections \in Nat
  BY Typed, HandlerConstants DEF Inv, TypeOK
<1>1. /\ link = "up" /\ link' = "lost" /\ Hangup /\ writable' = FALSE
      /\ faulty' = faulty \cup {conn}
      /\ UNCHANGED <<fClients, relayed, beat, running, setting>>
      /\ UNCHANGED <<at, tries, fConnected, fShutdownRequested, fConnectionAttemptComplete, svc, conn,
                     messageBuffer, fLwsContext, fWsi, fOutgoingMessageQueue, accepted>>
  BY DEF LinkLost, serverRest, callVars, flagVars
<1>2. /\ events' \in Seq(EventType) /\ Known' /\ Later' /\ InOrder' /\ NothingLost' /\ Latest'
      /\ live' = 0 /\ down' = << >> /\ view' = {}
  <2>1. link' # "connecting" /\ faulty \subseteq faulty'
    BY <1>1
  <2> QED BY <1>1, <2>1, HangupKeepsOrder
<1>3. fLwsContext /\ conn \in 1..MaxConnections
  BY <1>0, <1>1 DEF Caller
<1>4. TypeOK'
  <2>1. budget' \in 0..MaxEvents
    BY <1>0 DEF LinkLost, Spends, HandlerTypeOK
  <2>2. HandlerTypeOK'
    BY <1>0, <1>1, <1>2, <2>1 DEF HandlerTypeOK, EventType
  <2>3. /\ faulty' \subseteq 1..MaxConnections
        /\ view' \in (SUBSET Conns) \cup {Garbled}
    BY <1>0, <1>1, <1>2, <1>3 DEF ClientTypeOK
  <2>4. writable' \in BOOLEAN
    BY <1>1, Zenon
  <2>5. ClientTypeOK'
    BY <1>0, <1>1, <2>3, <2>4 DEF ClientTypeOK
  <2> QED BY <2>2, <2>5 DEF TypeOK
<1>5. Caller'
  BY <1>0, <1>1, <1>2, <1>3 DEF Caller
<1>6. Numbered' /\ Queued'
  BY <1>0, <1>1 DEF Numbered, Queued
<1> QED BY <1>2, <1>4, <1>5, <1>6 DEF Inv

-----------------------------------------------------------------------------
(* The session *)

LEMMA InitInv == Init => Inv
<1> SUFFICES ASSUME Init PROVE Inv
  OBVIOUS
<1> USE DEF Init, HandlerInit, ClientInit
<1>1. TypeOK
  <2>1. HandlerTypeOK
    BY HandlerConstants DEF HandlerTypeOK
  <2>2. /\ tries \in 0..fMaxRetries /\ conn \in 0..MaxConnections /\ messageBuffer \in 0..MaxConnections
        /\ fOutgoingMessageQueue \in Seq(Message) /\ view \in (SUBSET Conns) \cup {Garbled}
    BY HandlerConstants, RetriesAssumption
  <2>3. /\ fLwsContext \in BOOLEAN /\ fWsi \in BOOLEAN /\ fConnected \in BOOLEAN
        /\ fShutdownRequested \in BOOLEAN /\ fConnectionAttemptComplete \in BOOLEAN
        /\ writable \in BOOLEAN
    BY Zenon
  <2>4. ClientTypeOK
    BY <2>2, <2>3 DEF ClientTypeOK
  <2> QED BY <2>1, <2>4 DEF TypeOK
<1>2. Caller /\ Queued /\ Known /\ Later
  BY DEF Caller, Queued, Known, Later
<1>3. Numbered
  BY FS_EmptySet DEF Numbered
<1>4. InOrder /\ NothingLost /\ Latest
  BY DEF InOrder, NothingLost, Latest
<1> QED BY <1>1, <1>2, <1>3, <1>4 DEF Inv

LEMMA NextInv == Inv /\ [Next]_vars => Inv'
<1> SUFFICES ASSUME Inv, [Next]_vars PROVE Inv'
  OBVIOUS
<1>1. ASSUME HandlerNext, UNCHANGED clientVars PROVE Inv'
  BY <1>1, WsReadyInv, WsCloseInv, WsDataInv, QuietInv, PeerInv DEF HandlerNext, MainThread
<1>2. ASSUME NEW f \in {"Connect", "Disconnect", "Send"}, Call(f) PROVE Inv'
  BY <1>2, CallInv
<1>3. CASE CallerStep
  BY <1>3, AttemptInv, ConnectWaitInv, DrainInv, JoinInv, SendPushInv, PushingInv DEF CallerStep
<1>4. CASE ServiceStep
  BY <1>4, ConnectionErrorInv, EstablishedInv, FinalInv, WriteableInv, ClosedInv, ServiceEndsInv
     DEF ServiceStep
<1>5. CASE ReceiveFragment \/ LinkLost
  BY <1>5, FragmentInv, LinkLostInv
<1>6. CASE UNCHANGED vars
  <2>1. /\ UNCHANGED <<events, fClients, live, down, relayed, budget, beat, running, setting>>
        /\ UNCHANGED clientVars
    BY <1>6 DEF vars, handlerVars
  <2>2. UNCHANGED <<conn, link, fOutgoingMessageQueue, accepted, faulty, view>>
    BY <2>1 DEF clientVars, netVars, inVars
  <2>3. HandlerTypeOK'
    BY <2>1 DEF Inv, TypeOK, HandlerTypeOK
  <2>4. Known' /\ Later' /\ InOrder' /\ NothingLost' /\ Latest'
    BY <2>1, <2>2 DEF Inv, Known, Later, InOrder, NothingLost, Latest, IsData
  <2> QED BY <2>1, <2>3, <2>4, ServerFrame
<1> QED BY <1>1, <1>2, <1>3, <1>4, <1>5, <1>6 DEF Next

\* The whole invariant holds in every reachable state of a session, for any
\* number of peers, connections, messages and retries.
THEOREM InvAlways == Spec => []Inv
BY InitInv, NextInv, PTL DEF Spec

\* Every variable of the client and of the server keeps its type; in
\* particular no message and no connection number exceeds its bound.
THEOREM TypeCorrect == Spec => []TypeOK
<1>1. Inv => TypeOK
  BY DEF Inv
<1> QED BY <1>1, InvAlways, PTL

\* The server handles the client's messages in the order they were sent, none
\* twice, and each on the connection it was sent for, across any sequence of
\* disconnections, failed writes and new connections.
THEOREM InOrderAlways == Spec => []InOrder
<1>1. Inv => InOrder
  BY DEF Inv
<1> QED BY <1>1, InvAlways, PTL

\* An accepted message disappears only with a connection that met a fault.
THEOREM NothingLostAlways == Spec => []NothingLost
<1>1. Inv => NothingLost
  BY DEF Inv
<1> QED BY <1>1, InvAlways, PTL

\* A client that is registered and has nothing more to receive shows the
\* server's list of clients, or a message garbled by an earlier connection.
THEOREM RosterAgreesAlways == Spec => []RosterAgrees
<1>1. Inv => RosterAgrees
  BY DEF Inv, Latest, RosterAgrees
<1> QED BY <1>1, InvAlways, PTL
=============================================================================
