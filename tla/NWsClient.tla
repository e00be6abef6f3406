----------------------------- MODULE NWsClient ------------------------------
(***************************************************************************)
(* NWsClient (base/NWsClient): the thread that calls Connect, Send and     *)
(* Disconnect, and the service thread that runs the libwebsockets          *)
(* callbacks.  They share the flags and the outgoing queue; fConnectCv is  *)
(* notified without fConnectMutex.  A callback is one step: the caller can *)
(* tell its parts apart only by facts that hold before or after it too.    *)
(*                                                                         *)
(* The fields keep their names; fLwsContext and fWsi are TRUE when they    *)
(* are not null.  libwebsockets is modelled from its use here: a requested *)
(* write callback comes while the connection is up, lws_write hands over a *)
(* whole message or fails, and the loss of a connection is reported by     *)
(* LWS_CALLBACK_CLOSED.                                                    *)
(***************************************************************************)
EXTENDS NWsHandler

CONSTANT fMaxRetries  \* connection attempts of one Connect

ASSUME RetriesAssumption == fMaxRetries \in Nat \ {0}

VARIABLES at,                         \* where the caller is, "idle" between calls
          tries,                      \* attempt of Connect, 0 in other calls
          fLwsContext, fWsi, fConnected, fShutdownRequested,
          fConnectionAttemptComplete,
          fOutgoingMessageQueue,
          svc,                        \* service thread: none, run, stopped
          link,                       \* none, connecting, up, lost
          conn,                       \* number of the last connection begun
          writable,                   \* a write callback has been asked for
          accepted,                   \* messages pushed by Send
          faulty,                     \* connections that met a fault
          messageBuffer,              \* connection its first fragment is of, or 0
          view                        \* last roster this connection's callback got

flagVars == <<fConnected, fShutdownRequested, fConnectionAttemptComplete>>
callVars == <<at, tries>>
netVars == <<svc, link, conn>>
inVars == <<messageBuffer, view>>
clientVars == <<callVars, flagVars, netVars, inVars, fLwsContext, fWsi,
                fOutgoingMessageQueue, writable, accepted, faulty>>
\* What a connection to the server changes, and what it leaves alone.
serverRest == <<fClients, relayed, beat, running, setting>>

Garbled == {0}  \* no roster has it: connections count from 1

ClientInit ==
  /\ at = "idle" /\ tries = 0
  /\ fLwsContext = FALSE /\ fWsi = FALSE
  /\ fConnected = FALSE /\ fShutdownRequested = FALSE
  /\ fConnectionAttemptComplete = FALSE /\ fOutgoingMessageQueue = << >>
  /\ svc = "none" /\ link = "none" /\ conn = 0 /\ writable = FALSE
  /\ accepted = {} /\ faulty = {} /\ messageBuffer = 0 /\ view = {}

-----------------------------------------------------------------------------
(* The caller *)

Call(f) ==
  /\ at = "idle" /\ tries' = IF f = "Connect" THEN 1 ELSE 0
  /\ at' = CASE f = "Connect" -> "attempt" [] f = "Disconnect" -> "drain" [] OTHER -> "push"
  /\ f = "Send" => Cardinality(accepted) < MaxMessages
  /\ UNCHANGED <<handlerVars, flagVars, netVars, inVars, fLwsContext, fWsi,
                 fOutgoingMessageQueue, writable, accepted, faulty>>

Return == at' = "idle" /\ tries' = 0

\* The end of an attempt that failed: the next one, or the end of Connect.
Retry ==
  IF tries < fMaxRetries THEN at' = "attempt" /\ tries' = tries + 1 ELSE Return

\* One attempt as far as the start of the service thread.  It ends at once if
\* there is a connection or a context, if the URI is malformed or no context
\* can be made; lws_client_connect_via_info may fail at once, too.
Connect_Attempt ==
  /\ at = "attempt"
  /\ \/ /\ fConnected \/ fLwsContext
        /\ Return /\ UNCHANGED <<flagVars, fWsi, fLwsContext, netVars>>
     \/ /\ ~fConnected /\ ~fLwsContext
        /\ fShutdownRequested' = FALSE /\ fConnectionAttemptComplete' = FALSE
        /\ UNCHANGED fConnected
        /\ \/ /\ Return \/ Retry
              /\ fWsi' = FALSE /\ UNCHANGED <<fLwsContext, netVars>>
           \/ /\ conn < MaxConnections /\ conn' = conn + 1
              /\ fLwsContext' = TRUE /\ fWsi' = TRUE
              /\ svc' = "run" /\ link' = "connecting"
              /\ at' = "test" /\ UNCHANGED tries
  /\ UNCHANGED <<handlerVars, fOutgoingMessageQueue, writable, accepted, faulty, inVars>>

\* fConnectCv.wait with its predicate: the test, then the wait.
Connect_Wait ==
  /\ \/ /\ at = "test"
        /\ at' = IF fConnectionAttemptComplete \/ fShutdownRequested THEN "check" ELSE "toBlock"
        /\ UNCHANGED tries
     \/ at = "toBlock" /\ at' = "blocked" /\ UNCHANGED tries
     \/ at = "check" /\ fConnected /\ Return
     \/ at = "check" /\ ~fConnected /\ at' = "drain" /\ UNCHANGED tries
  /\ UNCHANGED <<handlerVars, flagVars, netVars, inVars, fLwsContext, fWsi,
                 fOutgoingMessageQueue, writable, accepted, faulty>>

\* Disconnect, up to the wait for the service thread.
Disconnect_Drain_NoWait ==
  /\ at = "drain"
  /\ \/ /\ fLwsContext /\ at' = "join"
        /\ fShutdownRequested' = TRUE /\ fConnectionAttemptComplete' = TRUE
        /\ UNCHANGED <<tries, fConnected, fWsi>>
     \/ /\ ~fLwsContext /\ Return /\ fWsi' = FALSE /\ fConnected' = FALSE
        /\ UNCHANGED <<fShutdownRequested, fConnectionAttemptComplete>>
  /\ UNCHANGED <<handlerVars, netVars, inVars, fLwsContext, fOutgoingMessageQueue, writable,
                 accepted, faulty>>

Disconnect_Drain ==
  /\ at = "drain"
  /\ \/ /\ fLwsContext /\ fOutgoingMessageQueue = << >> /\ at' = "join"
        /\ fShutdownRequested' = TRUE /\ fConnectionAttemptComplete' = TRUE
        /\ UNCHANGED <<tries, fConnected, fWsi>>
     \/ /\ ~fLwsContext /\ Return /\ fWsi' = FALSE /\ fConnected' = FALSE
        /\ UNCHANGED <<fShutdownRequested, fConnectionAttemptComplete>>
  /\ UNCHANGED <<handlerVars, netVars, inVars, fLwsContext, fOutgoingMessageQueue, writable,
                 accepted, faulty>>

\* The server's side of a connection that ends; what the client knew is void.
Hangup ==
  /\ live' = 0 /\ down' = << >> /\ view' = {}
  /\ events' = Append(events, Event("WS_CLOSE", conn, NoMessage))

\* The join, and the end of the context with its connection.
Disconnect_Join ==
  /\ at = "join" /\ svc = "stopped"
  /\ fLwsContext' = FALSE /\ fWsi' = FALSE /\ fConnected' = FALSE
  /\ fOutgoingMessageQueue' = << >> /\ writable' = FALSE
  /\ svc' = "none" /\ link' = "none"
  /\ IF link = "up" THEN Hangup ELSE UNCHANGED <<live, down, events, view>>
  /\ IF tries > 0 THEN Retry ELSE Return
  /\ UNCHANGED <<serverRest, budget, fShutdownRequested, fConnectionAttemptComplete, conn,
                 messageBuffer, accepted, faulty>>

\* Send: the test of the flags, the push, the request for a write callback.
Send_Push ==
  /\ at = "push"
  /\ \/ ~(fConnected /\ fWsi) /\ at' = "idle"
     \/ fConnected /\ fWsi /\ at' = "pushing"
  /\ UNCHANGED <<tries, handlerVars, flagVars, netVars, inVars, fLwsContext, fWsi,
                 fOutgoingMessageQueue, writable, accepted, faulty>>

Send_Pushing ==
  /\ at = "pushing" /\ at' = "ask"
  /\ LET m == [id |-> Cardinality(accepted) + 1, conn |-> conn]
     IN /\ accepted' = accepted \cup {m}
        /\ fOutgoingMessageQueue' = Append(fOutgoingMessageQueue, m)
  /\ UNCHANGED <<tries, handlerVars, flagVars, netVars, inVars, fLwsContext, fWsi,
                 writable, faulty>>

\* lws_callback_on_writable of a null pointer: a crash, or nothing.
Send_Ask ==
  /\ at = "ask"
  /\ \/ at' = "idle" /\ writable' = (writable \/ fWsi)
     \/ ~fWsi /\ at' = "crashed" /\ UNCHANGED writable
  /\ UNCHANGED <<tries, handlerVars, flagVars, netVars, inVars, fLwsContext, fWsi,
                 fOutgoingMessageQueue, accepted, faulty>>

CallerStep ==
  \/ Connect_Attempt \/ Connect_Wait \/ Disconnect_Drain \/ Disconnect_Join
  \/ Send_Push \/ Send_Pushing \/ Send_Ask

-----------------------------------------------------------------------------
(* The service thread: LwsServiceLoop and the callbacks *)

\* fConnectCv.notify_all reaches a caller that waits, and no other.
Notify ==
  /\ at' = IF at = "blocked" THEN "test" ELSE at
  /\ UNCHANGED tries

Serving == svc = "run" /\ at # "crashed"

ConnectionError ==
  /\ Serving /\ link = "connecting" /\ link' = "lost"
  /\ fConnected' = FALSE /\ fConnectionAttemptComplete' = TRUE /\ fWsi' = FALSE
  /\ fOutgoingMessageQueue' = << >> /\ Notify
  /\ UNCHANGED <<handlerVars, fShutdownRequested, svc, conn, inVars, fLwsContext, writable,
                 accepted, faulty>>

Established ==
  /\ Serving /\ link = "connecting" /\ link' = "up"
  /\ fConnected' = TRUE /\ fWsi' = TRUE /\ fConnectionAttemptComplete' = TRUE
  /\ writable' = TRUE /\ Notify
  /\ live' = conn /\ events' = Append(events, Event("WS_READY", conn, NoMessage))
  /\ UNCHANGED <<serverRest, down, budget, fShutdownRequested, svc, conn, inVars, fLwsContext,
                 fOutgoingMessageQueue, accepted, faulty>>

\* A fragment that is not the last one of its message.
ReceiveFragment ==
  /\ Serving /\ link = "up" /\ down # << >> /\ messageBuffer # conn /\ Spends
  /\ messageBuffer' = IF messageBuffer = 0 THEN conn ELSE messageBuffer
  /\ UNCHANGED <<callVars, flagVars, netVars, events, live, down, serverRest, view, fLwsContext,
                 fWsi, fOutgoingMessageQueue, writable, accepted, faulty>>

\* The last fragment: the callback gets what the buffer holds, which begins
\* with the remains of a message that an earlier connection left unfinished.
ReceiveFinal ==
  /\ Serving /\ link = "up" /\ down # << >> /\ down' = Tail(down)
  /\ messageBuffer' = 0
  /\ view' = CASE messageBuffer \notin {0, conn} -> Garbled
               [] messageBuffer \in {0, conn} /\ Head(down).type = "clients" -> Head(down).users
               [] OTHER -> view
  /\ UNCHANGED <<callVars, flagVars, netVars, events, live, serverRest, budget, fLwsContext,
                 fWsi, fOutgoingMessageQueue, writable, accepted, faulty>>

Writeable_NoRearm ==
  /\ Serving /\ link = "up" /\ writable /\ writable' = FALSE
  /\ \/ /\ fOutgoingMessageQueue # << >>
        /\ fOutgoingMessageQueue' = Tail(fOutgoingMessageQueue)
        /\ events' = Append(events, Event("WS_DATA", conn, Head(fOutgoingMessageQueue)))
     \/ fOutgoingMessageQueue = << >> /\ UNCHANGED <<fOutgoingMessageQueue, events>>
  /\ UNCHANGED <<callVars, flagVars, netVars, live, down, budget, serverRest, inVars,
                 fLwsContext, fWsi, accepted, faulty>>

Writeable_NoPop ==
  /\ Serving /\ link = "up" /\ writable /\ fOutgoingMessageQueue # << >>
  /\ events' = Append(events, Event("WS_DATA", conn, Head(fOutgoingMessageQueue)))
  /\ UNCHANGED <<callVars, flagVars, netVars, live, down, budget, serverRest, inVars,
                 fLwsContext, fWsi, fOutgoingMessageQueue, writable, accepted, faulty>>

\* One message, and another callback if there are more.
Writeable ==
  /\ Serving /\ link = "up" /\ writable
  /\ \/ /\ fOutgoingMessageQueue # << >>
        /\ fOutgoingMessageQueue' = Tail(fOutgoingMessageQueue)
        /\ writable' = (Len(fOutgoingMessageQueue) > 1)
        /\ \/ /\ events' = Append(events, Event("WS_DATA", conn, Head(fOutgoingMessageQueue)))
              /\ UNCHANGED <<budget, faulty>>
           \/ Spends /\ faulty' = faulty \cup {conn} /\ UNCHANGED events  \* lws_write fails
     \/ /\ fOutgoingMessageQueue = << >> /\ writable' = FALSE
        /\ UNCHANGED <<fOutgoingMessageQueue, events, budget, faulty>>
  /\ UNCHANGED <<callVars, flagVars, netVars, live, down, serverRest, inVars,
                 fLwsContext, fWsi, accepted>>

Closed ==
  /\ Serving /\ link = "lost" /\ fConnected
  /\ fConnected' = FALSE /\ fWsi' = FALSE /\ fConnectionAttemptComplete' = TRUE
  /\ fOutgoingMessageQueue' = << >> /\ Notify
  /\ UNCHANGED <<handlerVars, fShutdownRequested, netVars, inVars, fLwsContext, writable,
                 accepted, faulty>>

\* The loop ends: a requested shutdown, or an error of lws_service.
LwsServiceLoop_Ends ==
  /\ Serving /\ svc' = "stopped"
  /\ \/ /\ fShutdownRequested
        /\ UNCHANGED <<callVars, flagVars, budget, faulty>>
     \/ /\ ~fShutdownRequested /\ Spends /\ faulty' = faulty \cup {conn}
        /\ fShutdownRequested' = TRUE /\ fConnected' = FALSE
        /\ fConnectionAttemptComplete' = TRUE /\ Notify
  /\ UNCHANGED <<events, live, down, serverRest, link, conn, inVars, fLwsContext, fWsi,
                 fOutgoingMessageQueue, writable, accepted>>

\* The connection breaks, or the server closes it.
LinkLost ==
  /\ link = "up" /\ Spends /\ link' = "lost" /\ Hangup /\ writable' = FALSE
  /\ faulty' = faulty \cup {conn}
  /\ UNCHANGED <<callVars, flagVars, svc, conn, serverRest, messageBuffer, fLwsContext, fWsi,
                 fOutgoingMessageQueue, accepted>>

ServiceStep ==
  \/ ConnectionError \/ Established \/ ReceiveFinal \/ Writeable \/ Closed
  \/ LwsServiceLoop_Ends

\* What the callback does of itself; its faults are not promised.
ServiceProgress ==
  \/ ConnectionError \/ Established \/ ReceiveFinal \/ Writeable \/ Closed
  \/ (fShutdownRequested /\ LwsServiceLoop_Ends)

ClientTypeOK ==
  /\ at \in {"idle", "attempt", "test", "toBlock", "blocked", "check", "drain", "join",
             "push", "pushing", "ask", "crashed"}
  /\ tries \in 0..fMaxRetries
  /\ fLwsContext \in BOOLEAN /\ fWsi \in BOOLEAN /\ fConnected \in BOOLEAN
  /\ fShutdownRequested \in BOOLEAN /\ fConnectionAttemptComplete \in BOOLEAN
  /\ fOutgoingMessageQueue \in Seq(Message)
  /\ svc \in {"none", "run", "stopped"} /\ link \in {"none", "connecting", "up", "lost"}
  /\ conn \in 0..MaxConnections /\ writable \in BOOLEAN
  /\ accepted \subseteq Message /\ faulty \subseteq 1..MaxConnections
  /\ messageBuffer \in 0..MaxConnections /\ view \in (SUBSET Conns) \cup {Garbled}
=============================================================================
