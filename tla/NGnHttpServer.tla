--------------------------- MODULE NGnHttpServer ----------------------------
(***************************************************************************)
(* NGnHttpServer::ProcessRequest and the history of NGnWorkspace: a list   *)
(* of the POST requests that made the present state, from which an entry   *)
(* is removed together with all newer ones, newest first, each by calling  *)
(* the DELETE handler of its route.                                        *)
(*                                                                         *)
(* The server handles one request after the other in its main thread.      *)
(* GET requests and the WebSocket messages that follow a request change    *)
(* none of this state.                                                     *)
(***************************************************************************)
EXTENDS NgntRoutes, SequencesExt

CONSTANT MaxPoint  \* bound on the length of the point

VARIABLES srv,         \* the server's state, see NgntRoutes
          fUseHistory,
          up           \* the server process runs

vars == <<srv, fUseHistory, up>>

Init ==
  /\ srv = [tree |-> NoFile, nav |-> NoNav, workspace |-> [k \in Keys |-> NoFile],
            point |-> 0, history |-> << >>]
  /\ fUseHistory \in BOOLEAN /\ up = TRUE

-----------------------------------------------------------------------------
(* NGnWorkspace *)

\* RemoveEntry(index) is only called for the last entry.
RemoveLast(s) ==
  IF s.history = << >> THEN s
  ELSE LET t == DeleteHandler(s, Last(s.history).name).s
       IN [t EXCEPT !.history = Front(@)]

RemoveFrom(s, i) ==
  LET left[n \in 0..Len(s.history)] == IF n = 0 THEN s ELSE RemoveLast(left[n - 1])
  IN left[Len(s.history) + 1 - i]

Positions(s, name) == {i \in DOMAIN s.history : s.history[i].name = name}

\* Only that entry, wherever it is.
RemoveEntry_OnlyOne(s, name) ==
  IF Positions(s, name) = {} THEN s
  ELSE LET i == Max(Positions(s, name))
       IN [DeleteHandler(s, name).s EXCEPT !.history = RemoveAt(@, i)]

RemoveEntry(s, name) ==
  IF Positions(s, name) = {} THEN s ELSE RemoveFrom(s, Max(Positions(s, name)))

AddEntry(s, name, file) ==
  LET t == RemoveEntry(s, name)
  IN [t EXCEPT !.history = Append(@, [name |-> name, file |-> file])]

-----------------------------------------------------------------------------
(* ProcessRequest *)

\* The entry is made before the handler runs, and unmade if it fails.
Post(name, file, ok) ==
  /\ LET a == IF fUseHistory THEN AddEntry(srv, name, file) ELSE srv
         r == PostHandler(a, name, file, ok)
     IN srv' = IF fUseHistory /\ ~r.ok THEN RemoveLast(r.s) ELSE r.s
  /\ UNCHANGED <<fUseHistory, up>>

\* The handler first, then the entry with all newer ones.
Delete(name) ==
  /\ LET r == DeleteHandler(srv, name)
     IN srv' = IF fUseHistory /\ r.ok THEN RemoveEntry(r.s, name) ELSE r.s
  /\ UNCHANGED <<fUseHistory, up>>

Patch(name, level, bin, ok) ==
  /\ srv' = PatchHandler(srv, name, level, bin, ok).s
  /\ srv'.point <= MaxPoint
  /\ UNCHANGED <<fUseHistory, up>>

\* ResetServer: the entries newest first, workspace and state, then whatever
\* objects are left.
Clear(s) ==
  [RemoveFrom(s, 1) EXCEPT !.workspace = [k \in Keys |-> NoFile], !.point = 0]

DeleteState ==
  /\ srv' = [Clear(srv) EXCEPT !.tree = NoFile, !.nav = NoNav]
  /\ UNCHANGED <<fUseHistory, up>>

\* Two requests that end the process: the inspector's path has no handler and
\* its null pointer is called; POST state fails, and the DELETE that unmakes
\* its entry resets the server, which unmakes the same entry, without end.
Fatal ==
  /\ up' = FALSE /\ UNCHANGED <<srv, fUseHistory>>

Next ==
  /\ up
  /\ \/ \E ok \in BOOLEAN, f \in File \cup {NoFile} : Post("ngnt/open", f, ok)
     \/ \E n \in Routes \ {"ngnt/open"}, ok \in BOOLEAN : Post(n, NoFile, ok)
     \/ \E n \in Routes : Delete(n)
     \/ \E n \in Routes, level \in 0..nLevels, bin \in {0, 1}, ok \in BOOLEAN :
          Patch(n, level, bin, ok)
     \/ DeleteState \/ Fatal

Spec == Init /\ [][Next]_vars

-----------------------------------------------------------------------------
(* Properties *)

Entry(name) == {srv.history[i] : i \in Positions(srv, name)}

\* The history is what the server's objects were made from: no route has two
\* entries, a tree is open exactly if its POST is in the history, with that
\* file, and behind a reshape entry there is a navigator of that very tree,
\* however requests were repeated, refused or taken back.
HistoryMatchesObjects ==
  fUseHistory =>
    /\ \A n \in Routes : Cardinality(Positions(srv, n)) <= 1
    /\ Opened(srv) <=> Entry("ngnt/open") # {}
    /\ \A e \in Entry("ngnt/open") : e.file = srv.tree
    /\ Entry("ngnt/reshape") # {} => srv.nav = [file |-> srv.tree, stale |-> FALSE]

\* A request takes entries only from the end of the history and adds at most
\* one there: what an older entry was built on is never taken from under it.
HistoryIsAStack ==
  [][\E n \in 0..Len(srv.history) :
       \/ srv'.history = SubSeq(srv.history, 1, n)
       \/ \E e \in [name : Routes, file : File \cup {NoFile}] :
            srv'.history = Append(SubSeq(srv.history, 1, n), e)]_srv
=============================================================================
