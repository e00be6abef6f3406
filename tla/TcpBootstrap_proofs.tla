------------------------ MODULE TcpBootstrap_proofs -------------------------
(***************************************************************************)
(* Joining a TCP session is safe for any number of processes, indices and  *)
(* faults: no bootstrapped process shares its index, the supervisor never  *)
(* waits for the ACK of a registered worker, and the READY of a worker     *)
(* that waits for INIT is never lost.                                      *)
(***************************************************************************)
EXTENDS TcpBootstrap, CommonLemmas, TLAPS

-----------------------------------------------------------------------------
(* The inductive invariant *)

MsgToSup == {"BOOTSTRAP", "READY", "ACK"}

MsgToProc == {<<"REJECT">>, <<"INIT">>, <<"STOP">>} \cup {<<"CONFIG", i>> : i \in Idx}

Types ==
  /\ TypeOK
  /\ toSup \in [Proc -> Seq(MsgToSup)] /\ toProc \in [Proc -> Seq(MsgToProc)]

\* An index is assigned once, the assigned indices are below the next one,
\* and a process has, or is about to be told, the index assigned to it.
Assigned ==
  /\ \A p \in Proc :
       bootstrapAssignments[p] # NoIndex =>
         /\ bootstrapAssignments[p] < bootstrapNextIdx
         /\ \A q \in Proc \ {p} : bootstrapAssignments[q] # bootstrapAssignments[p]
  /\ \A p \in Proc, i \in Idx : Has(toProc[p], <<"CONFIG", i>>) => bootstrapAssignments[p] = i
  /\ \A p \in Proc : IF Given[p] = NoIndex THEN index[p] \in {NoIndex, bootstrapAssignments[p]}
                                           ELSE index[p] = Given[p]

\* InitTcpWorker waits for a worker that is not registered, and before the
\* loop no late worker is waited for.
Awaited ==
  /\ IF spc = "initWait" THEN initing \in Idx \ registered ELSE initing = NoIndex
  /\ spc \in {"start", "initWait"} => pendingInit = {}
  /\ pendingInit \cap registered = {}

\* A process says BOOTSTRAP, READY and ACK at most once each, the last two
\* under its index.
Outbox ==
  \A p \in Proc :
    /\ ppc[p] \in {"macro", "ready", "serving"} => index[p] \in Idx
    /\ Once(toSup[p]) /\ (ppc[p] = "off" => toSup[p] = << >>)
    /\ Has(toSup[p], "READY") => index[p] \in Idx /\ ppc[p] \in {"ready", "serving", "gone"}
    /\ Has(toSup[p], "ACK") => index[p] \in Idx /\ ppc[p] \in {"serving", "gone"}

\* The peer the router has for an identity connected under it, and a process
\* that waits for INIT under an index nobody else has is that peer.
Peers ==
  /\ \A i \in Idx :
       owner[i] # NoProc =>
         index[owner[i]] = i /\ ppc[owner[i]] \in {"ready", "serving", "gone"}
  /\ \A p \in Proc : ppc[p] = "ready" /\ Alone(p) => owner[index[p]] = p

\* The READY of q was received, or will never be.
Knocked(q) == ppc[q] \in {"ready", "serving", "gone"} /\ ~Has(toSup[q], "READY")

\* Whoever is registered, or waited for, knocked, and a registered worker has
\* got INIT.
Heard ==
  /\ \A i \in registered \cup pendingInit : \E q \in Proc : index[q] = i /\ Knocked(q)
  /\ initing # NoIndex => \E q \in Proc : index[q] = initing /\ Knocked(q)
  /\ \A i \in Idx : Has(pendingReady, i) => \E q \in Proc : index[q] = i /\ Knocked(q)
  /\ \A i \in registered : \E q \in Proc : index[q] = i /\ ppc[q] \in {"serving", "gone"}

Kept ==
  \A p \in Proc :
    ppc[p] = "ready" /\ Alone(p) /\ index[p] < MaxWorkers /\ spc # "closed" =>
      toSup[p] # << >> \/ toProc[p] # << >> \/ Has(pendingReady, index[p])

Inv == Types /\ Assigned /\ Awaited /\ Outbox /\ Peers /\ Heard /\ Kept

-----------------------------------------------------------------------------
(* What the operators on the channels do *)

LEMMA MessageTypes ==
  /\ <<"REJECT">> \in MsgToProc /\ <<"INIT">> \in MsgToProc /\ <<"STOP">> \in MsgToProc
  /\ \A i \in Idx : /\ <<"CONFIG", i>> \in MsgToProc
                    /\ <<"CONFIG", i>> \notin {<<"REJECT">>, <<"INIT">>, <<"STOP">>}
                    /\ \A j \in Idx : <<"CONFIG", i>> = <<"CONFIG", j>> => i = j
BY DEF MsgToProc

LEMMA TakesEffect ==
  ASSUME Types, Outbox, NEW p \in Proc, NEW m, Takes(p, m)
  PROVE  /\ toSup' \in [Proc -> Seq(MsgToSup)]
         /\ Has(toSup[p], m)
         /\ \A q \in Proc \ {p} : toSup'[q] = toSup[q]
         /\ \A x : Has(toSup'[p], x) <=> Has(toSup[p], x) /\ x # m
         /\ Once(toSup'[p])
<1>1. /\ toSup[p] \in Seq(MsgToSup) /\ toSup[p] # << >> /\ Head(toSup[p]) = m
      /\ toSup' = [toSup EXCEPT ![p] = Tail(toSup[p])] /\ Once(toSup[p])
  BY DEF Takes, Types, Outbox
<1>2. /\ Tail(toSup[p]) \in Seq(MsgToSup)
      /\ Has(toSup[p], m)
      /\ \A x : Has(toSup[p], x) <=> x = m \/ Has(Tail(toSup[p]), x)
      /\ Once(Tail(toSup[p])) /\ ~Has(Tail(toSup[p]), m)
  BY <1>1, QueueTail
<1>3. toSup'[p] = Tail(toSup[p]) /\ \A q \in Proc \ {p} : toSup'[q] = toSup[q]
  BY <1>1 DEF Types
<1>4. toSup' \in [Proc -> Seq(MsgToSup)]
  BY <1>1, <1>2 DEF Types
<1> QED
  BY <1>2, <1>3, <1>4

\* What was under way stays under way, except to processes that are gone,
\* and no index is promised.
NoPromise ==
  \A q \in Proc, i \in Idx : Has(toProc'[q], <<"CONFIG", i>>) => Has(toProc[q], <<"CONFIG", i>>)

LEMMA SentEffect ==
  ASSUME Types, NEW ids, NEW m \in {<<"INIT">>, <<"STOP">>}, toProc' = Sent(ids, m)
  PROVE  /\ toProc' \in [Proc -> Seq(MsgToProc)] /\ NoPromise
         /\ \A q \in Proc : toProc[q] # << >> => toProc'[q] # << >>
         /\ \A q \in Proc : ~Gone(q) /\ index[q] \in ids /\ owner[index[q]] = q => toProc'[q] # << >>
<1>1. m \in MsgToProc /\ \A i \in Idx : m # <<"CONFIG", i>>
  BY MessageTypes
<1>2. ASSUME NEW q \in Proc
      PROVE  /\ Append(toProc[q], m) \in Seq(MsgToProc) /\ Append(toProc[q], m) # << >>
             /\ \A x : Has(Append(toProc[q], m), x) <=> x = m \/ Has(toProc[q], x)
  BY <1>1, QueueAppend DEF Types
<1>3. ASSUME NEW q \in Proc
      PROVE  toProc'[q] = IF ~Gone(q) /\ index[q] \in ids /\ owner[index[q]] = q
                          THEN Append(toProc[q], m) ELSE toProc[q]
  BY DEF Sent
<1>4. toProc' \in [Proc -> Seq(MsgToProc)]
  BY <1>2 DEF Sent, Types
<1>5. NoPromise
  BY <1>1, <1>2, <1>3 DEF NoPromise
<1> QED
  BY <1>2, <1>3, <1>4, <1>5

LEMMA ReplyEffect ==
  ASSUME Types, NEW p \in Proc, NEW m \in MsgToProc, toProc' = Reply(p, m)
  PROVE  /\ toProc' \in [Proc -> Seq(MsgToProc)]
         /\ \A q \in Proc \ {p} : toProc'[q] = toProc[q]
         /\ \A x : Has(toProc'[p], x) => x = m \/ Has(toProc[p], x)
         /\ ~Gone(p) => toProc'[p] # << >>
<1>2. /\ Append(toProc[p], m) \in Seq(MsgToProc) /\ Append(toProc[p], m) # << >>
      /\ \A x : Has(Append(toProc[p], m), x) <=> x = m \/ Has(toProc[p], x)
  BY QueueAppend DEF Types
<1>3. /\ toProc'[p] = IF Gone(p) THEN toProc[p] ELSE Append(toProc[p], m)
      /\ \A q \in Proc \ {p} : toProc'[q] = toProc[q]
  BY DEF Reply, Types
<1>4. toProc' \in [Proc -> Seq(MsgToProc)]
  BY <1>2 DEF Reply, Types
<1> QED
  BY <1>2, <1>3, <1>4

LEMMA ReadEffect ==
  ASSUME Types, NEW p \in Proc, toProc[p] # << >>, toProc' = Read(p)
  PROVE  /\ toProc' \in [Proc -> Seq(MsgToProc)] /\ NoPromise
         /\ \A q \in Proc \ {p} : toProc'[q] = toProc[q]
         /\ Has(toProc[p], Head(toProc[p]))
<1>1. toProc[p] \in Seq(MsgToProc)
  BY DEF Types
<1>2. /\ Tail(toProc[p]) \in Seq(MsgToProc) /\ Has(toProc[p], Head(toProc[p]))
      /\ \A x : Has(toProc[p], x) <=> x = Head(toProc[p]) \/ Has(Tail(toProc[p]), x)
  BY <1>1, QueueTail
<1>3. toProc'[p] = Tail(toProc[p]) /\ \A q \in Proc \ {p} : toProc'[q] = toProc[q]
  BY DEF Read, Types
<1>4. toProc' \in [Proc -> Seq(MsgToProc)]
  BY <1>2 DEF Read, Types
<1> QED
  BY <1>2, <1>3, <1>4 DEF NoPromise

LEMMA EndsEffect ==
  ASSUME Types, NEW p \in Proc, Ends(p)
  PROVE  /\ toProc' \in [Proc -> Seq(MsgToProc)] /\ NoPromise
         /\ \A q \in Proc \ {p} : toProc'[q] = toProc[q] /\ ppc'[q] = ppc[q]
         /\ ppc'[p] = "gone" /\ ppc' \in [Proc -> Live \cup {"off", "gone"}]
<1>1. toProc'[p] = << >> /\ \A q \in Proc \ {p} : toProc'[q] = toProc[q]
  BY DEF Ends, Types
<1>2. toProc' \in [Proc -> Seq(MsgToProc)]
  BY DEF Ends, Types
<1>3. /\ \A q \in Proc \ {p} : ppc'[q] = ppc[q]
      /\ ppc'[p] = "gone" /\ ppc' \in [Proc -> Live \cup {"off", "gone"}]
  BY DEF Ends, Types, TypeOK
<1> QED
  BY <1>1, <1>2, <1>3, QueueEmpty DEF NoPromise

-----------------------------------------------------------------------------
(* Steps of the processes *)

LEMMA InitInv == Init => Inv
<1> SUFFICES ASSUME Init PROVE Inv
  OBVIOUS
<1>1. Types
  BY BootstrapAssumption DEF Init, Types, TypeOK, Live, Idx
<1>2. Assigned
  BY QueueEmpty, BootstrapAssumption DEF Init, Assigned
<1>3. Awaited
  BY DEF Init, Awaited
<1>4. Outbox
  BY QueueEmpty, BootstrapAssumption DEF Init, Outbox
<1>5. Peers
  BY DEF Init, Peers
<1>6. Heard
  BY QueueEmpty DEF Init, Heard
<1>7. Kept
  BY DEF Init, Kept
<1> QED
  BY <1>1, <1>2, <1>3, <1>4, <1>5, <1>6, <1>7 DEF Inv

\* A process keeps its index and never comes back.
Onward ==
  \A q \in Proc :
    /\ index[q] \in Idx => index'[q] = index[q]
    /\ ppc[q] # "off" => ppc'[q] # "off"
    /\ ppc[q] \in {"serving", "gone"} => ppc'[q] \in {"serving", "gone"}
    /\ Knocked(q) => Knocked(q)'

\* Who is alone with an index was alone with it before.
LEMMA AloneBefore ==
  ASSUME Onward, NEW p \in Proc, index[p] \in Idx, Alone(p)'
  PROVE  Alone(p)
BY DEF Onward, Alone

LEMMA ProcessHeard ==
  ASSUME Types, Awaited, Heard, Onward, UNCHANGED <<spc, initing, roster>>
  PROVE  Awaited' /\ Heard'
<1>1. Awaited'
  BY DEF Awaited, roster
<1>2. /\ \A i \in registered \cup pendingInit : i \in Idx
      /\ initing # NoIndex => initing \in Idx
  BY DEF Types, TypeOK
<1>3. Heard'
  BY <1>2 DEF Heard, Onward, roster
<1> QED
  BY <1>1, <1>3

LEMMA ProcessPeers ==
  ASSUME Types, Outbox, Peers, Onward, UNCHANGED owner,
         \A q \in Proc : /\ ppc'[q] = "ready" => ppc[q] = "ready"
                         /\ ppc[q] = "ready" => ppc'[q] \in {"ready", "serving", "gone"}
  PROVE  Peers'
<1>1. ASSUME NEW q \in Proc, ppc'[q] = "ready", Alone(q)' PROVE owner'[index'[q]] = q
  <2>1. ppc[q] = "ready" /\ index[q] \in Idx
    BY <1>1 DEF Outbox
  <2>2. Alone(q)
    BY <1>1, <2>1, AloneBefore
  <2> QED
    BY <2>1, <2>2 DEF Peers, Onward
<1>2. ASSUME NEW i \in Idx, owner'[i] # NoProc
      PROVE  index'[owner'[i]] = i /\ ppc'[owner'[i]] \in {"ready", "serving", "gone"}
  <2>1. owner[i] \in Proc
    BY <1>2 DEF Types, TypeOK
  <2> QED
    BY <1>2, <2>1 DEF Peers, Onward
<1> QED
  BY <1>1, <1>2 DEF Peers

\* A step of p leaves the others alone, and p itself only starts to wait for
\* INIT when its READY is under way or its identity is taken.
LEMMA ProcessKept ==
  ASSUME Types, Outbox, Kept, Onward, UNCHANGED <<spc, pendingReady>>, NEW p \in Proc,
         \A q \in Proc \ {p} : /\ ppc'[q] = ppc[q] /\ index'[q] = index[q]
                               /\ toSup'[q] = toSup[q] /\ toProc'[q] = toProc[q],
         ppc'[p] = "ready" /\ Alone(p)' =>
            toSup'[p] # << >> \/ UNCHANGED <<ppc, index, toSup, toProc>>
  PROVE  Kept'
<1> SUFFICES ASSUME NEW q \in Proc, ppc'[q] = "ready", Alone(q)',
                    index'[q] < MaxWorkers, spc' # "closed"
             PROVE  toSup'[q] # << >> \/ toProc'[q] # << >> \/ Has(pendingReady', index'[q])
  BY DEF Kept
<1>1. CASE q # p \/ UNCHANGED <<ppc, index, toSup, toProc>>
  <2>1. ppc[q] = "ready" /\ index'[q] = index[q] /\ toSup'[q] = toSup[q] /\ toProc'[q] = toProc[q]
    BY <1>1
  <2>2. index[q] \in Idx
    BY <2>1 DEF Outbox
  <2>3. Alone(q)
    BY <2>2, AloneBefore
  <2> QED
    BY <2>1, <2>3 DEF Kept
<1> QED
  BY <1>1

LEMMA EndsInv ==
  ASSUME Inv, NEW p \in Proc, Ends(p), ppc[p] # "off", faults' \in Nat,
         UNCHANGED <<index, owner, toSup, spc, initing, boot, roster>>
  PROVE  Inv'
<1>0. Types /\ Assigned /\ Awaited /\ Outbox /\ Peers /\ Heard /\ Kept
  BY DEF Inv
<1>1. /\ toProc' \in [Proc -> Seq(MsgToProc)] /\ NoPromise
      /\ \A q \in Proc \ {p} : toProc'[q] = toProc[q] /\ ppc'[q] = ppc[q]
      /\ ppc'[p] = "gone" /\ ppc' \in [Proc -> Live \cup {"off", "gone"}]
  BY <1>0, EndsEffect
<1>2. Types'
  BY <1>0, <1>1 DEF Types, TypeOK, boot, roster
<1>3. Assigned'
  BY <1>0, <1>1 DEF Assigned, NoPromise, boot
<1>4. Onward
  BY <1>1 DEF Onward, Knocked
<1>5. Awaited' /\ Heard'
  BY <1>0, <1>4, ProcessHeard
<1>6. Outbox'
  BY <1>0, <1>1 DEF Outbox
<1>7. Peers'
  BY <1>0, <1>1, <1>4, ProcessPeers
<1>8. Kept'
  BY <1>0, <1>1, <1>4, ProcessKept DEF roster
<1> QED
  BY <1>2, <1>3, <1>5, <1>6, <1>7, <1>8 DEF Inv

LEMMA StartInv == ASSUME Inv, NEW p \in Proc, Start(p) PROVE Inv'
<1>0. Types /\ Assigned /\ Awaited /\ Outbox /\ Peers /\ Heard /\ Kept
  BY DEF Inv
<1>1. /\ ppc[p] = "off" /\ UNCHANGED <<index, owner, toProc, spc, initing, boot, roster, faults>>
      /\ \A q \in Proc \ {p} : ppc'[q] = ppc[q] /\ toSup'[q] = toSup[q]
      /\ ppc' \in [Proc -> Live \cup {"off", "gone"}]
  BY <1>0 DEF Start, Types, TypeOK, Live
<1>2. /\ toSup'[p] \in {<< >>, <<"BOOTSTRAP">>}
      /\ ppc'[p] = "boot" \/ (ppc'[p] = "macro" /\ index[p] \in Idx)
  BY <1>0, BootstrapAssumption DEF Start, Types, TypeOK, Outbox, Assigned
<1>3. Once(toSup'[p]) /\ ~Has(toSup'[p], "READY") /\ ~Has(toSup'[p], "ACK")
  BY <1>2 DEF Once, Has
<1>4. Types'
  <2>1. <<"BOOTSTRAP">> \in Seq(MsgToSup)
    BY DEF MsgToSup
  <2>2. toSup' \in [Proc -> Seq(MsgToSup)]
    BY <1>0, <2>1 DEF Start, Types
  <2> QED
    BY <1>0, <1>1, <2>2 DEF Types, TypeOK, boot, roster
<1>5. Assigned'
  BY <1>0, <1>1 DEF Assigned, boot
<1>6. Onward
  BY <1>1, <1>2 DEF Onward, Knocked
<1>7. Awaited' /\ Heard'
  BY <1>0, <1>1, <1>6, ProcessHeard
<1>8. Outbox'
  BY <1>0, <1>1, <1>2, <1>3 DEF Outbox
<1>9. Peers'
  BY <1>0, <1>1, <1>2, <1>6, ProcessPeers
<1>10. Kept'
  BY <1>0, <1>1, <1>2, <1>6, ProcessKept DEF roster
<1> QED
  BY <1>4, <1>5, <1>7, <1>8, <1>9, <1>10 DEF Inv

LEMMA GetConfigInv == ASSUME Inv, NEW p \in Proc, GetConfig(p) PROVE Inv'
<1>0. Types /\ Assigned /\ Awaited /\ Outbox /\ Peers /\ Heard /\ Kept
  BY DEF Inv
<1>1. PICK i \in Idx : /\ Hears(p, "boot", <<"CONFIG", i>>) /\ toProc' = Read(p)
                       /\ index' = [index EXCEPT ![p] = IF index[p] = NoIndex THEN i ELSE index[p]]
  BY DEF GetConfig
<1>2. /\ ppc[p] = "boot" /\ ppc' = [ppc EXCEPT ![p] = "macro"]
      /\ toProc[p] # << >> /\ Head(toProc[p]) = <<"CONFIG", i>>
      /\ UNCHANGED <<owner, toSup, spc, initing, boot, roster, faults>>
  BY <1>1 DEF GetConfig, Hears
<1>3. /\ ppc'[p] = "macro" /\ \A q \in Proc \ {p} : ppc'[q] = ppc[q]
      /\ ppc' \in [Proc -> Live \cup {"off", "gone"}]
  BY <1>0, <1>2 DEF Types, TypeOK, Live
<1>4. /\ index' \in [Proc -> Idx \cup {NoIndex}]
      /\ index'[p] = (IF index[p] = NoIndex THEN i ELSE index[p]) /\ index'[p] \in Idx
      /\ \A q \in Proc \ {p} : index'[q] = index[q]
  BY <1>0, <1>1 DEF Types, TypeOK
<1>5. /\ toProc' \in [Proc -> Seq(MsgToProc)] /\ NoPromise
      /\ \A q \in Proc \ {p} : toProc'[q] = toProc[q]
      /\ Has(toProc[p], <<"CONFIG", i>>)
  BY <1>0, <1>1, <1>2, ReadEffect
<1>6. Types'
  BY <1>0, <1>2, <1>3, <1>4, <1>5 DEF Types, TypeOK, boot, roster
<1>7. Assigned'
  <2>1. bootstrapAssignments[p] = i
    BY <1>0, <1>5 DEF Assigned
  <2>2. \A q \in Proc : IF Given[q] = NoIndex THEN index'[q] \in {NoIndex, bootstrapAssignments[q]}
                                              ELSE index'[q] = Given[q]
    BY <1>0, <1>4, <2>1 DEF Assigned
  <2> QED
    BY <1>0, <1>2, <1>5, <2>2 DEF Assigned, NoPromise, boot
<1>8. Onward
  BY <1>2, <1>3, <1>4, BootstrapAssumption DEF Onward, Knocked
<1>9. Awaited' /\ Heard'
  BY <1>0, <1>2, <1>8, ProcessHeard
<1>10. Outbox'
  BY <1>0, <1>2, <1>3, <1>4 DEF Outbox
<1>11. Peers'
  BY <1>0, <1>2, <1>3, <1>8, ProcessPeers
<1>12. Kept'
  BY <1>0, <1>2, <1>3, <1>4, <1>5, <1>8, ProcessKept DEF roster
<1> QED
  BY <1>6, <1>7, <1>9, <1>10, <1>11, <1>12 DEF Inv

LEMMA ConnectInv == ASSUME Inv, NEW p \in Proc, Connect(p) PROVE Inv'
<1>0. Types /\ Assigned /\ Awaited /\ Outbox /\ Peers /\ Heard /\ Kept
  BY DEF Inv
<1> DEFINE i == index[p]
<1>1. /\ ppc[p] = "macro" /\ ppc' = [ppc EXCEPT ![p] = "ready"]
      /\ UNCHANGED <<index, toProc, spc, initing, boot, roster, faults>>
  BY DEF Connect
<1>2. i \in Idx
  BY <1>0, <1>1 DEF Outbox
<1>3. /\ ppc'[p] = "ready" /\ \A q \in Proc \ {p} : ppc'[q] = ppc[q]
      /\ ppc' \in [Proc -> Live \cup {"off", "gone"}]
  BY <1>0, <1>1 DEF Types, TypeOK, Live
<1>4. Assigned'
  BY <1>0, <1>1 DEF Assigned, boot
<1>5. CASE owner[i] = NoProc
  <2>1. /\ owner' = [owner EXCEPT ![i] = p]
        /\ toSup' = [toSup EXCEPT ![p] = Append(toSup[p], "READY")]
    BY <1>5 DEF Connect
  <2>2. toSup[p] \in Seq(MsgToSup) /\ "READY" \in MsgToSup
    BY <1>0 DEF Types, MsgToSup
  <2>3. /\ Append(toSup[p], "READY") \in Seq(MsgToSup) /\ Append(toSup[p], "READY") # << >>
        /\ \A x : Has(Append(toSup[p], "READY"), x) <=> x = "READY" \/ Has(toSup[p], x)
        /\ Once(toSup[p]) /\ ~Has(toSup[p], "READY") => Once(Append(toSup[p], "READY"))
    BY <2>2, QueueAppend
  <2>4. /\ toSup' \in [Proc -> Seq(MsgToSup)]
        /\ toSup'[p] = Append(toSup[p], "READY") /\ \A q \in Proc \ {p} : toSup'[q] = toSup[q]
    BY <1>0, <2>1, <2>3 DEF Types
  <2>5. /\ owner' \in [Idx -> Proc \cup {NoProc}]
        /\ owner'[i] = p /\ \A j \in Idx \ {i} : owner'[j] = owner[j]
    BY <1>0, <1>2, <2>1 DEF Types, TypeOK
  <2>6. Types'
    BY <1>0, <1>1, <1>3, <2>4, <2>5 DEF Types, TypeOK, boot, roster
  <2>7. Onward
    BY <1>1, <1>3, <2>4 DEF Onward, Knocked
  <2>8. Awaited' /\ Heard'
    BY <1>0, <1>1, <2>7, ProcessHeard
  <2>9. Once(toSup[p]) /\ ~Has(toSup[p], "READY") /\ ~Has(toSup[p], "ACK")
    BY <1>0, <1>1 DEF Outbox
  <2>10. Outbox'
    <3> SUFFICES ASSUME NEW q \in Proc
                 PROVE  /\ ppc'[q] \in {"macro", "ready", "serving"} => index'[q] \in Idx
                        /\ Once(toSup'[q]) /\ (ppc'[q] = "off" => toSup'[q] = << >>)
                        /\ Has(toSup'[q], "READY") => index'[q] \in Idx /\ ppc'[q] \in {"ready", "serving", "gone"}
                        /\ Has(toSup'[q], "ACK") => index'[q] \in Idx /\ ppc'[q] \in {"serving", "gone"}
      BY DEF Outbox
    <3>1. CASE q = p
      BY <1>1, <1>2, <1>3, <2>3, <2>4, <2>9, <3>1
    <3>2. CASE q # p
      <4>1. ppc'[q] = ppc[q] /\ toSup'[q] = toSup[q] /\ index' = index
        BY <1>1, <1>3, <2>4, <3>2
      <4> QED BY <1>0, <4>1 DEF Outbox
    <3> QED BY <3>1, <3>2
  <2>11. Peers'
    <3>1. ASSUME NEW q \in Proc, ppc'[q] = "ready", Alone(q)' PROVE owner'[index'[q]] = q
      <4>1. CASE q = p
        BY <1>1, <2>5, <4>1
      <4>2. CASE q # p
        <5>1. ppc[q] = "ready" /\ index[q] \in Idx
          BY <1>0, <1>3, <3>1, <4>2 DEF Outbox
        <5>2. Alone(q)
          BY <2>7, <3>1, <5>1, AloneBefore
        <5>3. index[q] # i
          BY <1>1, <4>2, <5>2 DEF Alone
        <5> QED
          BY <1>0, <1>1, <2>5, <5>1, <5>2, <5>3 DEF Peers
      <4> QED
        BY <4>1, <4>2
    <3>2. ASSUME NEW j \in Idx, owner'[j] # NoProc
          PROVE  index'[owner'[j]] = j /\ ppc'[owner'[j]] \in {"ready", "serving", "gone"}
      <4>1. CASE j = i
        BY <1>1, <1>3, <2>5, <4>1
      <4>2. CASE j # i
        <5>1. owner'[j] = owner[j] /\ owner[j] \in Proc
          BY <1>0, <2>5, <3>2, <4>2 DEF Types, TypeOK
        <5> QED
          BY <1>0, <1>1, <1>3, <3>2, <5>1 DEF Peers
      <4> QED
        BY <4>1, <4>2
    <3> QED
      BY <3>1, <3>2 DEF Peers
  <2>12. Kept'
    BY <1>0, <1>1, <1>3, <2>3, <2>4, <2>7, ProcessKept DEF roster
  <2> QED
    BY <1>4, <2>6, <2>8, <2>10, <2>11, <2>12 DEF Inv
<1>6. CASE owner[i] # NoProc
  <2>1. UNCHANGED <<owner, toSup>>
    BY <1>6 DEF Connect
  <2>2. /\ owner[i] \in Proc \ {p} /\ index[owner[i]] = i /\ ppc[owner[i]] # "off"
    BY <1>0, <1>1, <1>2, <1>6 DEF Types, TypeOK, Peers
  <2>3. ~Alone(p)'
    BY <1>1, <1>3, <2>2 DEF Alone
  <2>4. Types'
    BY <1>0, <1>1, <1>3, <2>1 DEF Types, TypeOK, boot, roster
  <2>5. Onward
    BY <1>1, <1>3, <2>1 DEF Onward, Knocked
  <2>6. Awaited' /\ Heard'
    BY <1>0, <1>1, <2>5, ProcessHeard
  <2>7. Outbox'
    BY <1>0, <1>1, <1>2, <1>3, <2>1 DEF Outbox
  <2>8. Peers'
    <3>1. ASSUME NEW q \in Proc, ppc'[q] = "ready", Alone(q)' PROVE owner'[index'[q]] = q
      <4>1. q # p
        BY <2>3, <3>1
      <4>2. ppc[q] = "ready" /\ index[q] \in Idx
        BY <1>0, <1>3, <3>1, <4>1 DEF Outbox
      <4>3. Alone(q)
        BY <2>5, <3>1, <4>2, AloneBefore
      <4> QED
        BY <1>0, <1>1, <2>1, <4>2, <4>3 DEF Peers
    <3>2. ASSUME NEW j \in Idx, owner'[j] # NoProc
          PROVE  index'[owner'[j]] = j /\ ppc'[owner'[j]] \in {"ready", "serving", "gone"}
      <4>1. owner'[j] = owner[j] /\ owner[j] \in Proc
        BY <1>0, <2>1, <3>2 DEF Types, TypeOK
      <4> QED
        BY <1>0, <1>1, <1>3, <3>2, <4>1 DEF Peers
    <3> QED
      BY <3>1, <3>2 DEF Peers
  <2>9. Kept'
    BY <1>0, <1>1, <1>3, <2>1, <2>3, <2>5, ProcessKept DEF roster
  <2> QED
    BY <1>4, <2>4, <2>6, <2>7, <2>8, <2>9 DEF Inv
<1> QED
  BY <1>5, <1>6

LEMMA GetInitInv == ASSUME Inv, NEW p \in Proc, GetInit(p) PROVE Inv'
<1>0. Types /\ Assigned /\ Awaited /\ Outbox /\ Peers /\ Heard /\ Kept
  BY DEF Inv
<1>1. /\ ppc[p] = "ready" /\ toProc[p] # << >>
      /\ UNCHANGED <<index, owner, spc, initing, boot, roster>>
  BY DEF GetInit, Hears
<1>2. CASE Fault /\ Ends(p) /\ UNCHANGED toSup
  <2>1. faults' \in Nat
    BY <1>0, <1>2 DEF Fault, Types, TypeOK
  <2> QED
    BY <1>1, <1>2, <2>1, EndsInv
<1>3. CASE /\ ppc' = [ppc EXCEPT ![p] = "serving"] /\ toProc' = Read(p)
           /\ toSup' = [toSup EXCEPT ![p] = Append(@, "ACK")] /\ UNCHANGED faults
  <2>1. /\ ppc'[p] = "serving" /\ \A q \in Proc \ {p} : ppc'[q] = ppc[q]
        /\ ppc' \in [Proc -> Live \cup {"off", "gone"}]
    BY <1>0, <1>3 DEF Types, TypeOK, Live
  <2>2. toSup[p] \in Seq(MsgToSup) /\ "ACK" \in MsgToSup
    BY <1>0 DEF Types, MsgToSup
  <2>3. /\ Append(toSup[p], "ACK") \in Seq(MsgToSup)
        /\ \A x : Has(Append(toSup[p], "ACK"), x) <=> x = "ACK" \/ Has(toSup[p], x)
        /\ Once(toSup[p]) /\ ~Has(toSup[p], "ACK") => Once(Append(toSup[p], "ACK"))
    BY <2>2, QueueAppend
  <2>4. /\ toSup' \in [Proc -> Seq(MsgToSup)]
        /\ toSup'[p] = Append(toSup[p], "ACK") /\ \A q \in Proc \ {p} : toSup'[q] = toSup[q]
    BY <1>0, <1>3, <2>3 DEF Types
  <2>5. /\ toProc' \in [Proc -> Seq(MsgToProc)] /\ NoPromise
        /\ \A q \in Proc \ {p} : toProc'[q] = toProc[q]
    BY <1>0, <1>1, <1>3, ReadEffect
  <2>6. Types'
    BY <1>0, <1>1, <1>3, <2>1, <2>4, <2>5 DEF Types, TypeOK, boot, roster
  <2>7. Assigned'
    BY <1>0, <1>1, <2>5 DEF Assigned, NoPromise, boot
  <2>8. Onward
    BY <1>1, <2>1, <2>3, <2>4 DEF Onward, Knocked
  <2>9. Awaited' /\ Heard'
    BY <1>0, <1>1, <2>8, ProcessHeard
  <2>10. Once(toSup[p]) /\ ~Has(toSup[p], "ACK") /\ index[p] \in Idx
    BY <1>0, <1>1 DEF Outbox
  <2>11. Outbox'
    BY <1>0, <1>1, <2>1, <2>3, <2>4, <2>10 DEF Outbox
  <2>12. Peers'
    BY <1>0, <1>1, <2>1, <2>8, ProcessPeers
  <2>13. Kept'
    BY <1>0, <1>1, <2>1, <2>4, <2>5, <2>8, ProcessKept DEF roster
  <2> QED
    BY <2>6, <2>7, <2>9, <2>11, <2>12, <2>13 DEF Inv
<1> QED
  BY <1>2, <1>3 DEF GetInit

LEMMA IgnoreInitInv == ASSUME Inv, NEW p \in Proc, IgnoreInit(p) PROVE Inv'
<1>0. Types /\ Assigned /\ Awaited /\ Outbox /\ Peers /\ Heard /\ Kept
  BY DEF Inv
<1>1. /\ ppc[p] = "serving" /\ toProc[p] # << >> /\ toProc' = Read(p)
      /\ UNCHANGED <<ppc, index, owner, toSup, spc, initing, boot, roster, faults>>
  BY DEF IgnoreInit, Hears, procVars
<1>2. /\ toProc' \in [Proc -> Seq(MsgToProc)] /\ NoPromise
      /\ \A q \in Proc \ {p} : toProc'[q] = toProc[q]
  BY <1>0, <1>1, ReadEffect
<1>3. Types'
  BY <1>0, <1>1, <1>2 DEF Types, TypeOK, boot, roster
<1>4. Assigned'
  BY <1>0, <1>1, <1>2 DEF Assigned, NoPromise, boot
<1>5. Onward
  BY <1>1 DEF Onward, Knocked
<1>6. Awaited' /\ Heard'
  BY <1>0, <1>1, <1>5, ProcessHeard
<1>7. Outbox'
  BY <1>0, <1>1 DEF Outbox
<1>8. Peers'
  BY <1>0, <1>1, <1>5, ProcessPeers
<1>9. Kept'
  BY <1>0, <1>1, <1>2, <1>5, ProcessKept DEF roster
<1> QED
  BY <1>3, <1>4, <1>6, <1>7, <1>8, <1>9 DEF Inv

LEMMA DisconnectInv == ASSUME Inv, NEW p \in Proc, Disconnect(p) PROVE Inv'
<1>0. Types /\ Assigned /\ Awaited /\ Outbox /\ Peers /\ Heard /\ Kept
  BY DEF Inv
<1>1. /\ ppc[p] = "gone" /\ index[p] \in Idx /\ owner[index[p]] = p
      /\ owner' = [owner EXCEPT ![index[p]] = NoProc]
      /\ UNCHANGED <<ppc, index, toSup, toProc, spc, initing, boot, roster, faults>>
  BY DEF Disconnect, procVars
<1>2. /\ owner' \in [Idx -> Proc \cup {NoProc}]
      /\ owner'[index[p]] = NoProc /\ \A i \in Idx \ {index[p]} : owner'[i] = owner[i]
  BY <1>0, <1>1 DEF Types, TypeOK
<1>3. Types'
  BY <1>0, <1>1, <1>2 DEF Types, TypeOK, boot, roster
<1>4. Assigned'
  BY <1>0, <1>1 DEF Assigned, boot
<1>5. Onward
  BY <1>1 DEF Onward, Knocked
<1>6. Awaited' /\ Heard'
  BY <1>0, <1>1, <1>5, ProcessHeard
<1>7. Outbox'
  BY <1>0, <1>1 DEF Outbox
<1>8. Peers'
  <2>1. ASSUME NEW q \in Proc, ppc'[q] = "ready", Alone(q)' PROVE owner'[index'[q]] = q
    <3>1. ppc[q] = "ready" /\ index[q] \in Idx
      BY <1>0, <1>1, <2>1 DEF Outbox
    <3>2. Alone(q)
      BY <1>5, <2>1, <3>1, AloneBefore
    <3>3. index[q] # index[p]
      BY <1>1, <3>1, <3>2 DEF Alone
    <3> QED
      BY <1>0, <1>1, <1>2, <3>1, <3>2, <3>3 DEF Peers
  <2>2. ASSUME NEW i \in Idx, owner'[i] # NoProc
        PROVE  index'[owner'[i]] = i /\ ppc'[owner'[i]] \in {"ready", "serving", "gone"}
    <3>1. owner'[i] = owner[i]
      BY <1>2, <2>2
    <3> QED
      BY <1>0, <1>1, <2>2, <3>1 DEF Peers
  <2> QED
    BY <2>1, <2>2 DEF Peers
<1>9. Kept'
  BY <1>0, <1>1, <1>5, ProcessKept DEF roster
<1> QED
  BY <1>3, <1>4, <1>6, <1>7, <1>8, <1>9 DEF Inv

\* REJECT, STOP, a crash and a deadline end the process.
LEMMA LeavesInv ==
  ASSUME Inv, NEW p \in Proc, GetReject(p) \/ GetStop(p) \/ Crash(p) \/ GiveUp(p)
  PROVE  Inv'
<1>0. Types
  BY DEF Inv
<1>1. Ends(p) /\ UNCHANGED <<index, owner, toSup, spc, initing, boot, roster>>
  BY DEF GetReject, GetStop, Crash, GiveUp
<1>2. ppc[p] # "off"
  BY DEF GetReject, GetStop, Crash, GiveUp, Hears, Gone, Live
<1>3. faults' = faults \/ faults' = faults + 1
  BY DEF GetReject, GetStop, Crash, GiveUp, Fault
<1>4. faults' \in Nat
  BY <1>0, <1>3 DEF Types, TypeOK
<1> QED
  BY <1>1, <1>2, <1>4, EndsInv

-----------------------------------------------------------------------------
(* Steps of the supervisor *)

\* The supervisor takes a message, or none: the processes and what they are
\* about to say stay as they are, and who knocked, knocked.
LEMMA SupervisorOutbox ==
  ASSUME Types, Outbox, Peers, UNCHANGED <<procVars, owner>>,
         UNCHANGED toSup \/ \E p \in Proc, m \in MsgToSup : Takes(p, m)
  PROVE  /\ Outbox' /\ Peers' /\ toSup' \in [Proc -> Seq(MsgToSup)]
         /\ \A q \in Proc : Knocked(q) => Knocked(q)'
<1>1. UNCHANGED <<ppc, index, owner>>
  BY DEF procVars
<1>2. Peers'
  BY <1>1 DEF Peers, Alone
<1>3. CASE UNCHANGED toSup
  BY <1>1, <1>2, <1>3 DEF Outbox, Types, Knocked
<1>4. ASSUME NEW p \in Proc, NEW m \in MsgToSup, Takes(p, m)
      PROVE  /\ Outbox' /\ toSup' \in [Proc -> Seq(MsgToSup)]
             /\ \A q \in Proc : Knocked(q) => Knocked(q)'
  <2>1. /\ toSup' \in [Proc -> Seq(MsgToSup)]
        /\ \A q \in Proc \ {p} : toSup'[q] = toSup[q]
        /\ \A x : Has(toSup'[p], x) <=> Has(toSup[p], x) /\ x # m
        /\ Once(toSup'[p]) /\ Has(toSup[p], m)
    BY <1>4, TakesEffect
  <2>2. toSup[p] # << >>
    BY <1>4 DEF Takes
  <2>3. Outbox'
    BY <1>1, <2>1, <2>2 DEF Outbox
  <2>4. \A q \in Proc : Knocked(q) => Knocked(q)'
    BY <1>1, <2>1 DEF Knocked
  <2> QED
    BY <2>1, <2>3, <2>4
<1> QED
  BY <1>2, <1>3, <1>4

\* Nobody new is waited for or registered.
LEMMA SupervisorHeard ==
  ASSUME Types, Heard, UNCHANGED procVars, \A q \in Proc : Knocked(q) => Knocked(q)',
         registered' \subseteq registered, pendingInit' \subseteq pendingInit,
         initing' \in {initing, NoIndex}, pendingReady' = pendingReady
  PROVE  Heard'
BY DEF Heard, procVars

\* A worker that waits for INIT under an index nobody else has is not yet
\* registered, and while its READY is under way nobody waits for it either.
LEMMA NotHeard ==
  ASSUME Types, Heard, NEW p \in Proc, ppc[p] = "ready", Alone(p)
  PROVE  /\ index[p] \notin registered
         /\ Has(toSup[p], "READY") =>
              index[p] \notin pendingInit /\ (initing # NoIndex => index[p] # initing)
<1>1. \A q \in Proc \ {p} : index[q] = index[p] => ppc[q] = "off"
  BY DEF Alone
<1>2. index[p] \notin registered
  BY <1>1 DEF Heard
<1>3. ASSUME Has(toSup[p], "READY"), NEW q \in Proc, Knocked(q), index[q] = index[p] PROVE FALSE
  BY <1>1, <1>3 DEF Knocked
<1> QED
  BY <1>2, <1>3 DEF Heard

\* The READY of no worker gets lost in a step of the supervisor.
LEMMA SupervisorKept ==
  ASSUME Kept, UNCHANGED procVars, spc' # "closed" => spc # "closed",
         \A q \in Proc : ppc[q] = "ready" /\ toProc[q] # << >> => toProc'[q] # << >>,
         \A q \in Proc :
           ppc[q] = "ready" /\ Alone(q) /\ index[q] < MaxWorkers
             /\ (toSup[q] # << >> \/ Has(pendingReady, index[q]))
           => toSup'[q] # << >> \/ toProc'[q] # << >> \/ Has(pendingReady', index[q])
  PROVE  Kept'
<1> SUFFICES ASSUME NEW q \in Proc, ppc'[q] = "ready", Alone(q)',
                    index'[q] < MaxWorkers, spc' # "closed"
             PROVE  toSup'[q] # << >> \/ toProc'[q] # << >> \/ Has(pendingReady', index'[q])
  BY DEF Kept
<1>1. ppc[q] = "ready" /\ index'[q] = index[q] /\ Alone(q)
  BY DEF procVars, Alone
<1>2. toSup[q] # << >> \/ toProc[q] # << >> \/ Has(pendingReady, index[q])
  BY <1>1 DEF Kept
<1> QED
  BY <1>1, <1>2

\* Between waits: at the end of the startup, when a deadline passes and at
\* the end of the session.
LEMMA TurnInv ==
  ASSUME Inv, StartDone \/ StartTimeout \/ InitTimeout \/ Close
  PROVE  Inv'
<1>0. Types /\ Assigned /\ Awaited /\ Outbox /\ Peers /\ Heard /\ Kept
  BY DEF Inv
<1>1. /\ UNCHANGED <<ppc, index, owner, toSup, toProc, boot, roster>>
      /\ faults' = faults \/ faults' = faults + 1
      /\ spc' \in {"start", "run", "closed"} /\ initing' \in {initing, NoIndex}
  BY DEF StartDone, StartTimeout, InitTimeout, Close, procVars, net, Fault
<1>2. Types'
  BY <1>0, <1>1 DEF Types, TypeOK, boot, roster
<1>3. Assigned'
  BY <1>0, <1>1 DEF Assigned, boot
<1>4. Awaited'
  BY <1>0, <1>1 DEF Awaited, StartDone, StartTimeout, Starting, InitTimeout, Close, roster
<1>5. Outbox' /\ Peers' /\ \A q \in Proc : Knocked(q) => Knocked(q)'
  BY <1>0, <1>1, SupervisorOutbox DEF procVars
<1>6. Heard'
  BY <1>0, <1>1, <1>5, SupervisorHeard DEF roster, procVars
<1>7. spc' # "closed" => spc # "closed"
  BY DEF StartDone, StartTimeout, InitTimeout, Close
<1>8. Kept'
  BY <1>0, <1>1, <1>7, SupervisorKept DEF roster, procVars
<1> QED
  BY <1>2, <1>3, <1>4, <1>5, <1>6, <1>8 DEF Inv

LEMMA BootstrapInv == ASSUME Inv, NEW p \in Proc, TakesBootstrap(p) PROVE Inv'
<1>0. Types /\ Assigned /\ Awaited /\ Outbox /\ Peers /\ Heard /\ Kept
  BY DEF Inv
<1> DEFINE Reached == /\ Types' /\ Assigned'
                      /\ \A q \in Proc \ {p} : toProc'[q] = toProc[q]
                      /\ ~Gone(p) => toProc'[p] # << >>
<1>1. /\ Takes(p, "BOOTSTRAP") /\ HandleBootstrap(p)
      /\ UNCHANGED <<procVars, owner, spc, initing, roster, faults>>
  BY DEF TakesBootstrap
<1>2. Outbox' /\ Peers' /\ toSup' \in [Proc -> Seq(MsgToSup)] /\ \A q \in Proc : Knocked(q) => Knocked(q)'
  BY <1>0, <1>1, SupervisorOutbox DEF MsgToSup
<1>3. /\ bootstrapNextIdx \in 0..MaxWorkers /\ MaxWorkers \in Nat
      /\ bootstrapAssignments \in [Proc -> Idx \cup {NoIndex}] /\ NoIndex \notin Idx
  BY <1>0, BootstrapAssumption DEF Types, TypeOK
<1>4. ASSUME toProc' = Reply(p, <<"REJECT">>), UNCHANGED boot
      PROVE  Reached
  <2>1. /\ toProc' \in [Proc -> Seq(MsgToProc)]
        /\ \A q \in Proc \ {p} : toProc'[q] = toProc[q]
        /\ \A x : Has(toProc'[p], x) => x = <<"REJECT">> \/ Has(toProc[p], x)
        /\ ~Gone(p) => toProc'[p] # << >>
    BY <1>0, <1>4, MessageTypes, ReplyEffect
  <2>2. Types'
    BY <1>0, <1>1, <1>2, <1>4, <2>1 DEF Types, TypeOK, boot, roster, procVars
  <2>3. Assigned'
    BY <1>0, <1>1, <1>4, <2>1, MessageTypes DEF Assigned, boot, procVars
  <2> QED
    BY <2>1, <2>2, <2>3
<1>5. ASSUME bootstrapAssignments[p] # NoIndex, UNCHANGED boot,
             toProc' = Reply(p, <<"CONFIG", bootstrapAssignments[p]>>)
      PROVE  Reached
  <2>0. bootstrapAssignments[p] \in Idx
    BY <1>3, <1>5
  <2>1. /\ toProc' \in [Proc -> Seq(MsgToProc)]
        /\ \A q \in Proc \ {p} : toProc'[q] = toProc[q]
        /\ \A x : Has(toProc'[p], x) => x = <<"CONFIG", bootstrapAssignments[p]>> \/ Has(toProc[p], x)
        /\ ~Gone(p) => toProc'[p] # << >>
    BY <1>0, <1>5, <2>0, MessageTypes, ReplyEffect
  <2>2. Types'
    BY <1>0, <1>1, <1>2, <1>5, <2>1 DEF Types, TypeOK, boot, roster, procVars
  <2>3. Assigned'
    BY <1>0, <1>1, <1>5, <2>0, <2>1, MessageTypes DEF Assigned, boot, procVars
  <2> QED
    BY <2>1, <2>2, <2>3
<1>6. ASSUME bootstrapAssignments[p] = NoIndex, bootstrapNextIdx < MaxWorkers,
             toProc' = Reply(p, <<"CONFIG", bootstrapNextIdx>>),
             bootstrapNextIdx' = bootstrapNextIdx + 1,
             bootstrapAssignments' = [bootstrapAssignments EXCEPT ![p] = bootstrapNextIdx]
      PROVE  Reached
  <2>0. bootstrapNextIdx \in Idx /\ bootstrapNextIdx + 1 \in 0..MaxWorkers
    BY <1>3, <1>6 DEF Idx
  <2>1. /\ toProc' \in [Proc -> Seq(MsgToProc)]
        /\ \A q \in Proc \ {p} : toProc'[q] = toProc[q]
        /\ \A x : Has(toProc'[p], x) => x = <<"CONFIG", bootstrapNextIdx>> \/ Has(toProc[p], x)
        /\ ~Gone(p) => toProc'[p] # << >>
    BY <1>0, <1>6, <2>0, MessageTypes, ReplyEffect
  <2>2. /\ bootstrapAssignments' \in [Proc -> Idx \cup {NoIndex}]
        /\ bootstrapAssignments'[p] = bootstrapNextIdx
        /\ \A q \in Proc \ {p} : bootstrapAssignments'[q] = bootstrapAssignments[q]
    BY <1>3, <1>6, <2>0
  <2>3. Types'
    BY <1>0, <1>1, <1>2, <1>6, <2>0, <2>1, <2>2 DEF Types, TypeOK, roster, procVars
  <2>4. \A i \in Idx : ~Has(toProc[p], <<"CONFIG", i>>)
    BY <1>0, <1>3, <1>6 DEF Assigned
  <2>5. \A q \in Proc, i \in Idx : Has(toProc'[q], <<"CONFIG", i>>) => bootstrapAssignments'[q] = i
    BY <1>0, <2>0, <2>1, <2>2, <2>4, MessageTypes DEF Assigned
  <2>6. \A q \in Proc : IF Given[q] = NoIndex THEN index'[q] \in {NoIndex, bootstrapAssignments'[q]}
                                              ELSE index'[q] = Given[q]
    BY <1>0, <1>1, <1>6, <2>2 DEF Assigned, procVars
  <2>7. ASSUME NEW q \in Proc, bootstrapAssignments'[q] # NoIndex
        PROVE  bootstrapAssignments'[q] < bootstrapNextIdx'
    <3>1. CASE q = p
      BY <1>3, <1>6, <2>2, <3>1
    <3>2. CASE q # p
      <4>1. bootstrapAssignments'[q] = bootstrapAssignments[q] /\ bootstrapAssignments[q] \in Idx
        BY <1>3, <2>2, <2>7, <3>2
      <4>2. bootstrapAssignments[q] < bootstrapNextIdx
        BY <1>0, <2>7, <4>1 DEF Assigned
      <4> QED
        BY <1>3, <1>6, <4>1, <4>2 DEF Idx
    <3> QED
      BY <3>1, <3>2
  <2>8. ASSUME NEW q \in Proc, bootstrapAssignments'[q] # NoIndex, NEW r \in Proc \ {q}
        PROVE  bootstrapAssignments'[r] # bootstrapAssignments'[q]
    <3>0. ASSUME NEW u \in Proc, bootstrapAssignments[u] = bootstrapNextIdx PROVE FALSE
      <4>1. bootstrapAssignments[u] # NoIndex
        BY <1>3, <2>0, <3>0
      <4>2. bootstrapAssignments[u] < bootstrapNextIdx
        BY <1>0, <4>1 DEF Assigned
      <4> QED
        BY <1>3, <3>0, <4>2
    <3>1. CASE q = p
      BY <2>2, <2>8, <3>0, <3>1
    <3>2. CASE q # p
      BY <1>0, <2>2, <2>8, <3>0, <3>2 DEF Assigned
    <3> QED
      BY <3>1, <3>2
  <2>9. Assigned'
    BY <2>5, <2>6, <2>7, <2>8 DEF Assigned
  <2> QED
    BY <2>1, <2>3, <2>9
<1>7. Reached
  BY <1>1, <1>3, <1>4, <1>5, <1>6 DEF HandleBootstrap
<1>8. Awaited'
  BY <1>0, <1>1 DEF Awaited, roster
<1>9. Heard'
  BY <1>0, <1>1, <1>2, SupervisorHeard DEF roster
<1>10. Kept'
  <2>1. \A q \in Proc \ {p} : toSup'[q] = toSup[q]
    BY <1>0, <1>1, TakesEffect
  <2>2. ppc[p] = "ready" => ~Gone(p)
    BY DEF Gone, Live
  <2> QED
    BY <1>0, <1>1, <1>7, <2>1, <2>2, SupervisorKept DEF roster
<1> QED
  BY <1>2, <1>7, <1>8, <1>9, <1>10 DEF Inv

\* The first half of InitTcpWorker, called at startup.
LEMMA InitTcpWorkerEffect ==
  ASSUME Types, Awaited, spc = "start", NEW i \in Idx, InitTcpWorker(i)
  PROVE  /\ toProc' \in [Proc -> Seq(MsgToProc)] /\ NoPromise
         /\ spc' \in {"start", "initWait"} /\ initing' \in {i, NoIndex}
         /\ IF spc' = "initWait" THEN initing' \in Idx \ registered ELSE initing' = NoIndex
         /\ \A q \in Proc : toProc[q] # << >> => toProc'[q] # << >>
         /\ \A q \in Proc : ppc[q] = "ready" /\ index[q] = i /\ owner[i] = q
                              /\ i < MaxWorkers /\ i \notin registered => toProc'[q] # << >>
<1>1. CASE i >= MaxWorkers \/ i \in registered
  <2>1. UNCHANGED <<toProc, spc, initing>> /\ initing = NoIndex
    BY <1>1 DEF InitTcpWorker, Awaited
  <2>2. i \in registered \/ ~(i < MaxWorkers)
    BY <1>1, BootstrapAssumption DEF Idx
  <2> QED
    BY <2>1, <2>2 DEF Types, NoPromise
<1>2. CASE ~(i >= MaxWorkers \/ i \in registered)
  <2>1. toProc' = Sent({i}, <<"INIT">>) /\ spc' = "initWait" /\ initing' = i
    BY <1>2 DEF InitTcpWorker
  <2>2. /\ toProc' \in [Proc -> Seq(MsgToProc)] /\ NoPromise
        /\ \A q \in Proc : toProc[q] # << >> => toProc'[q] # << >>
        /\ \A q \in Proc : ~Gone(q) /\ index[q] \in {i} /\ owner[index[q]] = q => toProc'[q] # << >>
    BY <2>1, SentEffect
  <2> QED
    BY <1>2, <2>1, <2>2 DEF Gone, Live
<1> QED
  BY <1>1, <1>2

LEMMA StartReadyInv == ASSUME Inv, NEW p \in Proc, StartReady(p) PROVE Inv'
<1>0. Types /\ Assigned /\ Awaited /\ Outbox /\ Peers /\ Heard /\ Kept
  BY DEF Inv
<1>1. /\ spc = "start" /\ Takes(p, "READY") /\ InitTcpWorker(index[p])
      /\ UNCHANGED <<procVars, owner, boot, roster, faults>>
  BY DEF StartReady, Starting
<1>2. /\ \A q \in Proc \ {p} : toSup'[q] = toSup[q]
      /\ ~Has(toSup'[p], "READY") /\ Has(toSup[p], "READY")
  BY <1>0, <1>1, TakesEffect
<1>3. index[p] \in Idx /\ ppc[p] \in {"ready", "serving", "gone"}
  BY <1>0, <1>2 DEF Outbox
<1>4. /\ toProc' \in [Proc -> Seq(MsgToProc)] /\ NoPromise
      /\ spc' \in {"start", "initWait"} /\ initing' \in {index[p], NoIndex}
      /\ IF spc' = "initWait" THEN initing' \in Idx \ registered ELSE initing' = NoIndex
      /\ \A q \in Proc : toProc[q] # << >> => toProc'[q] # << >>
      /\ ppc[p] = "ready" /\ owner[index[p]] = p /\ index[p] < MaxWorkers
           /\ index[p] \notin registered => toProc'[p] # << >>
  BY <1>0, <1>1, <1>3, InitTcpWorkerEffect
<1>5. Outbox' /\ Peers' /\ toSup' \in [Proc -> Seq(MsgToSup)] /\ \A q \in Proc : Knocked(q) => Knocked(q)'
  BY <1>0, <1>1, SupervisorOutbox DEF MsgToSup
<1>6. Types'
  BY <1>0, <1>1, <1>3, <1>4, <1>5 DEF Types, TypeOK, boot, roster, procVars
<1>7. Assigned'
  BY <1>0, <1>1, <1>4 DEF Assigned, NoPromise, boot, procVars
<1>8. Awaited'
  BY <1>0, <1>1, <1>4 DEF Awaited, roster
<1>9. Heard'
  <2>1. Knocked(p)'
    BY <1>1, <1>2, <1>3 DEF Knocked, procVars
  <2> QED
    BY <1>0, <1>1, <1>4, <1>5, <2>1 DEF Heard, roster, procVars
<1>10. Kept'
  <2>1. ppc[p] = "ready" /\ Alone(p) /\ index[p] < MaxWorkers => toProc'[p] # << >>
    BY <1>0, <1>4, NotHeard DEF Peers
  <2> QED
    BY <1>0, <1>1, <1>2, <1>4, <2>1, SupervisorKept DEF roster
<1> QED
  BY <1>5, <1>6, <1>7, <1>8, <1>9, <1>10 DEF Inv

LEMMA StartPendingInv == ASSUME Inv, StartPending PROVE Inv'
<1>0. Types /\ Assigned /\ Awaited /\ Outbox /\ Peers /\ Heard /\ Kept
  BY DEF Inv
<1> DEFINE i == Head(pendingReady)
<1>1. /\ spc = "start" /\ pendingReady # << >> /\ pendingReady \in Seq(Idx)
      /\ InitTcpWorker(i) /\ pendingReady' = Tail(pendingReady)
      /\ UNCHANGED <<procVars, owner, toSup, boot, registered, pendingInit, seen, faults>>
  BY <1>0 DEF StartPending, Types, TypeOK
<1>2. /\ i \in Idx /\ pendingReady' \in Seq(Idx) /\ Has(pendingReady, i)
      /\ \A x : Has(pendingReady, x) <=> x = i \/ Has(pendingReady', x)
  BY <1>1, QueueTail
<1> HIDE DEF i
<1>4. /\ toProc' \in [Proc -> Seq(MsgToProc)] /\ NoPromise
      /\ spc' \in {"start", "initWait"} /\ initing' \in {i, NoIndex}
      /\ IF spc' = "initWait" THEN initing' \in Idx \ registered ELSE initing' = NoIndex
      /\ \A q \in Proc : toProc[q] # << >> => toProc'[q] # << >>
      /\ \A q \in Proc : ppc[q] = "ready" /\ index[q] = i /\ owner[i] = q
                           /\ i < MaxWorkers /\ i \notin registered => toProc'[q] # << >>
  BY <1>0, <1>1, <1>2, InitTcpWorkerEffect
<1>5. Outbox' /\ Peers' /\ \A q \in Proc : Knocked(q) => Knocked(q)'
  BY <1>0, <1>1, SupervisorOutbox
<1>6. Types'
  BY <1>0, <1>1, <1>2, <1>4 DEF Types, TypeOK, boot, procVars
<1>7. Assigned'
  BY <1>0, <1>1, <1>4 DEF Assigned, NoPromise, boot, procVars
<1>8. Awaited'
  BY <1>0, <1>1, <1>4 DEF Awaited
<1>9. Heard'
  BY <1>0, <1>1, <1>2, <1>4, <1>5 DEF Heard, procVars
<1>10. Kept'
  <2>1. ASSUME NEW q \in Proc, ppc[q] = "ready", Alone(q), index[q] < MaxWorkers, index[q] = i
        PROVE  toProc'[q] # << >>
    BY <1>0, <1>4, <2>1, NotHeard DEF Peers
  <2> QED
    BY <1>0, <1>1, <1>2, <1>4, <2>1, SupervisorKept
<1> QED
  BY <1>5, <1>6, <1>7, <1>8, <1>9, <1>10 DEF Inv

\* A READY that arrives during an ACK wait is kept, once.
LEMMA InitReadyInv == ASSUME Inv, NEW p \in Proc, InitReady(p) PROVE Inv'
<1>0. Types /\ Assigned /\ Awaited /\ Outbox /\ Peers /\ Heard /\ Kept
  BY DEF Inv
<1>1. /\ spc = "initWait" /\ Takes(p, "READY") /\ pendingReady \in Seq(Idx)
      /\ pendingReady' = IF index[p] \in registered \cup {initing} \/ Has(pendingReady, index[p])
                         THEN pendingReady ELSE Append(pendingReady, index[p])
      /\ UNCHANGED <<procVars, owner, toProc, spc, initing, boot, registered, pendingInit, seen, faults>>
  BY <1>0 DEF InitReady, Has, Types, TypeOK
<1>2. /\ \A q \in Proc \ {p} : toSup'[q] = toSup[q]
      /\ ~Has(toSup'[p], "READY") /\ Has(toSup[p], "READY")
  BY <1>0, <1>1, TakesEffect
<1>3. index[p] \in Idx /\ ppc[p] \in {"ready", "serving", "gone"}
  BY <1>0, <1>2 DEF Outbox
<1>4. /\ pendingReady' \in Seq(Idx)
      /\ \A x : Has(pendingReady, x) => Has(pendingReady', x)
      /\ \A x : Has(pendingReady', x) => x = index[p] \/ Has(pendingReady, x)
      /\ index[p] \in registered \cup {initing} \/ Has(pendingReady', index[p])
  BY <1>1, <1>3, QueueAppend
<1>5. Outbox' /\ Peers' /\ toSup' \in [Proc -> Seq(MsgToSup)] /\ \A q \in Proc : Knocked(q) => Knocked(q)'
  BY <1>0, <1>1, SupervisorOutbox DEF MsgToSup
<1>6. Types'
  BY <1>0, <1>1, <1>4, <1>5 DEF Types, TypeOK, boot, procVars
<1>7. Assigned'
  BY <1>0, <1>1 DEF Assigned, boot, procVars
<1>8. Awaited'
  BY <1>0, <1>1 DEF Awaited
<1>9. Heard'
  <2>1. Knocked(p)'
    BY <1>1, <1>2, <1>3 DEF Knocked, procVars
  <2> QED
    BY <1>0, <1>1, <1>4, <1>5, <2>1 DEF Heard, procVars
<1>10. Kept'
  <2>1. initing # NoIndex
    BY <1>0, <1>1, BootstrapAssumption DEF Awaited
  <2>2. ppc[p] = "ready" /\ Alone(p) => Has(pendingReady', index[p])
    BY <1>0, <1>2, <1>4, <2>1, NotHeard
  <2> QED
    BY <1>0, <1>1, <1>2, <1>4, <2>2, SupervisorKept
<1> QED
  BY <1>5, <1>6, <1>7, <1>8, <1>9, <1>10 DEF Inv

\* An ACK changes at most who is registered.
LEMMA TakesAckInv ==
  ASSUME Inv, NEW p \in Proc, StartDrops(p) \/ InitAck(p) \/ LateAck(p)
  PROVE  Inv'
<1>0. Types /\ Assigned /\ Awaited /\ Outbox /\ Peers /\ Heard /\ Kept
  BY DEF Inv
<1>1. /\ Takes(p, "ACK") /\ UNCHANGED <<procVars, owner, toProc, boot, pendingReady, faults>>
      /\ spc' # "closed" => spc # "closed"
  BY DEF StartDrops, InitAck, LateAck, roster
<1>2. /\ \A q \in Proc \ {p} : toSup'[q] = toSup[q]
      /\ Has(toSup[p], "ACK")
  BY <1>0, <1>1, TakesEffect
<1>3. index[p] \in Idx /\ ppc[p] \in {"serving", "gone"}
  BY <1>0, <1>2 DEF Outbox
<1>4. Outbox' /\ Peers' /\ toSup' \in [Proc -> Seq(MsgToSup)] /\ \A q \in Proc : Knocked(q) => Knocked(q)'
  BY <1>0, <1>1, SupervisorOutbox DEF MsgToSup
<1>5. \/ UNCHANGED <<spc, initing, registered, pendingInit, seen>>
      \/ /\ spc = "initWait" /\ index[p] = initing /\ spc' = "start" /\ initing' = NoIndex
         /\ registered' = registered \cup {initing} /\ seen' = seen \cup {initing}
         /\ UNCHANGED pendingInit
      \/ /\ spc = "run" /\ index[p] \in pendingInit /\ UNCHANGED <<spc, initing, seen>>
         /\ registered' = registered \cup {index[p]} /\ pendingInit' = pendingInit \ {index[p]}
  BY DEF StartDrops, InitAck, LateAck, roster
<1>6. Types'
  <2>1. /\ spc' \in {"start", "initWait", "run", "finish", "closed"} /\ initing' \in Idx \cup {NoIndex}
        /\ registered' \subseteq Idx /\ pendingInit' \subseteq Idx /\ seen' \subseteq Idx
    BY <1>0, <1>3, <1>5 DEF Types, TypeOK
  <2> QED
    BY <1>0, <1>1, <1>4, <2>1 DEF Types, TypeOK, boot, procVars
<1>7. Assigned'
  BY <1>0, <1>1 DEF Assigned, boot, procVars
<1>8. Awaited'
  BY <1>0, <1>5 DEF Awaited
<1>9. Heard'
  <2>1. /\ registered' \cup pendingInit' \subseteq registered \cup pendingInit \cup {initing}
        /\ initing \in registered' => initing # NoIndex
        /\ registered' \subseteq registered \cup {index[p]}
        /\ initing' \in {initing, NoIndex}
    BY <1>0, <1>3, <1>5, <1>6, BootstrapAssumption DEF Types, TypeOK
  <2>2. \A i \in registered' \cup pendingInit' : \E q \in Proc : index[q] = i /\ Knocked(q)
    <3> TAKE i \in registered' \cup pendingInit'
    <3>1. CASE i \in registered \cup pendingInit
      BY <1>0, <3>1 DEF Heard
    <3>2. CASE i = initing /\ i \notin registered \cup pendingInit
      <4>1. i \in Idx
        BY <1>6 DEF Types, TypeOK
      <4> QED
        BY <1>0, <3>2, <4>1, BootstrapAssumption DEF Heard
    <3> QED
      BY <2>1, <3>1, <3>2
  <2>3. \A i \in registered' : \E q \in Proc : index[q] = i /\ ppc[q] \in {"serving", "gone"}
    BY <1>0, <1>3, <2>1 DEF Heard
  <2> QED
    BY <1>0, <1>1, <1>4, <2>1, <2>2, <2>3 DEF Heard, procVars
<1>10. Kept'
  BY <1>0, <1>1, <1>2, <1>3, SupervisorKept
<1> QED
  BY <1>4, <1>6, <1>7, <1>8, <1>9, <1>10 DEF Inv

\* A READY in the loop is answered with INIT, unless its worker is known.
LEMMA LateReadyInv == ASSUME Inv, NEW p \in Proc, LateReady(p) PROVE Inv'
<1>0. Types /\ Assigned /\ Awaited /\ Outbox /\ Peers /\ Heard /\ Kept
  BY DEF Inv
<1>1. /\ spc = "run" /\ Takes(p, "READY") /\ seen' = seen \cup {index[p]}
      /\ UNCHANGED <<procVars, owner, spc, initing, boot, registered, pendingReady, faults>>
  BY DEF LateReady
<1>2. /\ \A q \in Proc \ {p} : toSup'[q] = toSup[q]
      /\ ~Has(toSup'[p], "READY") /\ Has(toSup[p], "READY")
  BY <1>0, <1>1, TakesEffect
<1>3. index[p] \in Idx /\ ppc[p] \in {"ready", "serving", "gone"}
  BY <1>0, <1>2 DEF Outbox
<1>4. Outbox' /\ Peers' /\ toSup' \in [Proc -> Seq(MsgToSup)] /\ \A q \in Proc : Knocked(q) => Knocked(q)'
  BY <1>0, <1>1, SupervisorOutbox DEF MsgToSup
<1>5. /\ toProc' \in [Proc -> Seq(MsgToProc)] /\ NoPromise
      /\ pendingInit' \in {pendingInit, pendingInit \cup {index[p]}}
      /\ pendingInit' \cap registered = {}
      /\ \A q \in Proc : toProc[q] # << >> => toProc'[q] # << >>
      /\ ppc[p] = "ready" /\ Alone(p) /\ index[p] < MaxWorkers => toProc'[p] # << >>
  <2>1. CASE Joining(index[p]) \/ index[p] >= MaxWorkers
    <3>1. UNCHANGED <<toProc, pendingInit>>
      BY <2>1 DEF LateReady
    <3>2. index[p] \in registered \/ index[p] \in pendingInit \/ ~(index[p] < MaxWorkers)
      BY <1>3, <2>1, BootstrapAssumption DEF Joining, Idx
    <3>3. ~(ppc[p] = "ready" /\ Alone(p) /\ index[p] < MaxWorkers)
      BY <1>0, <1>2, <3>2, NotHeard
    <3> QED
      BY <1>0, <3>1, <3>3 DEF Types, NoPromise, Awaited
  <2>2. CASE ~(Joining(index[p]) \/ index[p] >= MaxWorkers)
    <3>1. /\ toProc' = Sent({index[p]}, <<"INIT">>) /\ pendingInit' = pendingInit \cup {index[p]}
          /\ index[p] \notin registered
      BY <2>2 DEF LateReady, Joining
    <3>2. /\ toProc' \in [Proc -> Seq(MsgToProc)] /\ NoPromise
          /\ \A q \in Proc : toProc[q] # << >> => toProc'[q] # << >>
          /\ ~Gone(p) /\ index[p] \in {index[p]} /\ owner[index[p]] = p => toProc'[p] # << >>
      BY <1>0, <3>1, SentEffect
    <3>3. ppc[p] = "ready" /\ Alone(p) => ~Gone(p) /\ owner[index[p]] = p
      BY <1>0 DEF Gone, Live, Peers
    <3> QED
      BY <1>0, <3>1, <3>2, <3>3 DEF Awaited
  <2> QED
    BY <2>1, <2>2
<1>6. Types'
  BY <1>0, <1>1, <1>3, <1>4, <1>5 DEF Types, TypeOK, boot, procVars
<1>7. Assigned'
  BY <1>0, <1>1, <1>5 DEF Assigned, NoPromise, boot, procVars
<1>8. Awaited'
  BY <1>0, <1>1, <1>5 DEF Awaited
<1>9. Heard'
  <2>1. Knocked(p)'
    BY <1>1, <1>2, <1>3 DEF Knocked, procVars
  <2> QED
    BY <1>0, <1>1, <1>4, <1>5, <2>1 DEF Heard, procVars
<1>10. Kept'
  BY <1>0, <1>1, <1>2, <1>5, SupervisorKept
<1> QED
  BY <1>4, <1>6, <1>7, <1>8, <1>9, <1>10 DEF Inv

LEMMA ForgetInv ==
  ASSUME Inv, NextDefinition \/ \E i \in Idx : Remove(i)
  PROVE  Inv'
<1>0. Types /\ Assigned /\ Awaited /\ Outbox /\ Peers /\ Heard /\ Kept
  BY DEF Inv
<1>1. /\ spc = "run" /\ UNCHANGED <<procVars, owner, toSup, toProc, spc, initing, boot, pendingReady, seen>>
      /\ registered' \subseteq registered /\ pendingInit' \subseteq pendingInit
      /\ faults' = faults \/ faults' = faults + 1
  BY DEF NextDefinition, Remove, Fault, net
<1>2. Outbox' /\ Peers' /\ \A q \in Proc : Knocked(q) => Knocked(q)'
  BY <1>0, <1>1, SupervisorOutbox
<1>3. Types'
  BY <1>0, <1>1 DEF Types, TypeOK, boot, procVars
<1>4. Assigned'
  BY <1>0, <1>1 DEF Assigned, boot, procVars
<1>5. Awaited'
  BY <1>0, <1>1 DEF Awaited
<1>6. Heard'
  BY <1>0, <1>1, <1>2, SupervisorHeard
<1>7. Kept'
  BY <1>0, <1>1, SupervisorKept
<1> QED
  BY <1>2, <1>3, <1>4, <1>5, <1>6, <1>7 DEF Inv

LEMMA FinishInv == ASSUME Inv, Finish PROVE Inv'
<1>0. Types /\ Assigned /\ Awaited /\ Outbox /\ Peers /\ Heard /\ Kept
  BY DEF Inv
<1>1. /\ spc = "run" /\ spc' \in {"finish", "closed"}
      /\ toProc' = Sent(registered \cup seen, <<"STOP">>)
      /\ UNCHANGED <<procVars, owner, toSup, initing, boot, roster, faults>>
  BY DEF Finish
<1>2. /\ toProc' \in [Proc -> Seq(MsgToProc)] /\ NoPromise
      /\ \A q \in Proc : toProc[q] # << >> => toProc'[q] # << >>
  BY <1>0, <1>1, SentEffect
<1>3. Outbox' /\ Peers' /\ \A q \in Proc : Knocked(q) => Knocked(q)'
  BY <1>0, <1>1, SupervisorOutbox
<1>4. Types'
  BY <1>0, <1>1, <1>2 DEF Types, TypeOK, boot, roster, procVars
<1>5. Assigned'
  BY <1>0, <1>1, <1>2 DEF Assigned, NoPromise, boot, procVars
<1>6. Awaited'
  BY <1>0, <1>1 DEF Awaited, roster
<1>7. Heard'
  BY <1>0, <1>1, <1>3, SupervisorHeard DEF roster
<1>8. Kept'
  BY <1>0, <1>1, <1>2, SupervisorKept DEF roster
<1> QED
  BY <1>3, <1>4, <1>5, <1>6, <1>7, <1>8 DEF Inv

LEMMA FinishReceiveInv == ASSUME Inv, NEW p \in Proc, FinishReceive(p) PROVE Inv'
<1>0. Types /\ Assigned /\ Awaited /\ Outbox /\ Peers /\ Heard /\ Kept
  BY DEF Inv
<1>1. /\ spc = "finish" /\ UNCHANGED <<procVars, owner, spc, initing, boot, roster, faults>>
  BY DEF FinishReceive
<1>2. PICK m \in MsgToSup : Takes(p, m)
  BY DEF FinishReceive, MsgToSup
<1>3. Outbox' /\ Peers' /\ toSup' \in [Proc -> Seq(MsgToSup)] /\ \A q \in Proc : Knocked(q) => Knocked(q)'
  BY <1>0, <1>1, <1>2, SupervisorOutbox
<1>4. \A q \in Proc \ {p} : toSup'[q] = toSup[q]
  BY <1>0, <1>2, TakesEffect
<1>5. /\ toProc' \in [Proc -> Seq(MsgToProc)] /\ NoPromise
      /\ \A q \in Proc : ppc[q] = "ready" /\ toProc[q] # << >> => toProc'[q] # << >>
      /\ ppc[p] = "ready" /\ Alone(p) => toProc'[p] # << >>
  <2>0. ppc[p] = "ready" => ~Gone(p)
    BY DEF Gone, Live
  <2>1. CASE Takes(p, "READY") /\ toProc' = Sent({index[p]}, <<"STOP">>)
    <3>1. /\ toProc' \in [Proc -> Seq(MsgToProc)] /\ NoPromise
          /\ \A q \in Proc : toProc[q] # << >> => toProc'[q] # << >>
          /\ ~Gone(p) /\ index[p] \in {index[p]} /\ owner[index[p]] = p => toProc'[p] # << >>
      BY <1>0, <2>1, SentEffect
    <3> QED
      BY <1>0, <2>0, <3>1 DEF Peers
  <2>2. CASE Takes(p, "BOOTSTRAP") /\ toProc' = Reply(p, <<"REJECT">>)
    <3>1. /\ toProc' \in [Proc -> Seq(MsgToProc)]
          /\ \A q \in Proc \ {p} : toProc'[q] = toProc[q]
          /\ \A x : Has(toProc'[p], x) => x = <<"REJECT">> \/ Has(toProc[p], x)
          /\ ~Gone(p) => toProc'[p] # << >>
      BY <1>0, <2>2, MessageTypes, ReplyEffect
    <3> QED
      BY <2>0, <3>1, MessageTypes DEF NoPromise
  <2>3. CASE Takes(p, "ACK") /\ UNCHANGED toProc
    <3>1. Has(toSup[p], "ACK")
      BY <1>0, <2>3, TakesEffect
    <3> QED
      BY <1>0, <2>3, <3>1 DEF Types, Outbox, NoPromise
  <2> QED
    BY <2>1, <2>2, <2>3 DEF FinishReceive
<1>6. Types'
  BY <1>0, <1>1, <1>3, <1>5 DEF Types, TypeOK, boot, roster, procVars
<1>7. Assigned'
  BY <1>0, <1>1, <1>5 DEF Assigned, NoPromise, boot, procVars
<1>8. Awaited'
  BY <1>0, <1>1 DEF Awaited, roster
<1>9. Heard'
  BY <1>0, <1>1, <1>3, SupervisorHeard DEF roster
<1>10. Kept'
  BY <1>0, <1>1, <1>4, <1>5, SupervisorKept DEF roster
<1> QED
  BY <1>3, <1>6, <1>7, <1>8, <1>9, <1>10 DEF Inv

-----------------------------------------------------------------------------
(* Theorems *)

LEMMA NextInv == Inv /\ [Next]_vars => Inv'
<1> SUFFICES ASSUME Inv, [Next]_vars PROVE Inv'
  OBVIOUS
<1>1. CASE UNCHANGED vars
  <2>1. UNCHANGED <<ppc, index, owner, toSup, toProc, spc, initing, bootstrapNextIdx,
                    bootstrapAssignments, registered, pendingReady, pendingInit, seen, faults>>
    BY <1>1 DEF vars, procVars, net, boot, roster
  <2> QED
    BY <2>1 DEF Inv, Types, TypeOK, Assigned, Awaited, Outbox, Peers, Alone, Heard, Knocked, Kept
<1>2. ASSUME NEW p \in Proc, Start(p) \/ ProcStep(p) \/ Crash(p) \/ Disconnect(p) \/ GiveUp(p)
      PROVE  Inv'
  BY <1>2, StartInv, GetConfigInv, ConnectInv, GetInitInv, IgnoreInitInv, LeavesInv, DisconnectInv
     DEF ProcStep
<1>3. ASSUME NEW p \in Proc, ReceiveFrom(p)
      PROVE  Inv'
  <2>1. CASE ReceiveBootstrap(p)
    BY <2>1, BootstrapInv DEF ReceiveBootstrap
  <2> QED
    BY <1>3, <2>1, StartReadyInv, InitReadyInv, TakesAckInv, LateReadyInv, FinishReceiveInv
       DEF ReceiveFrom, Startup
<1> QED
  BY <1>1, <1>2, <1>3, StartPendingInv, TurnInv, ForgetInv, FinishInv DEF Next

\* The inductive invariant holds in every reachable state.
LEMMA InvAlways == Spec => []Inv
BY InitInv, NextInv, PTL DEF Spec

\* Indices, identities and the supervisor's tables stay in their types, and
\* bootstrapNextIdx never passes MaxWorkers.
THEOREM TypeCorrect == Spec => []TypeOK
<1>1. Inv => TypeOK
  BY DEF Inv, Types
<1> QED
  BY <1>1, InvAlways, PTL

\* Two processes that got their index from HandleBootstrap never share it,
\* however many bootstrap, ask again, crash or come with an index of their own.
THEOREM IndexIsMineAlways == Spec => []IndexIsMine
<1>1. Inv => IndexIsMine
  BY DEF Inv, Assigned, IndexIsMine
<1> QED
  BY <1>1, InvAlways, PTL

\* The ACK that InitTcpWorker or the dispatch loop waits for is never that of
\* a worker already registered.
THEOREM NeverReplacedAlways == Spec => []NeverReplaced
<1>1. Inv => NeverReplaced
  BY BootstrapAssumption DEF Inv, Types, TypeOK, Awaited, NeverReplaced
<1> QED
  BY <1>1, InvAlways, PTL

\* The supervisor never forgets a worker that waits for INIT under an index
\* of its own: its READY is queued, kept in pendingReady, or answered.
THEOREM ReadyKeptAlways == Spec => []ReadyKept
<1>1. Inv => ReadyKept
  BY DEF Inv, Kept, Has, ReadyKept
<1> QED
  BY <1>1, InvAlways, PTL
=============================================================================
