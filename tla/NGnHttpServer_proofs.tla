------------------------ MODULE NGnHttpServer_proofs ------------------------
(***************************************************************************)
(* The history of the server is a stack that matches the server's objects, *)
(* for any set of files and any number of navigator levels.                *)
(*                                                                         *)
(* A request takes the history through states in which it does not match:  *)
(* an entry is added before its handler runs, and a handler may run before *)
(* the entries it voids are removed.  The invariant therefore speaks of    *)
(* the entries below a position, and the removal of the entries from that  *)
(* position on, newest first, restores it for the whole history.           *)
(***************************************************************************)
EXTENDS NGnHttpServer, CommonLemmas, FiniteSetTheorems, TLAPS

MaybeFile == File \cup {NoFile}
HistoryEntry == [name : Routes, file : MaybeFile]

Server == [tree : MaybeFile, nav : [file : MaybeFile, stale : BOOLEAN],
           workspace : [Keys -> MaybeFile], point : Nat, history : Seq(HistoryEntry)]

\* The entries below position i are those of the server's objects.
Sound(s, i) ==
  /\ s \in Server
  /\ \A p, q \in 1..Len(s.history) : s.history[p].name = s.history[q].name => p = q
  /\ Opened(s) => \E p \in 1..Len(s.history) :
                    s.history[p].name = "ngnt/open" /\ s.history[p].file = s.tree
  /\ \A p \in 1..Len(s.history) :
       p < i /\ s.history[p].name = "ngnt/open" => Opened(s) /\ s.history[p].file = s.tree
  /\ \A p \in 1..Len(s.history) :
       p < i /\ s.history[p].name = "ngnt/reshape" =>
         /\ s.nav = [file |-> s.tree, stale |-> FALSE]
         /\ \E q \in 1..Len(s.history) : q < p /\ s.history[q].name = "ngnt/open"

Inv ==
  /\ srv \in Server
  /\ IF fUseHistory THEN Sound(srv, Len(srv.history) + 1) ELSE srv.history = << >>

-----------------------------------------------------------------------------
(* The handlers *)

LEMMA Constants ==
  /\ NoFile \notin File /\ nLevels \in Nat \ {0}
  /\ NoNav \in [file : MaybeFile, stale : BOOLEAN]
  /\ \A s \in Server : Opened(s) => Plain \in MaybeFile
<1>1. NoFile \notin File /\ nLevels \in Nat \ {0}
  BY RoutesAssumption
<1>2. NoNav \in [file : MaybeFile, stale : BOOLEAN]
  BY DEF NoNav, MaybeFile
<1>3. ASSUME NEW s \in Server, Opened(s) PROVE Plain \in MaybeFile
  <2>1. s.tree \in File
    BY <1>3 DEF Opened, Server, MaybeFile
  <2> QED BY <2>1 DEF Plain, MaybeFile
<1> QED BY <1>1, <1>2, <1>3

LEMMA SchemaFacts ==
  ASSUME NEW s \in Server, NEW key \in Keys, NEW file \in MaybeFile, NEW t, t = Schema(s, key, file)
  PROVE  /\ t \in Server /\ t.tree = s.tree /\ t.nav = s.nav
         /\ t.point = s.point /\ t.history = s.history
BY DEF Schema, Server

\* Closing the tree leaves a navigator behind, never a tree.
LEMMA CloseTreeFacts ==
  ASSUME NEW s \in Server, NEW t, t = CloseTree(s)
  PROVE  t \in Server /\ ~Opened(t) /\ t.tree = NoFile /\ t.history = s.history
<1>1. s.nav \in [file : MaybeFile, stale : BOOLEAN]
  BY DEF Server
<1>2. (s.nav.stale \/ Navigable(s)) \in BOOLEAN
  BY Zenon DEF Navigable, Opened
<1>3. [s.nav EXCEPT !.stale = @ \/ Navigable(s)] \in [file : MaybeFile, stale : BOOLEAN]
  BY <1>1, <1>2
<1>4. t = [s EXCEPT !.tree = NoFile, !.nav = [s.nav EXCEPT !.stale = @ \/ Navigable(s)]]
  BY DEF CloseTree, Server
<1> DEFINE v == [s.nav EXCEPT !.stale = @ \/ Navigable(s)]
<1> HIDE DEF v
<1>5. /\ t = [s EXCEPT !.tree = NoFile, !.nav = v]
      /\ v \in [file : MaybeFile, stale : BOOLEAN]
  BY <1>3, <1>4 DEF v
<1> QED BY <1>5 DEF Server, MaybeFile, Opened

\* DELETE of a route: only open and reshape touch an object, no handler
\* touches the history, and a refused request changes nothing.
LEMMA DeleteFacts ==
  ASSUME NEW s \in Server, NEW name \in Routes, NEW r, r = DeleteHandler(s, name)
  PROVE  /\ r.s \in Server /\ r.s.history = s.history
         /\ name = "ngnt/open" => r.ok /\ r.s.tree = NoFile
         /\ name = "ngnt/reshape" => r.s.tree = s.tree /\ (~r.ok => ~Opened(s))
         /\ name \notin {"ngnt/open", "ngnt/reshape"} => r.s = s
         /\ ~r.ok => r.s = s
<1>1. CASE name = "ngnt/open"
  <2>1. r = [s |-> CloseTree(s), ok |-> TRUE]
    BY <1>1 DEF DeleteHandler, Open_Delete, Answer
  <2> DEFINE t == CloseTree(s)
  <2>2. t \in Server /\ t.tree = NoFile /\ t.history = s.history
    BY CloseTreeFacts
  <2>3. r = [s |-> t, ok |-> TRUE]
    BY <2>1
  <2> HIDE DEF t
  <2>4. r.s = t /\ r.ok = TRUE
    BY <2>3
  <2> QED BY <1>1, <2>2, <2>4
<1>2. CASE name = "ngnt/reshape"
  <2>1. CASE Opened(s)
    <3>1. r = [s |-> [s EXCEPT !.nav = NoNav], ok |-> TRUE]
      BY <1>2, <2>1 DEF DeleteHandler, Reshape_Delete, Answer
    <3>2. [s EXCEPT !.nav = NoNav] \in Server
      BY Constants DEF Server
    <3>3. [s EXCEPT !.nav = NoNav].tree = s.tree /\ [s EXCEPT !.nav = NoNav].history = s.history
      BY DEF Server
    <3> DEFINE t == [s EXCEPT !.nav = NoNav]
    <3> HIDE DEF t
    <3>4. r.s = t /\ r.ok = TRUE
      BY <3>1 DEF t
    <3>5. t \in Server /\ t.tree = s.tree /\ t.history = s.history
      BY <3>2, <3>3 DEF t
    <3> QED BY <1>2, <3>4, <3>5
  <2>2. CASE ~Opened(s)
    <3>1. r = [s |-> s, ok |-> FALSE]
      BY <1>2, <2>2 DEF DeleteHandler, Reshape_Delete, Answer
    <3> QED BY <1>2, <2>2, <3>1
  <2> QED BY <2>1, <2>2
<1>3. CASE name \notin {"ngnt/open", "ngnt/reshape"}
  <2>1. r.s = s
    BY <1>3 DEF DeleteHandler, Answer, Routes
  <2> QED BY <1>3, <2>1
<1> QED BY <1>1, <1>2, <1>3

\* POST of a route other than open and reshape leaves the objects alone.
LEMMA PostFacts ==
  ASSUME NEW s \in Server, NEW name \in Routes \ {"ngnt/open", "ngnt/reshape"}, NEW file, NEW ok \in BOOLEAN,
         NEW r, r = PostHandler(s, name, file, ok)
  PROVE  r.s \in Server /\ r.s.tree = s.tree /\ r.s.nav = s.nav /\ r.s.history = s.history
<1>1. CASE name = "ngnt/map"
  <2>1. r = Map_Post(s, ok)
    BY <1>1 DEF PostHandler
  <2>2. CASE ~(Navigable(s) /\ ok)
    BY <2>1, <2>2 DEF Map_Post, Answer
  <2>3. CASE Navigable(s) /\ ok
    <3> DEFINE a == Schema(s, "map", Plain)
               b == Schema(a, "spectra", s.tree)
    <3>1. Plain \in MaybeFile /\ s.tree \in MaybeFile /\ {"map", "spectra"} \subseteq Keys
      BY <2>3, Constants DEF Navigable, Server, Keys
    <3>2. r.s = b
      BY <2>1, <2>3 DEF Map_Post, Answer
    <3>3. a \in Server /\ a.tree = s.tree /\ a.nav = s.nav /\ a.history = s.history
      BY <3>1, SchemaFacts
    <3> HIDE DEF a
    <3>4. b \in Server /\ b.tree = a.tree /\ b.nav = a.nav /\ b.history = a.history
      BY <3>1, <3>3, SchemaFacts
    <3> QED BY <3>2, <3>3, <3>4
  <2> QED BY <2>2, <2>3
<1>2. CASE name = "ngnt/spectra"
  <2>1. r = Spectra_Post(s, ok)
    BY <1>2 DEF PostHandler
  <2>2. CASE ~Navigable(s)
    BY <2>1, <2>2 DEF Spectra_Post, Answer
  <2>3. CASE Navigable(s)
    <3> DEFINE b == Schema(s, "spectra", s.tree)
    <3>1. s.tree \in MaybeFile /\ "spectra" \in Keys
      BY DEF Server, Keys
    <3>2. r.s = b
      BY <2>1, <2>3 DEF Spectra_Post, Answer
    <3>3. b \in Server /\ b.tree = s.tree /\ b.nav = s.nav /\ b.history = s.history
      BY <3>1, SchemaFacts
    <3> QED BY <3>2, <3>3
  <2> QED BY <2>2, <2>3
<1>3. CASE name \in {"ngnt/point", "health"}
  <2>1. r.s = s
    BY <1>3 DEF PostHandler, Answer
  <2> QED BY <2>1
<1> QED BY <1>1, <1>2, <1>3 DEF Routes

\* PATCH changes the point only.
LEMMA PatchFacts ==
  ASSUME NEW s \in Server, NEW name \in Routes, NEW level \in 0..nLevels, NEW bin \in {0, 1},
         NEW ok \in BOOLEAN, NEW t, t = PatchHandler(s, name, level, bin, ok).s
  PROVE  t \in Server /\ t.tree = s.tree /\ t.nav = s.nav /\ t.history = s.history
<1>1. s.point \in Nat /\ nLevels \in Nat \ {0} /\ level \in Nat
  BY Constants DEF Server
<1>2. CASE t = s
  BY <1>2
<1>3. ASSUME NEW p \in Nat, t = [s EXCEPT !.point = p]
      PROVE  t \in Server /\ t.tree = s.tree /\ t.nav = s.nav /\ t.history = s.history
  BY <1>3 DEF Server
<1>4. t = s \/ \E p \in Nat : t = [s EXCEPT !.point = p]
  <2>1. CASE name = "ngnt/map"
    <3>1. (IF level = 0 THEN s.point ELSE level - 1) + bin \in Nat
      BY <1>1
    <3>2. t = Map_Patch(s, level, bin, ok).s
      BY <2>1 DEF PatchHandler
    <3>3. CASE Navigable(s)
      <4>1. t = [s EXCEPT !.point = (IF level = 0 THEN s.point ELSE level - 1) + bin]
        BY <3>2, <3>3 DEF Map_Patch, Answer
      <4> QED BY <3>1, <4>1
    <3>4. CASE ~Navigable(s)
      BY <3>2, <3>4 DEF Map_Patch, Answer
    <3> QED BY <3>3, <3>4
  <2>2. CASE name = "ngnt/spectra"
    <3>2. t = Spectra_Patch(s, level, ok).s
      BY <2>2 DEF PatchHandler
    <3>3. CASE Navigable(s) /\ level # 0
      <4>1. t = [s EXCEPT !.point = (IF s.point > level - 1 THEN level - 1 ELSE s.point) + 1]
        BY <3>2, <3>3 DEF Spectra_Patch, Answer
      <4>2. (IF s.point > level - 1 THEN level - 1 ELSE s.point) + 1 \in Nat
        BY <1>1, <3>3
      <4> QED BY <4>1, <4>2
    <3>4. CASE ~Navigable(s) \/ level = 0
      BY <3>2, <3>4 DEF Spectra_Patch, Answer
    <3> QED BY <3>3, <3>4
  <2>3. CASE name \notin {"ngnt/map", "ngnt/spectra"}
    BY <2>3 DEF PatchHandler, Answer
  <2> QED BY <2>1, <2>2, <2>3
<1> QED BY <1>2, <1>3, <1>4

-----------------------------------------------------------------------------
(* The removal of entries *)

\* The DELETE handler of a route keeps the entries below i right if none of
\* them is of that route.
LEMMA DeleteSound ==
  ASSUME NEW s, NEW i \in Nat, Sound(s, i), NEW name \in Routes,
         \A p \in 1..Len(s.history) : p < i => s.history[p].name # name,
         NEW t, t = DeleteHandler(s, name).s
  PROVE  /\ Sound(t, i) /\ t.history = s.history
         /\ name = "ngnt/open" => ~Opened(t)
<1>1. s \in Server
  BY DEF Sound
<1>2. /\ t \in Server /\ t.history = s.history
      /\ name = "ngnt/open" => t.tree = NoFile
      /\ name = "ngnt/reshape" => t.tree = s.tree
      /\ name \notin {"ngnt/open", "ngnt/reshape"} => t = s
  BY <1>1, DeleteFacts
<1>3. CASE name = "ngnt/open"
  BY <1>2, <1>3 DEF Sound, Opened
<1>4. CASE name = "ngnt/reshape"
  BY <1>2, <1>4 DEF Sound, Opened
<1>5. CASE name \notin {"ngnt/open", "ngnt/reshape"}
  BY <1>2, <1>5
<1> QED BY <1>3, <1>4, <1>5

LEMMA RemoveLastSound ==
  ASSUME NEW s, NEW i \in Nat \ {0}, Sound(s, i), i <= Len(s.history)
  PROVE  /\ Sound(RemoveLast(s), i)
         /\ RemoveLast(s).history = SubSeq(s.history, 1, Len(s.history) - 1)
<1> DEFINE h == s.history
           name == h[Len(h)].name
           t == DeleteHandler(s, name).s
           u == RemoveLast(s)
<1>1. s \in Server /\ h \in Seq(HistoryEntry) /\ Len(h) \in Nat \ {0} /\ h # << >>
  BY DEF Sound, Server
<1>2. h[Len(h)] \in HistoryEntry
  BY <1>1
<1>3. name \in Routes
  BY <1>2 DEF HistoryEntry
<1>4. u = [t EXCEPT !.history = Front(@)]
  BY <1>1 DEF RemoveLast, Last
<1>5. \A p, q \in 1..Len(h) : h[p].name = h[q].name => p = q
  BY DEF Sound
<1>6. \A p \in 1..Len(h) : p < i => h[p].name # name
  BY <1>1, <1>5
<1> HIDE DEF name, t, u, h
<1>7. Sound(t, i) /\ t.history = h /\ (name = "ngnt/open" => ~Opened(t))
  BY <1>3, <1>6, DeleteSound DEF t, h
<1>8. t \in Server
  BY <1>7 DEF Sound
<1> DEFINE k == SubSeq(h, 1, Len(h) - 1)
<1>9. /\ k \in Seq(HistoryEntry) /\ Len(k) = Len(h) - 1
      /\ \A p \in 1..(Len(h) - 1) : k[p] = h[p]
  <2>1. Len(h) - 1 \in 0..Len(h)
    BY <1>1
  <2> QED BY <1>1, <2>1, Prefix
<1> HIDE DEF k
<1>10. /\ u \in Server /\ u.history = k /\ u.tree = t.tree /\ u.nav = t.nav
  BY <1>4, <1>7, <1>8, <1>9 DEF Server, Front, k
<1>11. 1..Len(u.history) = 1..(Len(h) - 1) /\ 1..(Len(h) - 1) \subseteq 1..Len(h)
  BY <1>1, <1>9, <1>10
<1>12. \A p \in 1..Len(u.history) : u.history[p] = t.history[p] /\ p \in 1..Len(t.history)
  BY <1>7, <1>9, <1>10, <1>11
<1>13. Opened(u) => \E p \in 1..Len(u.history) :
                      u.history[p].name = "ngnt/open" /\ u.history[p].file = u.tree
  <2> HAVE Opened(u)
  <2>1. Opened(t) /\ name # "ngnt/open"
    BY <1>7, <1>10 DEF Opened
  <2>2. PICK p \in 1..Len(h) : h[p].name = "ngnt/open" /\ h[p].file = t.tree
    BY <1>7, <2>1 DEF Sound
  <2>3. p # Len(h)
    BY <2>1, <2>2 DEF name
  <2>4. p \in 1..(Len(h) - 1)
    BY <1>1, <2>3
  <2> QED BY <1>10, <1>11, <1>12, <1>7, <2>2, <2>4
<1>14. Opened(u) <=> Opened(t)
  BY <1>10 DEF Opened
<1>15. \A p, q \in 1..Len(u.history) : u.history[p].name = u.history[q].name => p = q
  BY <1>7, <1>12 DEF Sound
<1>16. \A p \in 1..Len(u.history) :
         p < i /\ u.history[p].name = "ngnt/open" => Opened(u) /\ u.history[p].file = u.tree
  BY <1>7, <1>10, <1>12, <1>14 DEF Sound
<1>17. ASSUME NEW p \in 1..Len(u.history), p < i, u.history[p].name = "ngnt/reshape"
       PROVE  /\ u.nav = [file |-> u.tree, stale |-> FALSE]
              /\ \E q \in 1..Len(u.history) : q < p /\ u.history[q].name = "ngnt/open"
  <2>1. p \in 1..Len(t.history) /\ t.history[p].name = "ngnt/reshape"
    BY <1>12, <1>17
  <2>2. /\ t.nav = [file |-> t.tree, stale |-> FALSE]
        /\ \E q \in 1..Len(t.history) : q < p /\ t.history[q].name = "ngnt/open"
    BY <1>7, <1>17, <2>1 DEF Sound
  <2>3. PICK q \in 1..Len(t.history) : q < p /\ t.history[q].name = "ngnt/open"
    BY <2>2
  <2>4. q \in 1..Len(u.history)
    BY <1>1, <1>7, <1>11, <1>17, <2>3
  <2> QED BY <1>10, <1>12, <2>2, <2>3, <2>4
<1>18. Sound(u, i)
  BY <1>10, <1>13, <1>15, <1>16, <1>17 DEF Sound
<1> QED BY <1>10, <1>18 DEF u, k, h

\* The loop of RemoveFrom, as the function of the number of entries removed.
Loop(s, L) == CHOOSE f : f = [n \in 0..L |-> IF n = 0 THEN s ELSE RemoveLast(f[n - 1])]

\* That function exists, and is what it says.
LEMMA Unwind ==
  ASSUME NEW s, NEW L \in Nat, NEW left, left = Loop(s, L)
  PROVE  left[0] = s /\ \A n \in 0..L : n < L => left[n + 1] = RemoveLast(left[n])
<1> DEFINE Is(f, m) == f = [n \in 0..m |-> IF n = 0 THEN s ELSE RemoveLast(f[n - 1])]
           T == {m \in 0..L : \E f : Is(f, m)}
<1>1. 0 \in T
  <2>1. Is([n \in 0..0 |-> s], 0)
    BY SMT
  <2> HIDE DEF Is
  <2>2. 0 \in 0..L
    OBVIOUS
  <2> QED BY <2>1, <2>2
<1>2. ASSUME NEW m \in 0..L, m < L, m \in T PROVE m + 1 \in T
  <2>1. PICK f : Is(f, m)
    BY <1>2
  <2> DEFINE g == [n \in 0..(m + 1) |-> IF n <= m THEN f[n] ELSE RemoveLast(f[m])]
  <2>2. \A n \in 0..m : f[n] = IF n = 0 THEN s ELSE RemoveLast(f[n - 1])
    BY <2>1
  <2> HIDE DEF Is
  <2>3. \A n \in 0..m : g[n] = f[n]
    OBVIOUS
  <2>4. g[m + 1] = RemoveLast(f[m])
    OBVIOUS
  <2>5. DOMAIN g = 0..(m + 1) /\ g = [n \in 0..(m + 1) |-> g[n]]
    OBVIOUS
  <2> HIDE DEF g
  <2>6. ASSUME NEW n \in 0..(m + 1)
        PROVE  g[n] = IF n = 0 THEN s ELSE RemoveLast(g[n - 1])
    <3>1. CASE n = 0
      BY <2>2, <2>3, <3>1
    <3>2. CASE n \in 1..m
      <4>1. n \in 0..m /\ n - 1 \in 0..m /\ n # 0
        BY <3>2
      <4> QED BY <2>2, <2>3, <4>1
    <3>3. CASE n = m + 1
      <4>1. n # 0 /\ n - 1 = m /\ m \in 0..m
        BY <3>3
      <4> QED BY <2>3, <2>4, <3>3, <4>1
    <3> QED BY <3>1, <3>2, <3>3
  <2>7. g = [n \in 0..(m + 1) |-> IF n = 0 THEN s ELSE RemoveLast(g[n - 1])]
    BY <2>5, <2>6
  <2>8. Is(g, m + 1)
    BY <2>7 DEF Is
  <2> QED BY <1>2, <2>8
<1> HIDE DEF T
<1>3. L \in T
  <2>1. \A m \in 0..L : m \in T
    BY <1>1, <1>2, Induction
  <2> QED BY <2>1
<1>4. left = [n \in 0..L |-> IF n = 0 THEN s ELSE RemoveLast(left[n - 1])]
  BY <1>3 DEF T, Loop
<1>5. \A n \in 0..L : left[n] = IF n = 0 THEN s ELSE RemoveLast(left[n - 1])
  BY <1>4
<1>6. ASSUME NEW n \in 0..L, n < L PROVE left[n + 1] = RemoveLast(left[n])
  <2>1. n + 1 \in 0..L /\ n + 1 # 0 /\ (n + 1) - 1 = n
    BY <1>6
  <2> QED BY <1>5, <2>1
<1> QED BY <1>5, <1>6

\* Removing the entries from position i on leaves the ones below it, and the
\* objects they were made from.
LEMMA RemoveFromSound ==
  ASSUME NEW s, NEW i \in Nat \ {0}, Sound(s, i), i <= Len(s.history) + 1
  PROVE  /\ Sound(RemoveFrom(s, i), i)
         /\ RemoveFrom(s, i).history = SubSeq(s.history, 1, i - 1)
<1> DEFINE h == s.history
           L == Len(h)
           left == Loop(s, L)
           m == L + 1 - i
           T == {n \in 0..m : Sound(left[n], i) /\ left[n].history = SubSeq(h, 1, L - n)}
<1>1. h \in Seq(HistoryEntry) /\ L \in Nat /\ m \in 0..L
  BY DEF Sound, Server
<1>2. RemoveFrom(s, i) = left[m]
  BY DEF RemoveFrom, Loop
<1>3. left[0] = s /\ \A n \in 0..L : n < L => left[n + 1] = RemoveLast(left[n])
  BY <1>1, Unwind
<1> HIDE DEF left
<1>4. 0 \in T
  <2>1. SubSeq(h, 1, L - 0) = h
    BY <1>1, PrefixOfPrefix
  <2> QED BY <1>1, <1>3, <2>1
<1>5. ASSUME NEW n \in 0..m, n < m, n \in T PROVE n + 1 \in T
  <2> DEFINE k == left[n].history
  <2>1. Sound(left[n], i) /\ k = SubSeq(h, 1, L - n)
    BY <1>5
  <2>2. L - n \in 0..L /\ L - (n + 1) \in 0..(L - n) /\ i <= L - n /\ (L - n) - 1 = L - (n + 1)
    BY <1>1, <1>5
  <2>3. Len(k) = L - n
    BY <1>1, <2>1, <2>2, Prefix
  <2>4. Sound(RemoveLast(left[n]), i) /\ RemoveLast(left[n]).history = SubSeq(k, 1, Len(k) - 1)
    BY <2>1, <2>2, <2>3, RemoveLastSound
  <2>5. SubSeq(k, 1, Len(k) - 1) = SubSeq(h, 1, L - (n + 1))
    BY <1>1, <2>1, <2>2, <2>3, PrefixOfPrefix
  <2>6. left[n + 1] = RemoveLast(left[n])
    BY <1>1, <1>3, <1>5
  <2>7. n + 1 \in 0..m
    BY <1>1, <1>5
  <2>8. Sound(left[n + 1], i) /\ left[n + 1].history = SubSeq(h, 1, L - (n + 1))
    BY <2>4, <2>5, <2>6
  <2> QED BY <2>7, <2>8
<1>6. m \in T
  <2> HIDE DEF T, m
  <2>1. m \in Nat
    BY <1>1
  <2>2. \A n \in 0..m : n \in T
    BY <1>4, <1>5, <2>1, Induction
  <2> QED BY <2>1, <2>2
<1>7. L - m = i - 1
  BY <1>1
<1> QED BY <1>2, <1>6, <1>7

\* Fewer entries need to be right.
LEMMA SoundBelow ==
  ASSUME NEW s, NEW i \in Nat, NEW j \in Nat, j <= i, Sound(s, i)
  PROVE  Sound(s, j)
<1>1. \A p \in 1..Len(s.history) : p < j => p < i
  BY DEF Sound, Server
<1> QED BY <1>1 DEF Sound

\* The latest entry of a route, of which there is one if there is any.
LEMMA LatestEntry ==
  ASSUME NEW s \in Server, NEW name, Positions(s, name) # {}, NEW i, i = Max(Positions(s, name))
  PROVE  i \in 1..Len(s.history) /\ s.history[i].name = name
<1>1. s.history \in Seq(HistoryEntry) /\ Len(s.history) \in Nat
  BY DEF Server
<1>2. Positions(s, name) \in SUBSET (0..Len(s.history))
  BY <1>1 DEF Positions
<1>3. \E m \in Positions(s, name) : \A k \in Positions(s, name) : k <= m
  BY <1>1, <1>2, GreatestNat
<1>4. \E m \in Positions(s, name) : \A k \in Positions(s, name) : m >= k
  BY <1>2, <1>3
<1>5. i \in Positions(s, name)
  BY <1>4 DEF Max
<1> QED BY <1>1, <1>5 DEF Positions

\* A history without an entry of the route, cut where that entry was.
LEMMA RemoveEntrySound ==
  ASSUME NEW s, NEW name, Sound(s, 0),
         \A i \in 1..Len(s.history) : s.history[i].name = name => Sound(s, i),
         Positions(s, name) = {} => Sound(s, Len(s.history) + 1),
         NEW t, t = RemoveEntry(s, name)
  PROVE  /\ Sound(t, Len(t.history) + 1)
         /\ \E n \in 0..Len(s.history) : t.history = SubSeq(s.history, 1, n)
         /\ \A p \in 1..Len(t.history) : t.history[p].name # name
<1> DEFINE h == s.history
<1>1. s \in Server /\ h \in Seq(HistoryEntry) /\ Len(h) \in Nat
  BY DEF Sound, Server
<1>2. CASE Positions(s, name) = {}
  <2>1. t = s
    BY <1>2 DEF RemoveEntry
  <2>2. SubSeq(h, 1, Len(h)) = h /\ Len(h) \in 0..Len(h)
    BY <1>1, PrefixOfPrefix
  <2>3. \A p \in 1..Len(h) : h[p].name # name
    BY <1>1, <1>2 DEF Positions
  <2> QED BY <1>2, <2>1, <2>2, <2>3
<1>3. CASE Positions(s, name) # {}
  <2> DEFINE i == Max(Positions(s, name))
  <2>1. i \in 1..Len(h) /\ h[i].name = name
    BY <1>1, <1>3, LatestEntry
  <2>2. t = RemoveFrom(s, i)
    BY <1>3 DEF RemoveEntry
  <2> HIDE DEF i
  <2>3. i \in Nat \ {0} /\ i <= Len(h) + 1 /\ i - 1 \in 0..Len(h) /\ (i - 1) + 1 = i
    BY <1>1, <2>1
  <2>4. Sound(s, i)
    BY <2>1
  <2>5. Sound(t, i) /\ t.history = SubSeq(h, 1, i - 1)
    BY <2>2, <2>3, <2>4, RemoveFromSound
  <2>6. Len(t.history) = i - 1 /\ \A p \in 1..(i - 1) : t.history[p] = h[p] /\ p \in 1..Len(h)
    BY <1>1, <2>3, <2>5, Prefix
  <2>7. \A p \in 1..(i - 1) : h[p].name # name
    <3>1. \A p, q \in 1..Len(h) : h[p].name = h[q].name => p = q
      BY DEF Sound
    <3> QED BY <2>1, <2>6, <3>1
  <2> QED BY <2>3, <2>5, <2>6, <2>7
<1> QED BY <1>2, <1>3

-----------------------------------------------------------------------------
(* POST *)

\* The three parts of the state that the invariant speaks of.
LEMMA SoundIfSame ==
  ASSUME NEW s, NEW i, Sound(s, i), NEW t \in Server,
         t.tree = s.tree, t.nav = s.nav, t.history = s.history
  PROVE  Sound(t, i)
<1> DEFINE Part(tree, nav, h) ==
             /\ \A p, q \in 1..Len(h) : h[p].name = h[q].name => p = q
             /\ tree # NoFile => \E p \in 1..Len(h) : h[p].name = "ngnt/open" /\ h[p].file = tree
             /\ \A p \in 1..Len(h) :
                  p < i /\ h[p].name = "ngnt/open" => tree # NoFile /\ h[p].file = tree
             /\ \A p \in 1..Len(h) :
                  p < i /\ h[p].name = "ngnt/reshape" =>
                    /\ nav = [file |-> tree, stale |-> FALSE]
                    /\ \E q \in 1..Len(h) : q < p /\ h[q].name = "ngnt/open"
<1>1. Part(s.tree, s.nav, s.history)
  BY Zenon DEF Sound, Opened
<1>2. Part(t.tree, t.nav, t.history)
  <2> HIDE DEF Part
  <2> QED BY <1>1
<1> QED BY <1>2, Zenon DEF Sound, Opened

\* The history h ends with e, on top of a prefix of g.
OnTop(h, g, e) ==
  \E n \in 0..Len(g) :
    /\ h = Append(SubSeq(g, 1, n), e) /\ h[Len(h)] = e
    /\ Len(h) = n + 1 /\ SubSeq(h, 1, n) = SubSeq(g, 1, n)

\* The entry made for a request stands above the ones that are right.
LEMMA AddEntrySound ==
  ASSUME NEW s, Sound(s, Len(s.history) + 1), NEW name \in Routes, NEW file \in MaybeFile,
         NEW a, a = AddEntry(s, name, file)
  PROVE  /\ Sound(a, Len(a.history)) /\ Len(a.history) \in Nat \ {0}
         /\ name = "ngnt/open" => ~Opened(a)
         /\ OnTop(a.history, s.history, [name |-> name, file |-> file])
<1> DEFINE h == s.history
           t == RemoveEntry(s, name)
           e == [name |-> name, file |-> file]
           k == t.history
           L == Len(a.history)
<1>1. s \in Server /\ h \in Seq(HistoryEntry) /\ Len(h) \in Nat
  BY DEF Sound, Server
<1>2. Sound(s, 0) /\ \A i \in 1..Len(h) : Sound(s, i)
  <2>1. ASSUME NEW i \in 0..Len(h) PROVE Sound(s, i)
    <3>1. i \in Nat /\ Len(h) + 1 \in Nat /\ i <= Len(h) + 1
      BY <1>1
    <3> QED BY <3>1, SoundBelow
  <2> QED BY <1>1, <2>1
<1>3. /\ Sound(t, Len(k) + 1)
      /\ \E n \in 0..Len(h) : k = SubSeq(h, 1, n)
      /\ \A p \in 1..Len(k) : k[p].name # name
  BY <1>2, RemoveEntrySound
<1>4. a = [t EXCEPT !.history = Append(@, e)]
  BY DEF AddEntry
<1> HIDE DEF t
<1>5. t \in Server /\ k \in Seq(HistoryEntry) /\ Len(k) \in Nat
  BY <1>3 DEF Sound, Server
<1>6. e \in HistoryEntry /\ e.name = name /\ e.file = file
  BY DEF HistoryEntry
<1> HIDE DEF e
<1>7. a \in Server /\ a.history = Append(k, e) /\ a.tree = t.tree /\ a.nav = t.nav
  <2> DEFINE g == Append(k, e)
  <2>1. g \in Seq(HistoryEntry)
    BY <1>5, <1>6
  <2>2. a = [t EXCEPT !.history = g]
    BY <1>4
  <2> HIDE DEF g
  <2>3. a \in Server /\ a.history = g /\ a.tree = t.tree /\ a.nav = t.nav
    BY <1>5, <2>1, <2>2 DEF Server
  <2> QED BY <2>3 DEF g
<1>8. /\ L = Len(k) + 1 /\ a.history[L] = e /\ L \in Nat \ {0}
      /\ \A p \in 1..L : p # L => a.history[p] = k[p] /\ p \in 1..Len(k)
      /\ \A p \in 1..Len(k) : p \in 1..L /\ p < L /\ a.history[p] = k[p]
  BY <1>5, <1>6, <1>7
<1> HIDE DEF k, L
<1>9. Opened(a) <=> Opened(t)
  BY <1>7 DEF Opened
<1>10. \A p \in 1..L : p < L => p \in 1..Len(k) /\ p < Len(k) + 1 /\ a.history[p] = k[p]
  BY <1>5, <1>8
<1>11. \A p, q \in 1..L : a.history[p].name = a.history[q].name => p = q
  <2> SUFFICES ASSUME NEW p \in 1..L, NEW q \in 1..L, a.history[p].name = a.history[q].name PROVE p = q
    OBVIOUS
  <2>1. CASE p # L /\ q # L
    <3>1. \A x, y \in 1..Len(k) : k[x].name = k[y].name => x = y
      BY <1>3 DEF Sound, k
    <3> QED BY <1>8, <2>1, <3>1
  <2>2. CASE p = L \/ q = L
    BY <1>3, <1>6, <1>8, <2>2
  <2> QED BY <2>1, <2>2
<1>12. Opened(a) => \E p \in 1..L : a.history[p].name = "ngnt/open" /\ a.history[p].file = a.tree
  <2> HAVE Opened(a)
  <2>1. PICK p \in 1..Len(k) : k[p].name = "ngnt/open" /\ k[p].file = t.tree
    BY <1>3, <1>9 DEF Sound, k
  <2> QED BY <1>7, <1>8, <2>1
<1>13. \A p \in 1..L : p < L /\ a.history[p].name = "ngnt/open" => Opened(a) /\ a.history[p].file = a.tree
  BY <1>3, <1>7, <1>9, <1>10 DEF Sound, k
<1>14. ASSUME NEW p \in 1..L, p < L, a.history[p].name = "ngnt/reshape"
       PROVE  /\ a.nav = [file |-> a.tree, stale |-> FALSE]
              /\ \E q \in 1..L : q < p /\ a.history[q].name = "ngnt/open"
  <2>1. p \in 1..Len(k) /\ p < Len(k) + 1 /\ k[p].name = "ngnt/reshape"
    BY <1>10, <1>14
  <2>2. /\ t.nav = [file |-> t.tree, stale |-> FALSE]
        /\ \E q \in 1..Len(k) : q < p /\ k[q].name = "ngnt/open"
    BY <1>3, <2>1 DEF Sound, k
  <2> QED BY <1>7, <1>8, <2>2
<1>15. Sound(a, L)
  BY <1>7, <1>11, <1>12, <1>13, <1>14 DEF Sound, L
<1>16. name = "ngnt/open" => ~Opened(a)
  BY <1>3, <1>9 DEF Sound, k
<1>17. PICK n \in 0..Len(h) : k = SubSeq(h, 1, n)
  BY <1>3
<1>18. Len(k) = n /\ L = n + 1
  BY <1>1, <1>8, <1>17, Prefix
<1>19. SubSeq(a.history, 1, n) = k
  <2>1. a.history \in Seq(HistoryEntry) /\ n \in 0..Len(a.history)
    BY <1>5, <1>7, <1>8, <1>18 DEF Server, L
  <2>2. /\ SubSeq(a.history, 1, n) \in Seq(HistoryEntry) /\ Len(SubSeq(a.history, 1, n)) = n
        /\ \A p \in 1..n : SubSeq(a.history, 1, n)[p] = a.history[p]
    BY <2>1, Prefix
  <2> QED BY <1>5, <1>8, <1>18, <2>2, SameSeq DEF k
<1>20. OnTop(a.history, h, e)
  BY <1>7, <1>8, <1>17, <1>18, <1>19 DEF OnTop, L
<1> QED BY <1>8, <1>15, <1>16, <1>20 DEF e, L

\* The handler makes the entry right, or fails and leaves the ones below it.
LEMMA PostSound ==
  ASSUME NEW a, NEW L, L = Len(a.history), L \in Nat \ {0}, Sound(a, L),
         NEW name \in Routes, NEW file \in MaybeFile, NEW ok \in BOOLEAN,
         a.history[L] = [name |-> name, file |-> file],
         name = "ngnt/open" => ~Opened(a),
         NEW r, r = PostHandler(a, name, file, ok)
  PROVE  r.s.history = a.history /\ Sound(r.s, L) /\ (r.ok => Sound(r.s, L + 1))
<1>1. a \in Server /\ a.history[L].name = name /\ a.history[L].file = file /\ L \in 1..L
  BY DEF Sound
<1>2. \A p \in 1..L : p < L => a.history[p].name # name
  BY <1>1 DEF Sound
<1>3. \A p \in 1..L : (p < L + 1 => p < L \/ p = L) /\ (p < L => p < L + 1) /\ p < L + 1
  OBVIOUS
<1>4. CASE name \notin {"ngnt/open", "ngnt/reshape"}
  <2>1. r.s \in Server /\ r.s.tree = a.tree /\ r.s.nav = a.nav /\ r.s.history = a.history
    BY <1>1, <1>4, PostFacts
  <2>2. Sound(a, L + 1)
    BY <1>1, <1>3, <1>4 DEF Sound
  <2> QED BY <2>1, <2>2, SoundIfSame
<1>5. CASE name = "ngnt/open"
  <2>1. r = Open_Post(a, file, ok)
    BY <1>5 DEF PostHandler
  <2>2. ~Opened(a) /\ a.tree = NoFile
    BY <1>5 DEF Opened
  <2>3. CASE file = NoFile
    <3>1. r.s = a /\ r.ok = FALSE
      BY <2>1, <2>3 DEF Open_Post, Answer
    <3> QED BY <3>1
  <2>4. CASE file # NoFile
    <3> DEFINE t == CloseTree(a)
    <3>1. t \in Server /\ ~Opened(t) /\ t.tree = NoFile /\ t.history = a.history
      BY <1>1, CloseTreeFacts
    <3>2. \A p \in 1..L : p < L => a.history[p].name \notin {"ngnt/open", "ngnt/reshape"}
      <4>1. \A p \in 1..L : p < L => a.history[p].name # "ngnt/open"
        BY <2>2 DEF Sound
      <4>2. \A p \in 1..L : p < L /\ a.history[p].name = "ngnt/reshape" =>
              \E q \in 1..L : q < p /\ a.history[q].name = "ngnt/open"
        BY DEF Sound
      <4> QED BY <4>1, <4>2
    <3>3. CASE ~ok
      <4>1. r.s = t /\ r.ok = FALSE
        BY <2>1, <2>2, <2>4, <3>3 DEF Open_Post, Answer
      <4> HIDE DEF t
      <4>2. Sound(t, L)
        BY <3>1, <3>2 DEF Sound
      <4> QED BY <3>1, <4>1, <4>2
    <3>4. CASE ok
      <4> DEFINE u == [t EXCEPT !.tree = file, !.workspace["open"] = file]
                 v == Schema(u, "reshape", file)
      <4>1. r.s = v /\ r.ok = TRUE
        BY <2>1, <2>2, <2>4, <3>4 DEF Open_Post, Answer
      <4> HIDE DEF t
      <4>2. u \in Server /\ u.tree = file /\ u.history = a.history
        BY <3>1 DEF Server, Keys
      <4> HIDE DEF u
      <4>3. "reshape" \in Keys
        BY DEF Keys
      <4>4. v \in Server /\ v.tree = file /\ v.history = a.history
        BY <4>2, <4>3, SchemaFacts
      <4> HIDE DEF v
      <4>5. \A p, q \in 1..L : a.history[p].name = a.history[q].name => p = q
        BY DEF Sound
      <4>6. Sound(v, L) /\ Sound(v, L + 1)
        BY <1>1, <1>3, <1>5, <2>4, <3>2, <4>4, <4>5 DEF Sound, Opened
      <4> QED BY <4>1, <4>4, <4>6
    <3> QED BY <3>3, <3>4
  <2> QED BY <2>3, <2>4
<1>6. CASE name = "ngnt/reshape"
  <2>1. r = Reshape_Post(a, ok)
    BY <1>6 DEF PostHandler
  <2>2. CASE ~Opened(a)
    <3>1. r.s = a /\ r.ok = FALSE
      BY <2>1, <2>2 DEF Reshape_Post, Answer
    <3> QED BY <3>1
  <2>3. CASE Opened(a)
    <3> DEFINE t == [a EXCEPT !.nav = NoNav]
    <3>1. t \in Server /\ t.tree = a.tree /\ t.history = a.history
      BY <1>1, Constants DEF Server
    <3>2. \A p, q \in 1..L : a.history[p].name = a.history[q].name => p = q
      BY DEF Sound
    <3>3. CASE ~ok
      <4>1. r.s = t /\ r.ok = FALSE
        BY <2>1, <2>3, <3>3 DEF Reshape_Post, Answer
      <4> HIDE DEF t
      <4>2. Sound(t, L)
        BY <1>2, <1>6, <3>1 DEF Sound, Opened
      <4> QED BY <3>1, <4>1, <4>2
    <3>4. CASE ok
      <4> DEFINE nav == [file |-> a.tree, stale |-> FALSE]
                 u == [t EXCEPT !.nav = nav]
                 v == Schema(u, "reshape", a.tree)
                 w == Schema(v, "map", Plain)
      <4>1. r.s = w /\ r.ok = TRUE
        BY <2>1, <2>3, <3>4 DEF Reshape_Post, Answer
      <4> HIDE DEF t
      <4>2. a.tree \in MaybeFile /\ Plain \in MaybeFile /\ "reshape" \in Keys /\ "map" \in Keys
        BY <1>1, <2>3, Constants DEF Server, Keys
      <4>3. nav \in [file : MaybeFile, stale : BOOLEAN]
        BY <4>2
      <4> HIDE DEF nav
      <4>4. u \in Server /\ u.tree = a.tree /\ u.nav = nav /\ u.history = a.history
        BY <3>1, <4>3 DEF Server
      <4> HIDE DEF u
      <4>5. v \in Server /\ v.tree = u.tree /\ v.nav = u.nav /\ v.history = u.history
        <5>1. u \in Server
          BY <4>4
        <5>2. a.tree \in MaybeFile
          BY <4>2
        <5>3. "reshape" \in Keys
          BY <4>2
        <5> QED BY <5>1, <5>2, <5>3, SchemaFacts
      <4> HIDE DEF v
      <4>6. w \in Server /\ w.tree = a.tree /\ w.nav = nav /\ w.history = a.history
        <5>1. w \in Server /\ w.tree = v.tree /\ w.nav = v.nav /\ w.history = v.history
          BY <4>2, <4>5, SchemaFacts
        <5> QED BY <4>4, <4>5, <5>1
      <4> HIDE DEF w
      <4>7. PICK q \in 1..L : a.history[q].name = "ngnt/open" /\ a.history[q].file = a.tree
        BY <2>3 DEF Sound
      <4>8. q < L
        BY <1>1, <1>6, <4>7
      <4>9. Opened(w)
        BY <2>3, <4>6 DEF Opened
      <4>10. \A p \in 1..L : a.history[p].name = "ngnt/open" => p = q
        BY <3>2, <4>7
      <4>11. \A p \in 1..L : a.history[p].name = "ngnt/reshape" => p = L
        BY <1>1, <1>6, <3>2
      <4>12. Sound(w, L) /\ Sound(w, L + 1)
        BY <1>3, <3>2, <4>6, <4>7, <4>8, <4>9, <4>10, <4>11 DEF Sound, nav
      <4> QED BY <4>1, <4>6, <4>12
    <3> QED BY <3>3, <3>4
  <2> QED BY <2>2, <2>3
<1> QED BY <1>4, <1>5, <1>6

-----------------------------------------------------------------------------
(* The requests *)

\* What one request may do to the history.
Stacked(h, k) ==
  \E n \in 0..Len(h) :
    k = SubSeq(h, 1, n) \/ \E e \in HistoryEntry : k = Append(SubSeq(h, 1, n), e)

\* A request without effect on the history.
LEMMA StackedSame ==
  ASSUME NEW h \in Seq(HistoryEntry)
  PROVE  Stacked(h, h)
<1>1. SubSeq(h, 1, Len(h)) = h /\ Len(h) \in 0..Len(h)
  BY PrefixOfPrefix
<1> QED BY <1>1 DEF Stacked

LEMMA SrvFacts ==
  ASSUME Inv
  PROVE  /\ srv \in Server /\ srv.history \in Seq(HistoryEntry) /\ Len(srv.history) \in Nat
         /\ fUseHistory => Sound(srv, Len(srv.history) + 1)
         /\ ~fUseHistory => srv.history = << >>
BY DEF Inv, Server

LEMMA PostTypes ==
  ASSUME NEW s \in Server, NEW name \in Routes, NEW file \in MaybeFile, NEW ok \in BOOLEAN,
         NEW r, r = PostHandler(s, name, file, ok)
  PROVE  r.s \in Server /\ r.s.history = s.history
<1>1. CASE name \notin {"ngnt/open", "ngnt/reshape"}
  BY <1>1, PostFacts
<1>2. CASE name = "ngnt/open"
  <2>1. r = Open_Post(s, file, ok)
    BY <1>2 DEF PostHandler
  <2> DEFINE t == CloseTree(s)
             u == [t EXCEPT !.tree = file, !.workspace["open"] = file]
             v == Schema(u, "reshape", file)
  <2>2. r.s \in {s, t, v}
    BY <2>1 DEF Open_Post, Answer
  <2>3. t \in Server /\ t.history = s.history
    BY CloseTreeFacts
  <2> HIDE DEF t
  <2>4. u \in Server /\ u.history = s.history
    BY <2>3 DEF Server, Keys
  <2> HIDE DEF u
  <2>5. "reshape" \in Keys
    BY DEF Keys
  <2>6. v \in Server /\ v.history = s.history
    BY <2>4, <2>5, SchemaFacts
  <2> HIDE DEF v
  <2> QED BY <2>2, <2>3, <2>6
<1>3. CASE name = "ngnt/reshape"
  <2>1. r = Reshape_Post(s, ok)
    BY <1>3 DEF PostHandler
  <2>2. CASE ~Opened(s)
    BY <2>1, <2>2 DEF Reshape_Post, Answer
  <2>3. CASE Opened(s)
    <3> DEFINE t == [s EXCEPT !.nav = NoNav]
               nav == [file |-> s.tree, stale |-> FALSE]
               u == [t EXCEPT !.nav = nav]
               v == Schema(u, "reshape", s.tree)
               w == Schema(v, "map", Plain)
    <3>1. r.s \in {t, w}
      BY <2>1, <2>3 DEF Reshape_Post, Answer
    <3>2. t \in Server /\ t.history = s.history
      BY Constants DEF Server
    <3> HIDE DEF t
    <3>3. s.tree \in MaybeFile
      BY DEF Server
    <3>4. nav \in [file : MaybeFile, stale : BOOLEAN]
      BY <3>3
    <3> HIDE DEF nav
    <3>5. u \in Server /\ u.history = s.history
      BY <3>2, <3>4 DEF Server
    <3> HIDE DEF u
    <3>6. "reshape" \in Keys
      BY DEF Keys
    <3>7. "map" \in Keys
      BY DEF Keys
    <3>8. v \in Server /\ v.history = u.history
      BY <3>3, <3>5, <3>6, SchemaFacts
    <3> HIDE DEF v
    <3>9. Plain \in MaybeFile
      BY <2>3, Constants
    <3>10. w \in Server /\ w.history = v.history
      BY <3>7, <3>8, <3>9, SchemaFacts
    <3> HIDE DEF w
    <3> QED BY <3>1, <3>2, <3>5, <3>8, <3>10
  <2> QED BY <2>2, <2>3
<1> QED BY <1>1, <1>2, <1>3

LEMMA PostInv ==
  ASSUME Inv, NEW name \in Routes, NEW file \in MaybeFile, NEW ok \in BOOLEAN, Post(name, file, ok)
  PROVE  Inv' /\ Stacked(srv.history, srv'.history)
<1>0. UNCHANGED fUseHistory
  BY DEF Post
<1>1. CASE ~fUseHistory
  <2>1. srv' = PostHandler(srv, name, file, ok).s
    BY <1>1 DEF Post
  <2>2. srv' \in Server /\ srv'.history = srv.history
    BY <2>1, SrvFacts, PostTypes
  <2> QED BY <1>0, <1>1, <2>2, SrvFacts, StackedSame DEF Inv
<1>2. CASE fUseHistory
  <2> DEFINE a == AddEntry(srv, name, file)
             r == PostHandler(a, name, file, ok)
             L == Len(a.history)
             e == [name |-> name, file |-> file]
  <2>1. srv' = IF ~r.ok THEN RemoveLast(r.s) ELSE r.s
    BY <1>2 DEF Post
  <2>2. Sound(srv, Len(srv.history) + 1)
    BY <1>2, SrvFacts
  <2>3. /\ Sound(a, L) /\ L \in Nat \ {0} /\ OnTop(a.history, srv.history, e)
        /\ name = "ngnt/open" => ~Opened(a)
    BY <2>2, AddEntrySound
  <2> HIDE DEF a
  <2>4. r.s.history = a.history /\ Sound(r.s, L) /\ (r.ok => Sound(r.s, L + 1))
    <3>1. a.history[L] = e
      BY <2>3 DEF OnTop
    <3> QED BY <2>3, <3>1, PostSound
  <2> HIDE DEF r
  <2>5. PICK n \in 0..Len(srv.history) :
              /\ a.history = Append(SubSeq(srv.history, 1, n), e)
              /\ L = n + 1 /\ SubSeq(a.history, 1, n) = SubSeq(srv.history, 1, n)
    BY <2>3 DEF OnTop
  <2>6. e \in HistoryEntry
    BY DEF HistoryEntry
  <2>7. CASE r.ok
    <3>1. srv' = r.s
      BY <2>1, <2>7
    <3>2. Sound(srv', Len(srv'.history) + 1) /\ srv' \in Server
      BY <2>4, <2>7, <3>1 DEF Sound
    <3>3. Stacked(srv.history, srv'.history)
      BY <2>4, <2>5, <2>6, <3>1 DEF Stacked
    <3> QED BY <1>0, <1>2, <3>2, <3>3 DEF Inv
  <2>8. CASE ~r.ok
    <3>1. srv' = RemoveLast(r.s)
      BY <2>1, <2>8
    <3>2. L <= Len(r.s.history) /\ L \in Nat \ {0} /\ Len(r.s.history) - 1 = n
      BY <2>3, <2>4, <2>5
    <3>3. Sound(srv', L) /\ srv'.history = SubSeq(r.s.history, 1, n)
      BY <2>4, <3>1, <3>2, RemoveLastSound
    <3>4. srv'.history = SubSeq(srv.history, 1, n)
      BY <2>4, <2>5, <3>3
    <3>5. Len(srv'.history) + 1 = L
      BY <2>5, <3>4, SrvFacts, Prefix
    <3>6. Stacked(srv.history, srv'.history)
      BY <3>4 DEF Stacked
    <3>7. srv' \in Server
      BY <3>3 DEF Sound
    <3> QED BY <1>0, <1>2, <3>3, <3>5, <3>6, <3>7 DEF Inv
  <2> QED BY <2>7, <2>8
<1> QED BY <1>1, <1>2

LEMMA DeleteInv ==
  ASSUME Inv, NEW name \in Routes, Delete(name)
  PROVE  Inv' /\ Stacked(srv.history, srv'.history)
<1> DEFINE r == DeleteHandler(srv, name)
           h == srv.history
<1>0. UNCHANGED fUseHistory
  BY DEF Delete
<1>1. srv' = IF fUseHistory /\ r.ok THEN RemoveEntry(r.s, name) ELSE r.s
  BY DEF Delete
<1>2. r.s \in Server /\ r.s.history = h /\ (~r.ok => r.s = srv)
  BY SrvFacts, DeleteFacts
<1>3. CASE ~fUseHistory
  <2>1. srv' \in Server /\ srv'.history = h
    BY <1>1, <1>2, <1>3
  <2> QED BY <1>0, <1>3, <2>1, SrvFacts, StackedSame DEF Inv
<1>4. CASE fUseHistory /\ ~r.ok
  <2>1. srv' = srv
    BY <1>1, <1>2, <1>4
  <2>2. Inv'
    BY <1>0, <2>1 DEF Inv
  <2> QED BY <2>1, <2>2, SrvFacts, StackedSame
<1>5. CASE fUseHistory /\ r.ok
  <2>1. srv' = RemoveEntry(r.s, name)
    BY <1>1, <1>5
  <2>2. ASSUME NEW i \in 0..(Len(h) + 1), \A p \in 1..Len(h) : p < i => h[p].name # name
        PROVE  Sound(r.s, i)
    <3>1. i \in Nat /\ Len(h) + 1 \in Nat /\ i <= Len(h) + 1 /\ Sound(srv, Len(h) + 1)
      BY <1>5, SrvFacts
    <3>2. Sound(srv, i)
      BY <3>1, SoundBelow
    <3> QED BY <2>2, <3>1, <3>2, DeleteSound
  <2>3. Sound(r.s, 0)
    <3>1. 0 \in 0..(Len(h) + 1) /\ \A p \in 1..Len(h) : ~(p < 0)
      BY SrvFacts
    <3> HIDE DEF r
    <3> QED BY <2>2, <3>1
  <2>4. ASSUME NEW i \in 1..Len(h), h[i].name = name PROVE Sound(r.s, i)
    <3>1. i \in 0..(Len(h) + 1)
      BY SrvFacts
    <3>2. \A p, q \in 1..Len(h) : h[p].name = h[q].name => p = q
      BY <1>5, SrvFacts DEF Sound
    <3>3. \A p \in 1..Len(h) : p < i => h[p].name # name
      BY <2>4, <3>2
    <3> HIDE DEF r
    <3> QED BY <2>2, <3>1, <3>3
  <2>5. Positions(r.s, name) = {} => Sound(r.s, Len(h) + 1)
    <3> HAVE Positions(r.s, name) = {}
    <3>1. \A p \in 1..Len(h) : h[p].name # name
      BY <1>2, SrvFacts DEF Positions
    <3>2. Len(h) + 1 \in 0..(Len(h) + 1)
      BY SrvFacts
    <3> HIDE DEF r
    <3> QED BY <2>2, <3>1, <3>2
  <2> HIDE DEF r
  <2>6. /\ Sound(srv', Len(srv'.history) + 1)
        /\ \E n \in 0..Len(h) : srv'.history = SubSeq(h, 1, n)
    BY <1>2, <2>1, <2>3, <2>4, <2>5, RemoveEntrySound
  <2>7. srv' \in Server
    BY <2>6 DEF Sound
  <2> QED BY <1>0, <1>5, <2>6, <2>7 DEF Inv, Stacked
<1> QED BY <1>3, <1>4, <1>5

LEMMA PatchInv ==
  ASSUME Inv, NEW name \in Routes, NEW level \in 0..nLevels, NEW bin \in {0, 1}, NEW ok \in BOOLEAN,
         Patch(name, level, bin, ok)
  PROVE  Inv' /\ Stacked(srv.history, srv'.history)
<1>0. UNCHANGED fUseHistory /\ srv' = PatchHandler(srv, name, level, bin, ok).s
  BY DEF Patch
<1>1. srv' \in Server /\ srv'.tree = srv.tree /\ srv'.nav = srv.nav /\ srv'.history = srv.history
  BY <1>0, SrvFacts, PatchFacts
<1>2. ASSUME fUseHistory PROVE Sound(srv', Len(srv'.history) + 1)
  BY <1>1, <1>2, SrvFacts, SoundIfSame
<1> QED BY <1>0, <1>1, <1>2, SrvFacts, StackedSame DEF Inv

LEMMA DeleteStateInv ==
  ASSUME Inv, DeleteState
  PROVE  Inv' /\ Stacked(srv.history, srv'.history)
<1> DEFINE t == RemoveFrom(srv, 1)
<1>0. UNCHANGED fUseHistory
  BY DEF DeleteState
<1>1. t \in Server /\ t.history = << >>
  <2>1. CASE fUseHistory
    <3>1. Sound(srv, 1) /\ 1 \in Nat \ {0} /\ 1 <= Len(srv.history) + 1
      <4>1. 1 \in Nat /\ Len(srv.history) + 1 \in Nat /\ 1 <= Len(srv.history) + 1
        BY SrvFacts
      <4> QED BY <2>1, <4>1, SrvFacts, SoundBelow
    <3>2. Sound(t, 1) /\ t.history = SubSeq(srv.history, 1, 1 - 1)
      BY <3>1, RemoveFromSound
    <3> HIDE DEF t
    <3>3. Len(t.history) = 0 /\ t \in Server
      <4>1. 1 - 1 = 0 /\ 0 \in 0..Len(srv.history)
        BY SrvFacts
      <4> QED BY <3>2, <4>1, SrvFacts, Prefix DEF Sound
    <3> QED BY <3>3 DEF Server
  <2>2. CASE ~fUseHistory
    <3>1. srv.history = << >> /\ Len(srv.history) = 0
      BY <2>2, SrvFacts
    <3>2. Loop(srv, 0)[0] = srv
      BY Unwind
    <3>3. t = Loop(srv, 0)[0]
      BY <3>1 DEF RemoveFrom, Loop
    <3> QED BY <3>1, <3>2, <3>3, SrvFacts
  <2> QED BY <2>1, <2>2
<1>2. srv' = [[t EXCEPT !.workspace = [k \in Keys |-> NoFile], !.point = 0]
                EXCEPT !.tree = NoFile, !.nav = NoNav]
  BY DEF DeleteState, Clear
<1> HIDE DEF t
<1>3. [k \in Keys |-> NoFile] \in [Keys -> MaybeFile] /\ NoFile \in MaybeFile
  BY DEF MaybeFile
<1>4. srv' \in Server /\ srv'.history = << >> /\ srv'.tree = NoFile
  BY <1>1, <1>2, <1>3, Constants DEF Server
<1>5. Sound(srv', Len(srv'.history) + 1)
  BY <1>4 DEF Sound, Opened
<1>6. Stacked(srv.history, srv'.history)
  <2>1. 0 \in 0..Len(srv.history)
    BY SrvFacts
  <2>2. SubSeq(srv.history, 1, 0) = << >>
    <3>1. SubSeq(srv.history, 1, 0) \in Seq(HistoryEntry) /\ Len(SubSeq(srv.history, 1, 0)) = 0
      BY <2>1, SrvFacts, Prefix
    <3> QED BY <3>1
  <2> QED BY <1>4, <2>1, <2>2 DEF Stacked
<1> QED BY <1>0, <1>4, <1>5, <1>6 DEF Inv

LEMMA InitInv == Init => Inv
<1> SUFFICES ASSUME Init PROVE Inv
  OBVIOUS
<1>1. [k \in Keys |-> NoFile] \in [Keys -> MaybeFile] /\ NoFile \in MaybeFile
  BY DEF MaybeFile
<1>2. srv \in Server /\ srv.history = << >> /\ srv.tree = NoFile
  BY <1>1, Constants DEF Init, Server
<1> QED BY <1>2 DEF Inv, Sound, Opened

LEMMA NextInv == Inv /\ [Next]_vars => Inv' /\ (srv' = srv \/ Stacked(srv.history, srv'.history))
<1> SUFFICES ASSUME Inv, [Next]_vars
             PROVE  Inv' /\ (srv' = srv \/ Stacked(srv.history, srv'.history))
  OBVIOUS
<1>0. "ngnt/open" \in Routes /\ NoFile \in MaybeFile
  BY DEF Routes, MaybeFile
<1>1. ASSUME NEW ok \in BOOLEAN, NEW f \in File \cup {NoFile}, Post("ngnt/open", f, ok)
      PROVE  Inv' /\ Stacked(srv.history, srv'.history)
  BY <1>0, <1>1, PostInv DEF MaybeFile
<1>2. ASSUME NEW n \in Routes \ {"ngnt/open"}, NEW ok \in BOOLEAN, Post(n, NoFile, ok)
      PROVE  Inv' /\ Stacked(srv.history, srv'.history)
  BY <1>0, <1>2, PostInv
<1>3. CASE UNCHANGED <<srv, fUseHistory>>
  BY <1>3 DEF Inv
<1> QED
  BY <1>1, <1>2, <1>3, DeleteInv, PatchInv, DeleteStateInv DEF Next, Fatal, vars

-----------------------------------------------------------------------------
(* The theorems *)

LEMMA InvAlways == Spec => []Inv
BY InitInv, NextInv, PTL DEF Spec

\* Whatever requests come, in whatever order, repeated, refused or taken
\* back: with a history, a tree is open exactly if its POST is in it, no route
\* is in it twice, and the navigator behind a reshape entry is one of that
\* very tree.
THEOREM HistoryMatchesObjectsAlways == Spec => []HistoryMatchesObjects
<1>1. Inv => HistoryMatchesObjects
  <2> SUFFICES ASSUME Inv, fUseHistory
               PROVE  /\ \A n \in Routes : Cardinality(Positions(srv, n)) <= 1
                      /\ Opened(srv) <=> Entry("ngnt/open") # {}
                      /\ \A e \in Entry("ngnt/open") : e.file = srv.tree
                      /\ Entry("ngnt/reshape") # {} => srv.nav = [file |-> srv.tree, stale |-> FALSE]
    BY DEF HistoryMatchesObjects
  <2> DEFINE h == srv.history
  <2>1. Sound(srv, Len(h) + 1) /\ h \in Seq(HistoryEntry) /\ DOMAIN h = 1..Len(h) /\ Len(h) \in Nat
    BY SrvFacts
  <2>2. \A p \in 1..Len(h) : p < Len(h) + 1
    BY <2>1
  <2>3. ASSUME NEW n \in Routes PROVE Cardinality(Positions(srv, n)) <= 1
    <3>1. \A p, q \in Positions(srv, n) : p = q
      BY <2>1 DEF Sound, Positions
    <3>2. CASE Positions(srv, n) = {}
      BY <3>2, FS_EmptySet
    <3>3. CASE Positions(srv, n) # {}
      <4>1. PICK p \in Positions(srv, n) : TRUE
        BY <3>3
      <4>2. Positions(srv, n) = {p}
        BY <3>1, <4>1
      <4>3. Cardinality({p}) = 1
        BY ONLY FS_Singleton
      <4> QED BY ONLY <4>2, <4>3
    <3> QED BY <3>2, <3>3
  <2>4. \A p \in 1..Len(h) : h[p].name = "ngnt/open" => Opened(srv) /\ h[p].file = srv.tree
    BY <2>1, <2>2 DEF Sound
  <2>5. Opened(srv) => \E p \in 1..Len(h) : h[p].name = "ngnt/open"
    BY <2>1 DEF Sound
  <2>6. \A p \in 1..Len(h) : h[p].name = "ngnt/reshape" => srv.nav = [file |-> srv.tree, stale |-> FALSE]
    BY <2>1, <2>2 DEF Sound
  <2>7. Opened(srv) <=> Entry("ngnt/open") # {}
    BY <2>1, <2>4, <2>5 DEF Entry, Positions
  <2>8. \A e \in Entry("ngnt/open") : e.file = srv.tree
    BY <2>1, <2>4 DEF Entry, Positions
  <2>9. Entry("ngnt/reshape") # {} => srv.nav = [file |-> srv.tree, stale |-> FALSE]
    BY <2>1, <2>6 DEF Entry, Positions
  <2> QED BY <2>3, <2>7, <2>8, <2>9
<1> QED BY <1>1, InvAlways, PTL

\* Every request leaves a prefix of the history, with at most one entry put
\* on top of it: nothing is taken from under a newer entry.
THEOREM HistoryIsAStackAlways == Spec => HistoryIsAStack
<1>1. Inv /\ [Next]_vars =>
        [\E n \in 0..Len(srv.history) :
           \/ srv'.history = SubSeq(srv.history, 1, n)
           \/ \E e \in [name : Routes, file : File \cup {NoFile}] :
                srv'.history = Append(SubSeq(srv.history, 1, n), e)]_srv
  BY NextInv DEF Stacked, HistoryEntry, MaybeFile
<1> QED BY <1>1, InvAlways, PTL DEF Spec, HistoryIsAStack
=============================================================================
