---------------------------- MODULE CommonLemmas -----------------------------
(***************************************************************************)
(* Facts the proofs about several components share: induction over the     *)
(* naturals, in the form that needs no operator as a parameter, and what   *)
(* sending to and receiving from a queue does to its contents.             *)
(***************************************************************************)
EXTENDS Naturals, Sequences, WellFoundedInduction, TLAPS

-----------------------------------------------------------------------------
(* Induction *)

\* Every non-empty set of naturals has a least element.
LEMMA LeastNat ==
  ASSUME NEW T \in SUBSET Nat, T # {}
  PROVE  \E m \in T : \A k \in T : m <= k
<1>1. PICK m \in T : \A k \in T : ~(<<k, m>> \in OpToRel(<, Nat))
  BY NatLessThanWellFounded, WFMin
<1>2. ASSUME NEW k \in T PROVE m <= k
  <2>1. ~(k < m)
    BY <1>1, <1>2 DEF OpToRel
  <2> QED
    BY <2>1
<1> QED
  BY <1>2


\* A set that holds 0 and is closed under steps below n holds all of 0..n.
LEMMA Induction ==
  ASSUME NEW n \in Nat, NEW T, 0 \in T,
         \A i \in 0..n : i < n /\ i \in T => i + 1 \in T
  PROVE  \A i \in 0..n : i \in T
<1> DEFINE Bad == {i \in 0..n : i \notin T}
<1> SUFFICES ASSUME Bad # {} PROVE FALSE
  OBVIOUS
<1>1. Bad \in SUBSET Nat
  OBVIOUS
<1> HIDE DEF Bad
<1>2. PICK m \in Bad : \A k \in Bad : m <= k
  BY <1>1, LeastNat
<1>3. m \in 0..n /\ m \notin T /\ m # 0
  BY DEF Bad
<1>4. m - 1 \in 0..n /\ m - 1 < n /\ m - 1 + 1 = m
  BY <1>3
<1>5. m - 1 \in T
  BY <1>2, <1>4 DEF Bad
<1> QED BY <1>3, <1>4, <1>5

\* Every non-empty finite range of naturals has a greatest element.
LEMMA GreatestNat ==
  ASSUME NEW n \in Nat, NEW T \in SUBSET (0..n), T # {}
  PROVE  \E m \in T : \A k \in T : k <= m
<1> DEFINE U == {n - k : k \in T}
<1>1. U \in SUBSET Nat /\ U # {}
  <2>1. \A k \in T : n - k \in Nat
    OBVIOUS
  <2>2. PICK k \in T : TRUE
    OBVIOUS
  <2> QED BY <2>1, <2>2
<1> HIDE DEF U
<1>2. PICK u \in U : \A v \in U : u <= v
  BY <1>1, LeastNat
<1>3. PICK m \in T : u = n - m
  BY DEF U
<1>4. \A k \in T : n - m <= n - k
  BY <1>2, <1>3 DEF U
<1> QED BY <1>4

\* Two functions that begin alike and step alike are alike up to L.
LEMMA SameUpTo ==
  ASSUME NEW L \in Nat, NEW f, NEW g, f[0] = g[0],
         \A i \in 0..L : i < L /\ f[i] = g[i] => f[i + 1] = g[i + 1]
  PROVE  \A i \in 0..L : f[i] = g[i]
<1> DEFINE T == {i \in 0..L : f[i] = g[i]}
<1>1. 0 \in T
  OBVIOUS
<1>2. \A i \in 0..L : i < L /\ i \in T => i + 1 \in T
  OBVIOUS
<1> HIDE DEF T
<1>3. \A i \in 0..L : i \in T
  BY <1>1, <1>2, Induction
<1> QED BY <1>3 DEF T

\* Two functions with the same values are the same.
LEMMA SameFunction ==
  ASSUME NEW D, NEW A, NEW f \in [D -> A], NEW g \in [D -> A], \A x \in D : f[x] = g[x]
  PROVE  f = g
OBVIOUS

-----------------------------------------------------------------------------
(* Queues *)

\* m is in the queue s.
Has(s, m) == \E k \in 1..Len(s) : s[k] = m

\* Nothing is in s twice.
Once(s) == \A k, l \in 1..Len(s) : s[k] = s[l] => k = l

LEMMA QueueEmpty == ~(\E m : Has(<< >>, m)) /\ Once(<< >>)
BY DEF Has, Once

\* Sending.
LEMMA QueueAppend ==
  ASSUME NEW M, NEW s \in Seq(M), NEW m \in M
  PROVE  /\ Append(s, m) \in Seq(M) /\ Append(s, m) # << >>
         /\ \A x : Has(Append(s, m), x) <=> x = m \/ Has(s, x)
         /\ Once(s) /\ ~Has(s, m) => Once(Append(s, m))
<1>1. /\ Append(s, m) \in Seq(M) /\ Len(Append(s, m)) = Len(s) + 1 /\ Len(s) \in Nat
      /\ \A k \in 1..Len(s) : Append(s, m)[k] = s[k]
      /\ Append(s, m)[Len(s) + 1] = m
  OBVIOUS
<1>2. Append(s, m) # << >>
  BY <1>1
<1>3. ASSUME NEW x PROVE Has(Append(s, m), x) <=> x = m \/ Has(s, x)
  <2>1. Has(s, x) => Has(Append(s, m), x)
    BY <1>1 DEF Has
  <2>2. Has(Append(s, m), m)
    BY <1>1 DEF Has
  <2>3. Has(Append(s, m), x) => x = m \/ Has(s, x)
    <3> HAVE Has(Append(s, m), x)
    <3>1. PICK k \in 1..Len(Append(s, m)) : Append(s, m)[k] = x
      BY DEF Has
    <3>2. CASE k \in 1..Len(s)
      BY <3>1, <3>2, <1>1 DEF Has
    <3>3. CASE k = Len(s) + 1
      BY <3>1, <3>3, <1>1
    <3> QED
      BY <3>1, <3>2, <3>3, <1>1
  <2> QED
    BY <2>1, <2>2, <2>3
<1>4. Once(s) /\ ~Has(s, m) => Once(Append(s, m))
  BY <1>1 DEF Once, Has
<1> QED
  BY <1>1, <1>2, <1>3, <1>4

\* Receiving.
LEMMA QueueTail ==
  ASSUME NEW M, NEW s \in Seq(M), s # << >>
  PROVE  /\ Head(s) \in M /\ Tail(s) \in Seq(M)
         /\ Has(s, Head(s))
         /\ \A x : Has(s, x) <=> x = Head(s) \/ Has(Tail(s), x)
         /\ Once(s) => Once(Tail(s)) /\ ~Has(Tail(s), Head(s))
<1>1. /\ Tail(s) \in Seq(M) /\ Len(Tail(s)) = Len(s) - 1 /\ Len(s) \in Nat \ {0}
      /\ \A k \in 1..(Len(s) - 1) : Tail(s)[k] = s[k + 1]
      /\ Head(s) = s[1] /\ Head(s) \in M
  OBVIOUS
<1>2. Has(s, Head(s))
  BY <1>1 DEF Has
<1>3. ASSUME NEW x PROVE Has(s, x) <=> x = Head(s) \/ Has(Tail(s), x)
  <2>1. Has(Tail(s), x) => Has(s, x)
    BY <1>1 DEF Has
  <2>2. Has(s, x) => x = Head(s) \/ Has(Tail(s), x)
    <3> HAVE Has(s, x)
    <3>1. PICK k \in 1..Len(s) : s[k] = x
      BY DEF Has
    <3>2. CASE k = 1
      BY <3>1, <3>2, <1>1
    <3>3. CASE k - 1 \in 1..Len(Tail(s))
      BY <3>1, <3>3, <1>1 DEF Has
    <3> QED
      BY <3>1, <3>2, <3>3, <1>1
  <2> QED
    BY <1>2, <2>1, <2>2
<1>4. Once(s) => Once(Tail(s)) /\ ~Has(Tail(s), Head(s))
  BY <1>1 DEF Once, Has
<1> QED
  BY <1>1, <1>2, <1>3, <1>4

-----------------------------------------------------------------------------
(* Prefixes *)

\* What is left of a sequence when its end is taken off.
LEMMA Prefix ==
  ASSUME NEW M, NEW s \in Seq(M), NEW n \in 0..Len(s)
  PROVE  /\ SubSeq(s, 1, n) \in Seq(M) /\ Len(SubSeq(s, 1, n)) = n
         /\ \A k \in 1..n : SubSeq(s, 1, n)[k] = s[k] /\ k \in 1..Len(s)
<1>1. \A k \in 1..n : k \in 1..Len(s) /\ s[k] \in M
  OBVIOUS
<1>2. SubSeq(s, 1, n) = [k \in 1..n |-> s[k]]
  OBVIOUS
<1> QED BY <1>1, <1>2

\* Two sequences with the same elements are the same.
LEMMA SameSeq ==
  ASSUME NEW M, NEW s \in Seq(M), NEW t \in Seq(M), Len(s) = Len(t),
         \A k \in 1..Len(s) : s[k] = t[k]
  PROVE  s = t
OBVIOUS

\* A prefix of a prefix is a prefix, and so is the whole.
LEMMA PrefixOfPrefix ==
  ASSUME NEW M, NEW s \in Seq(M), NEW n \in 0..Len(s), NEW m \in 0..n
  PROVE  /\ SubSeq(SubSeq(s, 1, n), 1, m) = SubSeq(s, 1, m)
         /\ SubSeq(s, 1, Len(s)) = s
<1> DEFINE t == SubSeq(s, 1, n)
<1>1. t \in Seq(M) /\ Len(t) = n /\ \A k \in 1..n : t[k] = s[k]
  BY Prefix
<1>2. m \in 0..Len(s) /\ Len(s) \in 0..Len(s) /\ \A k \in 1..m : k \in 1..n
  OBVIOUS
<1> HIDE DEF t
<1>3. /\ SubSeq(t, 1, m) \in Seq(M) /\ Len(SubSeq(t, 1, m)) = m
      /\ \A k \in 1..m : SubSeq(t, 1, m)[k] = t[k]
  BY <1>1, Prefix
<1>4. /\ SubSeq(s, 1, m) \in Seq(M) /\ Len(SubSeq(s, 1, m)) = m
      /\ \A k \in 1..m : SubSeq(s, 1, m)[k] = s[k]
  BY <1>2, Prefix
<1>5. SubSeq(t, 1, m) = SubSeq(s, 1, m)
  BY <1>1, <1>2, <1>3, <1>4, SameSeq
<1>6. SubSeq(s, 1, Len(s)) = s
  BY <1>2, Prefix, SameSeq
<1> QED BY <1>5, <1>6 DEF t
=============================================================================
