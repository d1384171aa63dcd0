----------------------------- MODULE QueueProofs -----------------------------
(***************************************************************************)
(* What inserting an event into a queue in dispatch order does, for every  *)
(* queue and every event; and what stands in for induction over numbers.   *)
(***************************************************************************)
EXTENDS EventQueue, Integers, TLAPS, FiniteSetTheorems, SequenceTheorems, WellFoundedInduction

(* The events of a queue are in the order of their times. *)
Ordered(q) ==
  \A i, j \in 1 .. Len(q) : i < j => q[i].at <= q[j].at

(* A set of numbers has a least one: what is true of no least              *)
(* counterexample is true of every number.                                 *)
LEMMA LeastNat ==
  ASSUME NEW T \in SUBSET Nat, T # {}
  PROVE  \E m \in T : \A n \in T : m <= n
  <1>. DEFINE R == OpToRel(<, Nat)
  <1>1. IsWellFoundedOn(R, Nat)
    BY NatLessThanWellFounded
  <1>2. \A m, n \in Nat : n < m => <<n, m>> \in R
    BY DEF OpToRel
  <1>. HIDE DEF R
  <1>3. \E m \in T : \A n \in T : ~(<<n, m>> \in R)
    BY <1>1, WFMin
  <1>4. PICK m \in T : \A n \in T : ~(<<n, m>> \in R)
    BY <1>3, Zenon
  <1>5. \A n \in T : m \in Nat /\ n \in Nat /\ ~(n < m)
    BY <1>2, <1>4, Zenon
  <1>. QED
    BY <1>5

LEMMA IntervalSize ==
  ASSUME NEW n \in Nat
  PROVE  IsFiniteSet(1 .. n) /\ Cardinality(1 .. n) = n
  <1>1. 1 \in Int /\ n \in Int
    OBVIOUS
  <1>2. /\ IsFiniteSet(1 .. n)
        /\ Cardinality(1 .. n) = IF 1 > n THEN 0 ELSE n - 1 + 1
    BY <1>1, FS_Interval, Zenon
  <1>. QED
    BY <1>2

(* A sequence whose elements are all of a set is a sequence over that set. *)
LEMMA SeqOver ==
  ASSUME NEW S, NEW s \in Seq(S), NEW T, \A i \in 1 .. Len(s) : s[i] \in T
  PROVE  s \in Seq(T)
  <1>1. Len(s) \in Nat /\ s \in [1 .. Len(s) -> S]
    OBVIOUS
  <1>2. s \in [1 .. Len(s) -> T]
    BY <1>1, Zenon
  <1>3. s \in UNION {[1 .. n -> T] : n \in Nat}
    BY <1>1, <1>2, Zenon
  <1>. QED
    BY <1>3, SeqDef, Zenon

(* A queue position lies within the queue. *)
LEMMA PositionRange ==
  ASSUME NEW q, Len(q) \in Nat, NEW at
  PROVE  Position(q, at) \in 0 .. Len(q)
  <1>. DEFINE I == 1 .. Len(q)
              D == {i \in I : q[i].at <= at}
  <1>1. IsFiniteSet(I) /\ Cardinality(I) = Len(q)
    BY IntervalSize
  <1>2. D \subseteq I
    OBVIOUS
  <1>3. IsFiniteSet(D) /\ Cardinality(D) <= Cardinality(I)
    BY <1>1, <1>2, FS_Subset
  <1>4. Cardinality(D) \in Nat
    BY <1>3, FS_CardinalityType
  <1>5. Position(q, at) = Cardinality(D)
    BY DEF Position
  <1>. HIDE DEF D
  <1>. QED
    BY <1>1, <1>3, <1>4, <1>5

(* The position of an event in an ordered queue parts the events that fire *)
(* no later from those that fire later.                                    *)
LEMMA PositionParts ==
  ASSUME NEW q, Len(q) \in Nat, Ordered(q), \A i \in 1 .. Len(q) : q[i].at \in Int,
         NEW at \in Int
  PROVE  \A i \in 1 .. Len(q) : q[i].at <= at <=> i <= Position(q, at)
  <1>. DEFINE D == {i \in 1 .. Len(q) : q[i].at <= at}
              T == {i \in Nat : i >= 1 /\ ~(i \in D)}
  <1>1. Len(q) + 1 \in T
    OBVIOUS
  <1>2. PICK m \in T : \A n \in T : m <= n
    BY <1>1, LeastNat
  <1>3. \A i \in 1 .. Len(q) : i < m => i \in D
    BY <1>2
  <1>4. m - 1 \in Nat /\ m - 1 <= Len(q)
    BY <1>1, <1>2
  <1>5. \A i \in 1 .. Len(q) : i >= m => ~(i \in D)
    <2>. SUFFICES ASSUME NEW i \in 1 .. Len(q), i >= m, q[i].at <= at PROVE FALSE
      OBVIOUS
    <2>1. m \in 1 .. Len(q) /\ ~(q[m].at <= at)
      BY <1>2
    <2>2. i = m \/ q[m].at <= q[i].at
      BY <1>4, <2>1 DEF Ordered
    <2>. QED
      BY <2>1, <2>2
  <1>6. D = 1 .. m - 1
    BY <1>3, <1>4, <1>5
  <1>7. Cardinality(D) = m - 1
    BY <1>4, <1>6, IntervalSize
  <1>8. Position(q, at) = m - 1
    BY <1>7 DEF Position
  <1>. HIDE DEF T
  <1>. QED
    BY <1>4, <1>6, <1>8

(* The elements of a queue into which an event was inserted. *)
LEMMA InsertElements ==
  ASSUME NEW E, NEW q \in Seq(E), NEW e \in E, NEW k, k = Position(q, e.at)
  PROVE  /\ k \in 0 .. Len(q) /\ Insert(q, e) \in Seq(E) /\ Len(Insert(q, e)) = Len(q) + 1
         /\ \A i \in 1 .. Len(q) + 1 :
              Insert(q, e)[i] = IF i <= k THEN q[i] ELSE IF i = k + 1 THEN e ELSE q[i - 1]
  <1>1. k \in 0 .. Len(q) /\ Len(q) \in Nat
    BY PositionRange
  <1>. DEFINE a == SubSeq(q, 1, k)
              b == SubSeq(q, k + 1, Len(q))
  <1>2. /\ a \in Seq(E) /\ Len(a) = k /\ \A i \in 1 .. k : a[i] = q[i]
        /\ b \in Seq(E) /\ Len(b) = Len(q) - k
        /\ \A i \in 1 .. Len(q) - k : b[i] = q[k + i]
    BY <1>1
  <1>3. Insert(q, e) = a \o <<e>> \o b
    BY DEF Insert
  <1>. HIDE DEF a, b
  <1>4. a \o <<e>> \in Seq(E) /\ Len(a \o <<e>>) = k + 1
    BY <1>1, <1>2
  <1>5. \A i \in 1 .. k + 1 : (a \o <<e>>)[i] = IF i <= k THEN q[i] ELSE e
    BY <1>1, <1>2
  <1>. DEFINE c == a \o <<e>>
  <1>. HIDE DEF c
  <1>6. c \in Seq(E) /\ Len(c) = k + 1
        /\ \A i \in 1 .. k + 1 : c[i] = IF i <= k THEN q[i] ELSE e
    BY <1>4, <1>5 DEF c
  <1>7. Insert(q, e) = c \o b
    BY <1>3 DEF c
  <1>8. c \o b \in Seq(E) /\ Len(c \o b) = Len(q) + 1
    BY <1>1, <1>2, <1>6
  <1>9. ASSUME NEW i \in 1 .. Len(q) + 1
        PROVE  (c \o b)[i] = IF i <= k THEN q[i] ELSE IF i = k + 1 THEN e ELSE q[i - 1]
    <2>1. CASE i <= k + 1
      <3>1. (c \o b)[i] = c[i]
        BY <1>1, <1>2, <1>6, <2>1
      <3>. QED
        BY <1>1, <1>6, <2>1, <3>1
    <2>2. CASE i > k + 1
      <3>1. (c \o b)[i] = b[i - (k + 1)]
        BY <1>1, <1>2, <1>6, <2>2
      <3>. QED
        BY SMTT(30), <1>1, <1>2, <2>2, <3>1
    <2>3. i <= k + 1 \/ i > k + 1
      BY <1>1
    <2>. QED
      BY <2>1, <2>2, <2>3, Zenon
  <1>. QED
    BY <1>1, <1>7, <1>8, <1>9

(* Inserting an event into a queue of events gives a queue of events. *)
LEMMA InsertType ==
  ASSUME NEW E, NEW q \in Seq(E), NEW e \in E
  PROVE  Insert(q, e) \in Seq(E)
  BY InsertElements

(* An event inserted into an ordered queue leaves it ordered.              *)
LEMMA InsertOrdered ==
  ASSUME NEW E, NEW q \in Seq(E), NEW e \in E, Ordered(q), \A f \in E : f.at \in Int
  PROVE  Ordered(Insert(q, e))
  <1>. DEFINE k == Position(q, e.at)
              r == Insert(q, e)
  <1>1. /\ k \in 0 .. Len(q) /\ Len(r) = Len(q) + 1
        /\ \A i \in 1 .. Len(q) + 1 :
             r[i] = IF i <= k THEN q[i] ELSE IF i = k + 1 THEN e ELSE q[i - 1]
    BY InsertElements
  <1>2. Len(q) \in Nat /\ e.at \in Int /\ \A i \in 1 .. Len(q) : q[i].at \in Int
    BY Len(q) \in Nat
  <1>3. \A i \in 1 .. Len(q) : q[i].at <= e.at <=> i <= k
    BY <1>2, PositionParts
  <1>. HIDE DEF k, r
  <1>4. ASSUME NEW i \in 1 .. Len(q) + 1, NEW j \in 1 .. Len(q) + 1, i < j
        PROVE  r[i].at <= r[j].at
    <2>1. CASE j <= k
      BY <1>1, <1>4, <2>1 DEF Ordered
    <2>2. CASE j = k + 1
      <3>1. r[j] = e /\ r[i] = q[i] /\ i \in 1 .. Len(q) /\ i <= k
        BY <1>1, <1>2, <1>4, <2>2
      <3>. QED
        BY <1>3, <3>1
    <2>3. CASE j > k + 1
      <3>1. r[j] = q[j - 1] /\ j - 1 \in 1 .. Len(q) /\ j - 1 > k
        BY <1>1, <1>2, <2>3
      <3>2. CASE i <= k
        <4>1. r[i] = q[i] /\ i \in 1 .. Len(q) /\ i < j - 1
          BY <1>1, <1>2, <3>1, <3>2
        <4>. QED
          BY <3>1, <4>1 DEF Ordered
      <3>3. CASE i = k + 1
        <4>1. r[i] = e /\ ~(q[j - 1].at <= e.at)
          BY <1>1, <1>3, <3>1, <3>3
        <4>. QED
          BY <1>2, <3>1, <4>1
      <3>4. CASE i > k + 1
        <4>1. r[i] = q[i - 1] /\ i - 1 \in 1 .. Len(q) /\ i - 1 < j - 1
          BY <1>1, <1>2, <1>4, <2>3, <3>4
        <4>. QED
          BY <3>1, <4>1 DEF Ordered
      <3>. QED
        BY <1>1, <3>2, <3>3, <3>4
    <2>. QED
      BY <1>1, <2>1, <2>2, <2>3
  <1>. QED
    BY <1>1, <1>4 DEF Ordered, r
-----------------------------------------------------------------------------
(* f(n) is what the turns F[0] to F[n - 1] make of s. *)
Iterated(f, S, F, s) ==
  f \in [Nat -> S] /\ f[0] = s /\ \A n \in Nat : f[n + 1] = F[n][f[n]]

(* Functions on a set can be applied one after another: the function that  *)
(* a recursive definition over the numbers names exists.                   *)
LEMMA Iterates ==
  ASSUME NEW S, NEW F \in [Nat -> [S -> S]], NEW s \in S
  PROVE  \E f : Iterated(f, S, F, s)
  <1>. DEFINE Part(n, h) == h \in [0 .. n -> S] /\ h[0] = s
                            /\ \A k \in 1 .. n : h[k] = F[k - 1][h[k - 1]]
              T == {n \in Nat : ~\E h : Part(n, h)}
              Apart(n, h, m, g) == n <= m /\ Part(n, h) /\ Part(m, g) /\ h[n] # g[n]
              V == {n \in Nat : \E h, g : \E m \in Nat : Apart(n, h, m, g)}
  <1>1. T = {}
    <2>. SUFFICES ASSUME T # {} PROVE FALSE
      OBVIOUS
    <2>1. PICK m \in T : \A n \in T : m <= n
      BY LeastNat
    <2>2. m # 0
      <3>1. Part(0, [k \in 0 .. 0 |-> s])
        OBVIOUS
      <3>. QED
        BY <3>1
    <2>3. m - 1 \in Nat /\ ~(m - 1 \in T)
      BY SMTT(30), <2>1, <2>2
    <2>4. PICK h : Part(m - 1, h)
      BY <2>3
    <2>. DEFINE g == [k \in 0 .. m |-> IF k = m THEN F[m - 1][h[m - 1]] ELSE h[k]]
    <2>5. h[m - 1] \in S
      BY <2>3, <2>4
    <2>6. g \in [0 .. m -> S] /\ g[0] = s
      BY <2>2, <2>3, <2>4, <2>5
    <2>7. \A k \in 1 .. m : g[k] = F[k - 1][g[k - 1]]
      <3>. SUFFICES ASSUME NEW k \in 1 .. m PROVE g[k] = F[k - 1][g[k - 1]]
        OBVIOUS
      <3>1. g[k - 1] = h[k - 1]
        BY <2>3
      <3>2. k = m \/ k \in 1 .. m - 1
        BY <2>3
      <3>. QED
        BY <2>3, <2>4, <3>1, <3>2
    <2>8. Part(m, g)
      BY <2>6, <2>7
    <2>. QED
      BY <2>1, <2>8
  <1>2. V = {}
    <2>. SUFFICES ASSUME V # {} PROVE FALSE
      OBVIOUS
    <2>1. PICK n \in V : \A i \in V : n <= i
      BY LeastNat
    <2>2. n \in Nat /\ \A i \in Nat : i < n => ~(i \in V)
      <3>1. n \in Nat /\ V \subseteq Nat
        BY Zenon
      <3>. HIDE DEF V
      <3>. QED
        BY <2>1, <3>1
    <2>3. PICK h, g : \E m \in Nat : Apart(n, h, m, g)
      BY <2>1
    <2>3a. PICK m \in Nat : Apart(n, h, m, g)
      BY <2>3
    <2>4. n # 0
      BY <2>3a
    <2>5. n - 1 \in Nat /\ ~(n - 1 \in V)
      <3>. HIDE DEF V
      <3>. QED
        BY <2>2, <2>4
    <2>. DEFINE p == [k \in 0 .. n - 1 |-> h[k]]
    <2>6. Part(n - 1, p)
      <3>1. \A k \in 0 .. n - 1 : p[k] = h[k] /\ h[k] \in S
        BY <2>3a, <2>5
      <3>2. p \in [0 .. n - 1 -> S]
        BY <3>1
      <3>3. \A k \in 1 .. n - 1 : p[k] = F[k - 1][p[k - 1]]
        BY <2>3a, <2>5, <3>1
      <3>. QED
        BY <2>3a, <2>5, <3>1, <3>2, <3>3
    <2>7. p[n - 1] = g[n - 1]
      <3>1. n - 1 <= m
        BY <2>3a, <2>5
      <3>2. Part(m, g)
        BY <2>3a
      <3>. HIDE DEF Part, p
      <3>3. ~Apart(n - 1, p, m, g)
        BY <2>5
      <3>. QED
        BY <2>6, <3>1, <3>2, <3>3
    <2>8. p[n - 1] = h[n - 1]
      BY <2>5
    <2>9. n \in 1 .. n /\ n \in 1 .. m
      BY <2>3a, <2>5
    <2>. QED
      BY <2>3a, <2>7, <2>8, <2>9
  <1>. DEFINE H(n) == CHOOSE h : Part(n, h)
              f == [n \in Nat |-> H(n)[n]]
  <1>3. \A n \in Nat : Part(n, H(n))
    <2>. SUFFICES ASSUME NEW n \in Nat PROVE Part(n, H(n))
      OBVIOUS
    <2>1. \E h : Part(n, h)
      BY <1>1
    <2>. HIDE DEF Part
    <2>. QED
      BY <2>1
  <1>. HIDE DEF H
  <1>4. f \in [Nat -> S]
    BY <1>3
  <1>5. f[0] = s
    BY <1>3
  <1>6. ASSUME NEW n \in Nat PROVE f[n + 1] = F[n][f[n]]
    <2>1. n + 1 \in Nat /\ n + 1 \in 1 .. n + 1 /\ n + 1 - 1 = n
      OBVIOUS
    <2>2. H(n + 1)[n + 1] = F[n][H(n + 1)[n]]
      BY <1>3, <2>1
    <2>3. H(n)[n] = H(n + 1)[n]
      <3>1. Part(n, H(n)) /\ Part(n + 1, H(n + 1)) /\ n <= n + 1
        BY <1>3, <2>1
      <3>. HIDE DEF Part
      <3>2. ~Apart(n, H(n), n + 1, H(n + 1))
        BY <1>2, <2>1
      <3>. QED
        BY <3>1, <3>2
    <2>. QED
      BY <2>1, <2>2, <2>3
  <1>. HIDE DEF f
  <1>7. Iterated(f, S, F, s)
    BY <1>4, <1>5, <1>6 DEF Iterated
  <1>. QED
    BY <1>7, Zenon
=============================================================================
