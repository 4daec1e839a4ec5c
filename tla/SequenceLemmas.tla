--------------------------- MODULE SequenceLemmas ---------------------------
(***************************************************************************)
(* What the proofs need to know of recursion, order and concatenation,     *)
(* whatever the data.  Induction is stated for a set of numbers instead of *)
(* a predicate, so that it can be cited with any formula.                  *)
(***************************************************************************)
EXTENDS SequencesExt, SequenceTheorems, FiniteSetTheorems, WellFoundedInduction, TLAPS

(* A set of natural numbers that is not empty has a least element. *)
LEMMA LeastNatural ==
  ASSUME NEW T \in SUBSET Nat, T # {}
  PROVE  \E m \in T : \A k \in T : m <= k
<1> DEFINE R == { ss \in Nat \X Nat : ss[1] < ss[2] }
<1>1. IsWellFoundedOn(R, Nat)
  BY NatLessThanWellFounded DEF OpToRel
<1>2. \A x, y \in Nat : << y, x >> \in R <=> y < x
  OBVIOUS
<1> HIDE DEF R
<1>3. \E x \in T : \A y \in T : << y, x >> \notin R
  BY <1>1, WFMin, Zenon
<1>4. PICK x \in T : \A y \in T : << y, x >> \notin R
  BY <1>3
<1>5. ASSUME NEW y \in T PROVE x <= y
  <2>1. x \in Nat /\ y \in Nat
    OBVIOUS
  <2>2. ~(y < x)
    BY <1>2, <1>4, <2>1
  <2> QED
    BY <2>1, <2>2
<1> QED
  BY <1>5

(* Induction over the natural numbers. *)
LEMMA Induction ==
  ASSUME NEW T, 0 \in T, \A n \in Nat : n \in T => n + 1 \in T
  PROVE  \A n \in Nat : n \in T
<1> SUFFICES ASSUME NEW n \in Nat, n \notin T
             PROVE  FALSE
  OBVIOUS
<1> DEFINE Out == { k \in Nat : k \notin T }
<1>1. PICK m \in Out : \A k \in Out : m <= k
  <2>1. Out \in SUBSET Nat /\ Out # {}
    OBVIOUS
  <2> HIDE DEF Out
  <2> QED
    BY <2>1, LeastNatural
<1>2. m # 0 /\ m \in Nat /\ m \notin T
  OBVIOUS
<1>3. m - 1 \in Nat /\ m - 1 \notin Out
  BY <1>1, <1>2
<1>4. m - 1 \in T
  BY <1>3
<1>5. (m - 1) + 1 \in T
  BY <1>3, <1>4
<1>6. (m - 1) + 1 = m
  BY <1>2
<1> QED
  BY <1>2, <1>5, <1>6

(* A finite sequence of values can be defined by recursion. *)
LEMMA Recursion ==
  ASSUME NEW V, NEW v \in V, NEW m \in Nat, NEW step \in [1..m -> [V -> V]]
  PROVE  \E g \in [0..m -> V] : g[0] = v /\ \A i \in 1..m : g[i] = step[i][g[i - 1]]
<1> DEFINE Good(n) == \E g \in [0..n -> V] :
                        g[0] = v /\ \A i \in 1..n : g[i] = step[i][g[i - 1]]
           T == { n \in Nat : n <= m => Good(n) }
<1>1. 0 \in T
  <2> DEFINE g == [i \in 0..0 |-> v]
  <2>1. g \in [0..0 -> V] /\ g[0] = v /\ \A i \in 1..0 : g[i] = step[i][g[i - 1]]
    OBVIOUS
  <2>2. Good(0)
    BY <2>1
  <2> QED
    BY <2>2
<1>2. ASSUME NEW n \in Nat, n \in T
      PROVE  n + 1 \in T
  <2> SUFFICES ASSUME n + 1 <= m PROVE Good(n + 1)
    OBVIOUS
  <2>1. PICK g \in [0..n -> V] : g[0] = v /\ \A i \in 1..n : g[i] = step[i][g[i - 1]]
    BY <1>2
  <2> DEFINE h == [i \in 0..(n + 1) |-> IF i = n + 1 THEN step[n + 1][g[n]] ELSE g[i]]
  <2>2. g[n] \in V /\ step[n + 1][g[n]] \in V
    <3>1. n \in 0..n /\ n + 1 \in 1..m
      OBVIOUS
    <3> QED
      BY <3>1
  <2>3. \A i \in 0..(n + 1) : i = n + 1 \/ i \in 0..n
    OBVIOUS
  <2>4. h \in [0..(n + 1) -> V]
    BY <2>2, <2>3
  <2>5. \A i \in 0..n : h[i] = g[i]
    OBVIOUS
  <2>6. h[n + 1] = step[n + 1][g[n]]
    OBVIOUS
  <2> HIDE DEF h
  <2>7. h[0] = v
    BY <2>1, <2>5
  <2>8. ASSUME NEW i \in 1..(n + 1)
        PROVE  h[i] = step[i][h[i - 1]]
    <3>1. CASE i = n + 1
      <4>1. i - 1 = n /\ n \in 0..n
        BY <3>1
      <4> QED
        BY <2>5, <2>6, <3>1, <4>1
    <3>2. CASE i # n + 1
      <4>1. i \in 1..n /\ i \in 0..n /\ i - 1 \in 0..n
        BY <3>2
      <4> QED
        BY <2>1, <2>5, <4>1
    <3> QED
      BY <3>1, <3>2
  <2> QED
    BY <2>4, <2>7, <2>8
<1> HIDE DEF T
<1>3. \A n \in Nat : n \in T
  BY <1>1, <1>2, Induction
<1>4. m \in T
  BY <1>3
<1>5. Good(m)
  BY <1>4 DEF T
<1> QED
  BY <1>5

-----------------------------------------------------------------------------
(* Numbers up to a bound *)

(* A bounded set of numbers that is not empty has a greatest element. *)
LEMMA GreatestNatural ==
  ASSUME NEW n \in Nat, NEW S \in SUBSET (0..n), S # {}
  PROVE  \E m \in S : \A k \in S : k <= m
<1> DEFINE B == { b \in Nat : \A k \in S : k <= b }
<1>1. n \in B
  OBVIOUS
<1>2. PICK b \in B : \A c \in B : b <= c
  <2>1. B \in SUBSET Nat /\ B # {}
    BY <1>1
  <2> HIDE DEF B
  <2> QED
    BY <2>1, LeastNatural
<1>3. b \in Nat /\ \A k \in S : k \in Nat /\ k <= b
  OBVIOUS
<1>4. b \in S
  <2> SUFFICES ASSUME b \notin S PROVE FALSE
    OBVIOUS
  <2>1. ASSUME NEW k \in S PROVE k <= b - 1
    BY <1>3, <2>1
  <2>2. b # 0
    <3>1. PICK k \in S : TRUE
      OBVIOUS
    <3> QED
      BY <1>3, <3>1, <2>1
  <2>3. b - 1 \in B
    BY <1>3, <2>1, <2>2
  <2> QED
    BY <1>2, <1>3, <2>3
<1> QED
  BY <1>3, <1>4

-----------------------------------------------------------------------------
(* Concatenation of a sequence of sequences *)

(* FlattenSeq puts its parts one after the other.  *)
LEMMA FlattenIs ==
  ASSUME NEW A, NEW ss \in Seq(Seq(A))
  PROVE  \E g \in [0..Len(ss) -> Seq(A)] :
           /\ g[0] = << >> /\ FlattenSeq(ss) = g[Len(ss)]
           /\ \A i \in 1..Len(ss) : g[i] = g[i - 1] \o ss[i]
<1> DEFINE n == Len(ss)
           step == [i \in 1..n |-> [s \in Seq(A) |-> s \o ss[i]]]
<1>1. n \in Nat /\ \A i \in 1..n : ss[i] \in Seq(A)
  OBVIOUS
<1> HIDE DEF n
<1>2. << >> \in Seq(A)
  OBVIOUS
<1>3. step \in [1..n -> [Seq(A) -> Seq(A)]]
  <2>1. ASSUME NEW i \in 1..n, NEW s \in Seq(A) PROVE s \o ss[i] \in Seq(A)
    BY <1>1, ConcatProperties
  <2> QED
    BY <2>1
<1>4. \A q \in Seq(A), i \in 1..n : step[i][q] = q \o ss[i]
  OBVIOUS
<1> HIDE DEF step
<1>5. PICK g \in [0..n -> Seq(A)] : g[0] = << >> /\ \A i \in 1..n : g[i] = step[i][g[i - 1]]
  <2> DEFINE V == Seq(A)
             v == << >>
  <2>1. v \in V /\ step \in [1..n -> [V -> V]] /\ n \in Nat
    BY <1>1, <1>3
  <2> HIDE DEF V, v
  <2>2. \E g \in [0..n -> V] : g[0] = v /\ \A i \in 1..n : g[i] = step[i][g[i - 1]]
    BY <2>1, Recursion
  <2> QED
    BY <2>2 DEF V, v
<1>6. \A i \in 1..n : g[i] = g[i - 1] \o ss[i]
  <2> SUFFICES ASSUME NEW i \in 1..n PROVE g[i] = g[i - 1] \o ss[i]
    OBVIOUS
  <2>1. i - 1 \in 0..n
    BY <1>1
  <2>2. g[i - 1] \in Seq(A)
    BY <2>1
  <2> QED
    BY <1>4, <1>5, <2>2
<1>7. CASE n = 0
  <2>1. ss = << >>
    BY <1>7, EmptySeq DEF n
  <2>2. FlattenSeq(ss) = ss
    BY <1>7 DEF FlattenSeq, n
  <2> QED
    BY <1>5, <1>6, <1>7, <2>1, <2>2 DEF n
<1>8. CASE n # 0
  <2> DEFINE Eq(f) == f = [i \in 1..n |-> IF i = 1 THEN ss[i] ELSE f[i - 1] \o ss[i]]
             flatten == CHOOSE f : Eq(f)
             h == [i \in 1..n |-> g[i]]
  <2>1. FlattenSeq(ss) = flatten[n]
    BY <1>8, Zenon DEF FlattenSeq, n
  <2>2. Eq(h)
    <3>1. ASSUME NEW i \in 1..n
          PROVE  g[i] = IF i = 1 THEN ss[i] ELSE h[i - 1] \o ss[i]
      <4>1. CASE i = 1
        <5>1. ss[1] \in Seq(A) /\ g[1] = g[0] \o ss[1]
          <6>1. 1 \in 1..n /\ 1 - 1 = 0
            BY <4>1
          <6>2. g[1] = g[1 - 1] \o ss[1]
            BY <1>6, <6>1
          <6> QED
            BY <1>1, <6>1, <6>2
        <5>2. << >> \o ss[1] = ss[1]
          BY <5>1, ConcatEmptySeq
        <5> QED
          BY <1>5, <4>1, <5>1, <5>2
      <4>2. CASE i # 1
        <5>1. i - 1 \in 1..n
          BY <1>1, <4>2
        <5> QED
          BY <1>6, <4>2, <5>1
      <4> QED
        BY <4>1, <4>2
    <3> QED
      BY <3>1
  <2>3. Eq(flatten)
    <3> HIDE DEF h
    <3>1. \E f : Eq(f)
      BY <2>2
    <3> HIDE DEF Eq
    <3> QED
      BY <3>1
  <2>4. \A i \in 1..n : flatten[i] = IF i = 1 THEN ss[i] ELSE flatten[i - 1] \o ss[i]
    <3> HIDE DEF flatten
    <3> QED
      BY <2>3
  <2>5. \A i \in 1..n : h[i] = IF i = 1 THEN ss[i] ELSE h[i - 1] \o ss[i]
    <3>1. \A f : Eq(f) => \A i \in 1..n : f[i] = IF i = 1 THEN ss[i] ELSE f[i - 1] \o ss[i]
      OBVIOUS
    <3> HIDE DEF Eq, h
    <3> QED
      BY <2>2, <3>1
  <2> HIDE DEF flatten, h, Eq
  <2> DEFINE T == { j \in Nat : j + 1 \in 1..n => flatten[j + 1] = h[j + 1] }
  <2>6. 0 \in T
    <3>1. 1 \in 1..n
      BY <1>1, <1>8
    <3> QED
      BY <2>4, <2>5, <3>1
  <2>7. ASSUME NEW j \in Nat, j \in T PROVE j + 1 \in T
    <3> SUFFICES ASSUME (j + 1) + 1 \in 1..n PROVE flatten[(j + 1) + 1] = h[(j + 1) + 1]
      OBVIOUS
    <3>1. ((j + 1) + 1) - 1 = j + 1 /\ (j + 1) + 1 # 1 /\ j + 1 \in 1..n
      BY <1>1
    <3>2. flatten[j + 1] = h[j + 1]
      BY <2>7, <3>1
    <3> QED
      BY <2>4, <2>5, <3>1, <3>2
  <2> HIDE DEF T
  <2>8. \A j \in Nat : j \in T
    BY <2>6, <2>7, Induction
  <2>9. n - 1 \in T /\ n - 1 \in Nat /\ (n - 1) + 1 = n /\ n \in 1..n
    BY <1>1, <1>8, <2>8
  <2>10. flatten[n] = h[n]
    BY <2>9 DEF T
  <2>11. h[n] = g[n]
    BY <2>9 DEF h
  <2> QED
    BY <1>5, <1>6, <2>1, <2>10, <2>11 DEF n
<1> QED
  BY <1>7, <1>8

(* The i-th part is found after what comes before it, and nothing else is there. *)
Placed(ss, whole, off) ==
  /\ off \in [0..Len(ss) -> Nat] /\ off[0] = 0 /\ off[Len(ss)] = Len(whole)
  /\ \A i \in 1..Len(ss) : off[i] = off[i - 1] + Len(ss[i])
  /\ \A i \in 1..Len(ss) : \A k \in 1..Len(ss[i]) :
       off[i - 1] + k \in 1..Len(whole) /\ whole[off[i - 1] + k] = ss[i][k]
  /\ \A m \in 1..Len(whole) : \E i \in 1..Len(ss) : \E k \in 1..Len(ss[i]) : m = off[i - 1] + k

(* A concatenation is a sequence in which each part has its place. *)
LEMMA FlattenPlaces ==
  ASSUME NEW A, NEW ss \in Seq(Seq(A))
  PROVE  FlattenSeq(ss) \in Seq(A) /\ \E off : Placed(ss, FlattenSeq(ss), off)
<1> DEFINE n == Len(ss)
<1>1. n \in Nat /\ \A i \in 1..n : ss[i] \in Seq(A) /\ Len(ss[i]) \in Nat
  OBVIOUS
<1>2. PICK g \in [0..n -> Seq(A)] :
        /\ g[0] = << >> /\ FlattenSeq(ss) = g[n]
        /\ \A i \in 1..n : g[i] = g[i - 1] \o ss[i]
  BY FlattenIs
<1> HIDE DEF n
<1> DEFINE off == [i \in 0..n |-> Len(g[i])]
<1>3. \A i \in 0..n : off[i] = Len(g[i]) /\ off[i] \in Nat
  OBVIOUS
<1>4. off \in [0..n -> Nat] /\ off[0] = 0
  BY <1>1, <1>2
<1> HIDE DEF off
<1>5. ASSUME NEW i \in 1..n
      PROVE  /\ i - 1 \in 0..n /\ i \in 0..n /\ off[i - 1] \in Nat
             /\ off[i] = off[i - 1] + Len(ss[i])
             /\ \A m \in 1..off[i - 1] : g[i][m] = g[i - 1][m]
             /\ \A k \in 1..Len(ss[i]) : g[i][off[i - 1] + k] = ss[i][k]
  <2>1. i - 1 \in 0..n /\ i \in 0..n
    BY <1>1
  <2>2. g[i - 1] \in Seq(A) /\ ss[i] \in Seq(A) /\ g[i] = g[i - 1] \o ss[i]
    BY <1>1, <1>2, <2>1
  <2>3. off[i - 1] = Len(g[i - 1]) /\ off[i] = Len(g[i]) /\ off[i - 1] \in Nat
    BY <1>3, <2>1
  <2> HIDE DEF off
  <2> DEFINE a == g[i - 1]
             b == ss[i]
  <2>4. a \in Seq(A) /\ b \in Seq(A) /\ g[i] = a \o b /\ Len(a) = off[i - 1] /\ Len(g[i]) = off[i]
    BY <2>2, <2>3
  <2> HIDE DEF a, b
  <2>5. Len(a \o b) = Len(a) + Len(b) /\ \A m \in 1..Len(a) : (a \o b)[m] = a[m]
    <3>1. a \in Seq(A) /\ b \in Seq(A)
      BY <2>4
    <3> QED
      BY <3>1
  <2>6. \A k \in 1..Len(b) : (a \o b)[Len(a) + k] = b[k]
    <3>1. a \in Seq(A) /\ b \in Seq(A)
      BY <2>4
    <3> QED
      BY <3>1
  <2>7. Len(g[i]) = Len(a) + Len(b) /\ (\A m \in 1..Len(a) : g[i][m] = a[m])
          /\ \A k \in 1..Len(b) : g[i][Len(a) + k] = b[k]
    BY <2>4, <2>5, <2>6
  <2> QED
    BY <2>1, <2>3, <2>4, <2>7 DEF a, b
<1> DEFINE There(j) == \A i \in 1..j : \A k \in 1..Len(ss[i]) :
                         off[i - 1] + k \in 1..off[j] /\ g[j][off[i - 1] + k] = ss[i][k]
           Covered(j) == \A m \in 1..off[j] : \E i \in 1..j : \E k \in 1..Len(ss[i]) : m = off[i - 1] + k
           T == { j \in Nat : j <= n => There(j) /\ Covered(j) }
<1>6. 0 \in T
  BY <1>4
<1>7. ASSUME NEW j \in Nat, j \in T PROVE j + 1 \in T
  <2> SUFFICES ASSUME j + 1 <= n PROVE There(j + 1) /\ Covered(j + 1)
    OBVIOUS
  <2> DEFINE l == j + 1
  <2>1. l \in 1..n /\ l - 1 = j /\ There(j) /\ Covered(j) /\ j \in 0..n
    <3>1. j <= n
      BY <1>1
    <3>2. There(j) /\ Covered(j)
      BY <1>7, <3>1
    <3> HIDE DEF There, Covered
    <3> QED
      BY <1>1, <3>2
  <2>2. /\ off[j] \in Nat /\ off[l] \in Nat /\ Len(ss[l]) \in Nat /\ off[l] = off[j] + Len(ss[l])
        /\ \A m \in 1..off[j] : g[l][m] = g[j][m]
        /\ \A k \in 1..Len(ss[l]) : g[l][off[j] + k] = ss[l][k]
    <3>1. l \in 0..n
      BY <2>1
    <3> HIDE DEF l
    <3> QED
      BY <1>1, <1>3, <1>5, <2>1, <3>1
  <2>3. \A i \in 1..l : i = l \/ i \in 1..j
    OBVIOUS
  <2>4. There(l)
    <3> SUFFICES ASSUME NEW i \in 1..l, NEW k \in 1..Len(ss[i])
                 PROVE  off[i - 1] + k \in 1..off[l] /\ g[l][off[i - 1] + k] = ss[i][k]
      OBVIOUS
    <3>1. CASE i = l
      BY <2>1, <2>2, <3>1
    <3>2. CASE i \in 1..j
      <4>1. off[i - 1] + k \in 1..off[j] /\ g[j][off[i - 1] + k] = ss[i][k]
        BY <2>1, <3>2
      <4>2. g[l][off[i - 1] + k] = ss[i][k]
        BY <2>2, <4>1
      <4>3. off[i - 1] + k \in 1..off[l]
        <5> HIDE DEF l
        <5>1. \A m \in 1..off[j] : m \in 1..off[l]
          BY <2>2
        <5> QED
          BY <4>1, <5>1
      <4> QED
        BY <4>2, <4>3
    <3> QED
      BY <2>3, <3>1, <3>2
  <2>5. Covered(l)
    <3> SUFFICES ASSUME NEW m \in 1..off[l]
                 PROVE  \E i \in 1..l : \E k \in 1..Len(ss[i]) : m = off[i - 1] + k
      OBVIOUS
    <3>1. CASE m <= off[j]
      <4>1. m \in 1..off[j]
        BY <2>2, <3>1
      <4>2. PICK i \in 1..j : \E k \in 1..Len(ss[i]) : m = off[i - 1] + k
        BY <2>1, <4>1
      <4>3. i \in 1..l
        OBVIOUS
      <4> QED
        BY <4>2, <4>3
    <3>2. CASE ~(m <= off[j])
      <4>1. m - off[j] \in 1..Len(ss[l]) /\ m = off[j] + (m - off[j])
        BY <2>2, <3>2
      <4>2. l \in 1..l
        OBVIOUS
      <4> QED
        BY <2>1, <4>1, <4>2
    <3> QED
      BY <3>1, <3>2
  <2> QED
    BY <2>4, <2>5
<1> HIDE DEF T
<1>8. \A j \in Nat : j \in T
  BY <1>6, <1>7, Induction
<1>9. n \in T /\ n \in 0..n
  BY <1>1, <1>8
<1>10. There(n) /\ Covered(n)
  BY <1>1, <1>9 DEF T
<1>11. off[n] = Len(FlattenSeq(ss)) /\ FlattenSeq(ss) \in Seq(A)
  BY <1>2, <1>3, <1>9
<1>12. Placed(ss, FlattenSeq(ss), off)
  <2>1. \A i \in 1..n : off[i] = off[i - 1] + Len(ss[i])
    BY <1>5
  <2>2. \A i \in 1..n : \A k \in 1..Len(ss[i]) :
          off[i - 1] + k \in 1..off[n] /\ g[n][off[i - 1] + k] = ss[i][k]
    BY <1>10
  <2>3. \A m \in 1..off[n] : \E i \in 1..n : \E k \in 1..Len(ss[i]) : m = off[i - 1] + k
    BY <1>10
  <2> QED
    BY <1>2, <1>4, <1>11, <2>1, <2>2, <2>3 DEF Placed, n
<1> QED
  BY <1>11, <1>12

(* The elements of a concatenation are those of its parts. *)
LEMMA FlattenElements ==
  ASSUME NEW A, NEW ss \in Seq(Seq(A))
  PROVE  \A x : x \in ToSet(FlattenSeq(ss)) <=> \E i \in 1..Len(ss) : \E k \in 1..Len(ss[i]) : x = ss[i][k]
<1>1. FlattenSeq(ss) \in Seq(A)
  BY FlattenPlaces
<1>2. PICK off : Placed(ss, FlattenSeq(ss), off)
  BY FlattenPlaces
<1> DEFINE F == FlattenSeq(ss)
<1>3. DOMAIN F = 1..Len(F)
  BY <1>1
<1> HIDE DEF F
<1>4. \A x : x \in ToSet(F) <=> \E m \in 1..Len(F) : x = F[m]
  BY <1>3 DEF ToSet
<1>5. /\ \A i \in 1..Len(ss) : \A k \in 1..Len(ss[i]) :
           off[i - 1] + k \in 1..Len(F) /\ F[off[i - 1] + k] = ss[i][k]
      /\ \A m \in 1..Len(F) : \E i \in 1..Len(ss) : \E k \in 1..Len(ss[i]) : m = off[i - 1] + k
  BY <1>2 DEF Placed, F
<1>6. \A x : x \in ToSet(F) <=> \E i \in 1..Len(ss) : \E k \in 1..Len(ss[i]) : x = ss[i][k]
  <2> SUFFICES ASSUME NEW x
               PROVE  x \in ToSet(F) <=> \E i \in 1..Len(ss) : \E k \in 1..Len(ss[i]) : x = ss[i][k]
    OBVIOUS
  <2>1. ASSUME x \in ToSet(F)
        PROVE  \E i \in 1..Len(ss) : \E k \in 1..Len(ss[i]) : x = ss[i][k]
    <3>1. PICK m \in 1..Len(F) : x = F[m]
      BY <1>4, <2>1
    <3>2. PICK i \in 1..Len(ss) : \E k \in 1..Len(ss[i]) : m = off[i - 1] + k
      BY <1>5, <3>1
    <3>3. PICK k \in 1..Len(ss[i]) : m = off[i - 1] + k
      BY <3>2
    <3>4. F[m] = ss[i][k]
      BY <1>5, <3>3
    <3> QED
      BY <3>1, <3>4
  <2>2. ASSUME NEW i \in 1..Len(ss), NEW k \in 1..Len(ss[i]), x = ss[i][k]
        PROVE  x \in ToSet(F)
    BY <1>4, <1>5, <2>2
  <2> QED
    BY <2>1, <2>2
<1> QED
  BY <1>6 DEF F

-----------------------------------------------------------------------------
(* Finite sets in a sequence *)

(* Every element is in an enumeration exactly once. *)
LEMMA EnumerationIs ==
  ASSUME NEW S, IsFiniteSet(S), NEW f \in SetToSeqs(S)
  PROVE  /\ Cardinality(S) \in Nat /\ f \in [1..Cardinality(S) -> S]
         /\ f \in Seq(S) /\ Len(f) = Cardinality(S) /\ DOMAIN f = 1..Len(f) /\ ToSet(f) = S
         /\ \A i, k \in 1..Len(f) : f[i] = f[k] => i = k
         /\ \A x \in S : \E i \in 1..Len(f) : f[i] = x
<1> DEFINE n == Cardinality(S)
<1>1. n \in Nat
  BY FS_CardinalityType
<1> HIDE DEF n
<1>2. f \in [1..n -> S] /\ \A i, k \in 1..n : f[i] = f[k] => i = k
  <2>1. f \in [1..n -> S] /\ \A i, k \in 1..n : i # k => f[i] # f[k]
    BY DEF SetToSeqs, n
  <2> QED
    BY <2>1
<1>3. f \in Seq(S) /\ Len(f) = n /\ DOMAIN f = 1..n
  BY <1>1, <1>2
<1>4. f \in Injection(1..n, S)
  BY <1>2 DEF Injection, IsInjective
<1>5. IsFiniteSet(1..n) /\ Cardinality(1..n) = n
  BY <1>1, FS_Interval
<1>6. f \in Surjection(1..n, S)
  BY <1>4, <1>5, FS_Injection DEF n
<1>7. \A x \in S : \E i \in 1..n : f[i] = x
  BY <1>6 DEF Surjection
<1>8. ToSet(f) = S
  BY <1>2, <1>3, <1>7 DEF ToSet
<1> QED
  BY <1>1, <1>2, <1>3, <1>7, <1>8 DEF n

(* R says of two elements which comes first. *)
Ranks(R, S) ==
  /\ \A x, y \in S : x # y => << x, y >> \in R \/ << y, x >> \in R
  /\ \A x, y, z \in S : << x, y >> \in R /\ << y, z >> \in R => << x, z >> \in R

(* A finite ranked set has a last element. *)
LEMMA LastOfRanked ==
  ASSUME NEW S, NEW R, Ranks(R, S), IsFiniteSet(S), S # {}
  PROVE  \E x \in S : \A y \in S : y = x \/ << y, x >> \in R
<1> DEFINE HasLast(U) == \E x \in U : \A y \in U : y = x \/ << y, x >> \in R
           T == { n \in Nat : \A U \in SUBSET S :
                    IsFiniteSet(U) /\ Cardinality(U) = n /\ U # {} => HasLast(U) }
<1>1. 0 \in T
  <2> SUFFICES ASSUME NEW U \in SUBSET S, IsFiniteSet(U), Cardinality(U) = 0, U # {}
               PROVE  FALSE
    OBVIOUS
  <2> QED
    BY FS_EmptySet
<1>2. ASSUME NEW n \in Nat, n \in T PROVE n + 1 \in T
  <2> SUFFICES ASSUME NEW U \in SUBSET S, IsFiniteSet(U), Cardinality(U) = n + 1, U # {}
               PROVE  HasLast(U)
    OBVIOUS
  <2>1. PICK x \in U : TRUE
    OBVIOUS
  <2> DEFINE V == U \ {x}
  <2>2. V \in SUBSET S /\ IsFiniteSet(V) /\ Cardinality(V) = n
    <3>1. IsFiniteSet(V) /\ Cardinality(V) = (n + 1) - 1
      BY <2>1, FS_RemoveElement
    <3> QED
      BY <3>1
  <2>3. U = V \cup {x} /\ x \notin V
    BY <2>1
  <2> HIDE DEF V
  <2>4. CASE V = {}
    BY <2>3, <2>4
  <2>5. CASE V # {}
    <3>1. HasLast(V)
      BY <1>2, <2>2, <2>5
    <3>2. PICK l \in V : \A y \in V : y = l \/ << y, l >> \in R
      BY <3>1
    <3>3. x \in S /\ l \in S /\ x # l /\ \A y \in V : y \in S
      BY <2>2, <2>3
    <3>4. CASE << l, x >> \in R
      <4>1. \A y \in V : << y, x >> \in R
        BY <3>2, <3>3, <3>4 DEF Ranks
      <4> QED
        BY <2>3, <4>1
    <3>5. CASE << x, l >> \in R
      BY <2>3, <3>2, <3>5
    <3> QED
      BY <3>3, <3>4, <3>5 DEF Ranks
  <2> QED
    BY <2>4, <2>5
<1> HIDE DEF T
<1>3. \A n \in Nat : n \in T
  BY <1>1, <1>2, Induction
<1>4. Cardinality(S) \in T
  BY <1>3, FS_CardinalityType
<1> QED
  BY <1>4 DEF T

(* A finite set can be put in order. *)
LEMMA OrderExists ==
  ASSUME NEW S, NEW R, Ranks(R, S), IsFiniteSet(S)
  PROVE  \E f \in SetToSeqs(S) : \A i, k \in DOMAIN f : i < k => << f[i], f[k] >> \in R
<1> DEFINE InOrder(n, U) ==
             \E f \in [1..n -> U] : \A i, k \in 1..n :
               (f[i] = f[k] => i = k) /\ (i < k => << f[i], f[k] >> \in R)
           T == { n \in Nat : \A U \in SUBSET S :
                    IsFiniteSet(U) /\ Cardinality(U) = n => InOrder(n, U) }
<1>1. 0 \in T
  <2> SUFFICES ASSUME NEW U \in SUBSET S PROVE InOrder(0, U)
    OBVIOUS
  <2> DEFINE f == [i \in 1..0 |-> i]
  <2>1. f \in [1..0 -> U]
    OBVIOUS
  <2>2. \A i, k \in 1..0 : (f[i] = f[k] => i = k) /\ (i < k => << f[i], f[k] >> \in R)
    <3>1. 1..0 = {}
      OBVIOUS
    <3> HIDE DEF f
    <3> QED
      BY <3>1
  <2> HIDE DEF f
  <2> QED
    BY <2>1, <2>2
<1>2. ASSUME NEW n \in Nat, n \in T PROVE n + 1 \in T
  <2> SUFFICES ASSUME NEW U \in SUBSET S, IsFiniteSet(U), Cardinality(U) = n + 1
               PROVE  InOrder(n + 1, U)
    OBVIOUS
  <2>1. U # {}
    BY FS_EmptySet
  <2>2. Ranks(R, U)
    BY DEF Ranks
  <2>3. PICK x \in U : \A y \in U : y = x \/ << y, x >> \in R
    BY <2>1, <2>2, LastOfRanked
  <2> DEFINE V == U \ {x}
  <2>4. V \in SUBSET S /\ IsFiniteSet(V) /\ Cardinality(V) = n
    <3>1. IsFiniteSet(V) /\ Cardinality(V) = (n + 1) - 1
      BY FS_RemoveElement
    <3> QED
      BY <3>1
  <2>5. \A y \in V : y \in U /\ y # x /\ << y, x >> \in R
    BY <2>3
  <2> HIDE DEF V
  <2>6. InOrder(n, V)
    BY <1>2, <2>4
  <2>7. PICK f \in [1..n -> V] : \A i, k \in 1..n :
               (f[i] = f[k] => i = k) /\ (i < k => << f[i], f[k] >> \in R)
    BY <2>6
  <2> DEFINE h == [i \in 1..(n + 1) |-> IF i = n + 1 THEN x ELSE f[i]]
  <2>8. \A i \in 1..(n + 1) : i = n + 1 \/ (i \in 1..n /\ i # n + 1)
    OBVIOUS
  <2>9. h[n + 1] = x /\ \A i \in 1..n : h[i] = f[i] /\ f[i] \in V /\ i < n + 1
    OBVIOUS
  <2>10. h \in [1..(n + 1) -> U]
    BY <2>5, <2>8
  <2> HIDE DEF h
  <2>11. ASSUME NEW i \in 1..(n + 1), NEW k \in 1..(n + 1)
         PROVE  (h[i] = h[k] => i = k) /\ (i < k => << h[i], h[k] >> \in R)
    <3>1. CASE i = n + 1 /\ k = n + 1
      BY <3>1
    <3>2. CASE i = n + 1 /\ k \in 1..n
      BY <2>5, <2>9, <3>2
    <3>3. CASE i \in 1..n /\ k = n + 1
      BY <2>5, <2>9, <3>3
    <3>4. CASE i \in 1..n /\ k \in 1..n
      BY <2>7, <2>9, <3>4
    <3> QED
      BY <2>8, <3>1, <3>2, <3>3, <3>4
  <2> QED
    BY <2>10, <2>11
<1> HIDE DEF T
<1>3. \A n \in Nat : n \in T
  BY <1>1, <1>2, Induction
<1>4. Cardinality(S) \in T
  BY <1>3, FS_CardinalityType
<1>5. InOrder(Cardinality(S), S)
  BY <1>4 DEF T
<1>6. PICK f \in [1..Cardinality(S) -> S] : \A i, k \in 1..Cardinality(S) :
               (f[i] = f[k] => i = k) /\ (i < k => << f[i], f[k] >> \in R)
  BY <1>5
<1>7. f \in SetToSeqs(S)
  <2>1. \A i, k \in 1..Cardinality(S) : i # k => f[i] # f[k]
    BY <1>6
  <2> QED
    BY <2>1 DEF SetToSeqs
<1>8. DOMAIN f = 1..Cardinality(S)
  OBVIOUS
<1> QED
  BY <1>6, <1>7, <1>8

(* In only one way, if R does not put two elements before each other. *)
LEMMA OrderUnique ==
  ASSUME NEW S, NEW R, IsFiniteSet(S), \A x, y \in S : ~(<< x, y >> \in R /\ << y, x >> \in R),
         NEW f \in SetToSeqs(S), NEW g \in SetToSeqs(S),
         \A i, k \in DOMAIN f : i < k => << f[i], f[k] >> \in R,
         \A i, k \in DOMAIN g : i < k => << g[i], g[k] >> \in R
  PROVE  f = g
<1> DEFINE n == Cardinality(S)
<1>1. /\ n \in Nat /\ f \in [1..n -> S] /\ g \in [1..n -> S] /\ DOMAIN f = 1..n /\ DOMAIN g = 1..n
      /\ \A i, k \in 1..n : (f[i] = f[k] => i = k) /\ (g[i] = g[k] => i = k)
      /\ \A x \in S : (\E i \in 1..n : f[i] = x) /\ (\E i \in 1..n : g[i] = x)
  <2>1. /\ n \in Nat /\ f \in [1..n -> S] /\ DOMAIN f = 1..n
        /\ \A i, k \in 1..n : f[i] = f[k] => i = k
        /\ \A x \in S : \E i \in 1..n : f[i] = x
    BY EnumerationIs
  <2>2. /\ g \in [1..n -> S] /\ DOMAIN g = 1..n
        /\ \A i, k \in 1..n : g[i] = g[k] => i = k
        /\ \A x \in S : \E i \in 1..n : g[i] = x
    BY EnumerationIs
  <2> HIDE DEF n
  <2> QED
    BY <2>1, <2>2
<1> HIDE DEF n
<1> DEFINE Wrong == { i \in 1..n : f[i] # g[i] }
<1>2. ASSUME Wrong # {} PROVE FALSE
  <2>1. PICK i \in Wrong : \A k \in Wrong : i <= k
    <3>1. Wrong \in SUBSET Nat
      BY <1>1
    <3> HIDE DEF Wrong
    <3> QED
      BY <1>2, <3>1, LeastNatural
  <2>2. i \in 1..n /\ f[i] # g[i] /\ f[i] \in S /\ g[i] \in S
    BY <1>1
  <2>3. \A k \in 1..n : k < i => f[k] = g[k]
    BY <1>1, <2>1, <2>2
  <2>4. PICK j \in 1..n : g[j] = f[i]
    BY <1>1, <2>2
  <2>5. PICK l \in 1..n : f[l] = g[i]
    BY <1>1, <2>2
  <2>6. j # i /\ l # i
    BY <2>2, <2>4, <2>5
  <2>7. ~(j < i)
    BY <1>1, <2>2, <2>3, <2>4, <2>6
  <2>8. ~(l < i)
    BY <1>1, <2>2, <2>3, <2>5, <2>6
  <2>9. i < j /\ i < l
    BY <1>1, <2>2, <2>6, <2>7, <2>8
  <2>10. << g[i], g[j] >> \in R /\ << f[i], f[l] >> \in R
    BY <1>1, <2>2, <2>9
  <2> QED
    BY <2>2, <2>4, <2>5, <2>10
<1>3. \A i \in 1..n : f[i] = g[i]
  BY <1>2
<1> QED
  BY <1>1, <1>3
=============================================================================
