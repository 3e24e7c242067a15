--------------------------- MODULE SeqFilterTheorems ---------------------------
(***************************************************************************)
(* What the closed-form list operations of SeqFilter return.               *)
(***************************************************************************)
EXTENDS SeqFilter, FiniteSetTheorems, WellFoundedInduction, TLAPS

(* The prover of a step that names none. *)
USE Zenon

(* Every non-empty set of naturals has a least element. *)
LEMMA LeastNat ==
    ASSUME NEW T \in SUBSET Nat, T # {}
    PROVE  \E m \in T : \A k \in T : m <= k
<1>1. IsWellFoundedOn(OpToRel(<, Nat), Nat)
  BY NatLessThanWellFounded
<1>2. PICK m \in T : \A k \in T : ~ (<<k, m>> \in OpToRel(<, Nat))
  BY <1>1, WFMin
<1>3. \A k \in T : ~ (k < m)
  BY <1>2 DEF OpToRel
<1> QED
  BY SMT, <1>3

(* The elements of a list are the values at its positions. *)
LEMMA InRange ==
    ASSUME NEW A, NEW s \in Seq(A), NEW x
    PROVE  x \in Range(s) <=> \E i \in 1..Len(s) : s[i] = x
BY SMT DEF Range

LEMMA PositionsFinite ==
    ASSUME NEW A, NEW s \in Seq(A), NEW S
    PROVE  /\ IsFiniteSet(Positions(s, S))
           /\ Cardinality(Positions(s, S)) \in Nat
           /\ Positions(s, S) \in SUBSET (1..Len(s))
<1>1. IsFiniteSet(1..Len(s))
  BY SMT, FS_Interval
<1> QED
  BY <1>1, FS_Subset, FS_CardinalityType DEF Positions

(* The rank numbers the positions 1, 2, ..., Cardinality(P) in order. *)
LEMMA RankBijection ==
    ASSUME NEW n \in Nat, NEW P \in SUBSET (1..n)
    PROVE  /\ \A i \in P : Rank(P, i) \in 1..Cardinality(P)
           /\ \A i, k \in P : i < k => Rank(P, i) < Rank(P, k)
           /\ \A j \in 1..Cardinality(P) : \E i \in P : Rank(P, i) = j
<1>1. IsFiniteSet(P) /\ Cardinality(P) \in Nat
  <2>1. IsFiniteSet(1..n)
    BY SMT, FS_Interval
  <2> QED
    BY <2>1, FS_Subset, FS_CardinalityType
<1> DEFINE U(i) == {k \in P : k <= i}
<1>2. \A i \in P : IsFiniteSet(U(i)) /\ Cardinality(U(i)) \in Nat
  BY <1>1, FS_Subset, FS_CardinalityType
<1>3. \A i \in P : Rank(P, i) \in 1..Cardinality(P)
  <2> SUFFICES ASSUME NEW i \in P PROVE Cardinality(U(i)) \in 1..Cardinality(P)
    BY DEF Rank
  <2>1. U(i) \in SUBSET P /\ i \in U(i)
    BY SMT
  <2>2. Cardinality(U(i)) <= Cardinality(P)
    BY <2>1, <1>1, FS_Subset
  <2>3. Cardinality(U(i)) # 0
    BY <2>1, <1>2, FS_EmptySet
  <2> QED
    BY SMT, <2>2, <2>3, <1>2, <1>1
<1>4. \A i, k \in P : i < k => Rank(P, i) < Rank(P, k)
  <2> SUFFICES ASSUME NEW i \in P, NEW k \in P, i < k
               PROVE  Cardinality(U(i)) < Cardinality(U(k))
    BY DEF Rank
  <2>1. U(i) \in SUBSET U(k) /\ k \in U(k) /\ k \notin U(i)
    <3>1. i \in Int /\ k \in Int /\ \A x \in P : x \in Int
      BY SMT
    <3>2. \A x \in P : x <= i => x <= k
      BY SMT, <3>1
    <3>3. k <= k /\ ~ (k <= i)
      BY SMT, <3>1
    <3> QED
      BY <3>2, <3>3
  <2>2. Cardinality(U(i)) <= Cardinality(U(k)) /\ Cardinality(U(i)) # Cardinality(U(k))
    BY <2>1, <1>2, FS_Subset
  <2> QED
    BY SMT, <2>2, <1>2
<1>5. \A j \in 1..Cardinality(P) : \E i \in P : Rank(P, i) = j
  <2> DEFINE f == [i \in P |-> Rank(P, i)]
             C == 1..Cardinality(P)
  <2>1. f \in Injection(P, C)
    <3>1. f \in [P -> C]
      BY <1>3
    <3>2. \A i, k \in P : f[i] = f[k] => i = k
      <4> SUFFICES ASSUME NEW i \in P, NEW k \in P, Rank(P, i) = Rank(P, k)
                   PROVE  i = k
        OBVIOUS
      <4>1. ~ (i < k) /\ ~ (k < i)
        BY SMT, <1>4, <1>3
      <4> QED
        BY SMT, <4>1
    <3> QED
      BY <3>1, <3>2 DEF Injection, IsInjective
  <2>2. IsFiniteSet(C) /\ Cardinality(C) = Cardinality(P)
    BY SMT, <1>1, FS_Interval
  <2>3. f \in Surjection(P, C)
    BY <2>1, <2>2, FS_Injection
  <2>4. \A j \in C : \E i \in P : f[i] = j
    BY <2>3 DEF Surjection
  <2> QED
    BY <2>4
<1> QED
  BY <1>3, <1>4, <1>5

(* Keep returns the elements of s that lie in S, each as often as in s and *)
(* in the order of s.                                                      *)
LEMMA KeepProperties ==
    ASSUME NEW A, NEW s \in Seq(A), NEW S
    PROVE  /\ Keep(s, S) \in Seq(A)
           /\ Len(Keep(s, S)) = Cardinality(Positions(s, S))
           /\ Range(Keep(s, S)) = Range(s) \cap S
           /\ NoDup(s) => NoDup(Keep(s, S))
<1> DEFINE P == Positions(s, S)
           c == Cardinality(P)
           at(j) == CHOOSE i \in P : Rank(P, i) = j
           t == Keep(s, S)
<1>1. P \in SUBSET (1..Len(s)) /\ c \in Nat
  BY PositionsFinite
<1>2. /\ \A i \in P : Rank(P, i) \in 1..c
      /\ \A i, k \in P : i < k => Rank(P, i) < Rank(P, k)
      /\ \A j \in 1..c : \E i \in P : Rank(P, i) = j
  <2>1. Len(s) \in Nat
    BY SMT
  <2> HIDE DEF P
  <2> QED
    BY <1>1, <2>1, RankBijection
<1>3. t = [j \in 1..c |-> s[at(j)]]
  BY DEF Keep
<1> HIDE DEF P, t, c
<1>4. \A j \in 1..c : at(j) \in P /\ Rank(P, at(j)) = j
  BY <1>2
<1>5. \A i \in P : at(Rank(P, i)) = i
  <2> SUFFICES ASSUME NEW i \in P PROVE at(Rank(P, i)) = i
    OBVIOUS
  <2>1. Rank(P, i) \in 1..c
    BY <1>2
  <2> DEFINE k == at(Rank(P, i))
  <2>2. k \in P /\ Rank(P, k) = Rank(P, i)
    BY <2>1, <1>4
  <2> HIDE DEF k
  <2>3. ~ (i < k) /\ ~ (k < i)
    BY SMT, <2>2, <1>2
  <2>4. k = i
    BY SMT, <2>2, <2>3, <1>1
  <2> QED
    BY <2>4 DEF k
<1> HIDE DEF at
<1>6. t \in Seq(A) /\ Len(t) = c
  <2>1. \A j \in 1..c : s[at(j)] \in A
    <3>1. \A i \in 1..Len(s) : s[i] \in A
      BY SMT
    <3> QED
      BY <3>1, <1>1, <1>4
  <2>2. t \in [1..c -> A]
    BY <2>1, <1>3
  <2> QED
    BY SMT, <2>2, <1>1
<1>7. Range(t) = Range(s) \cap S
  <2>1. ASSUME NEW x \in Range(t) PROVE x \in Range(s) \cap S
    <3>1. PICK j \in 1..c : x = s[at(j)]
      BY <1>3 DEF Range
    <3>2. at(j) \in 1..Len(s) /\ s[at(j)] \in S
      BY <1>4 DEF P, Positions
    <3> QED
      BY SMT, <3>1, <3>2 DEF Range
  <2>2. ASSUME NEW x \in Range(s) \cap S PROVE x \in Range(t)
    <3>1. PICK i \in 1..Len(s) : s[i] = x
      BY SMT DEF Range
    <3>2. i \in P
      BY <3>1 DEF P, Positions
    <3>3. Rank(P, i) \in 1..c /\ t[Rank(P, i)] = x
      BY <3>1, <3>2, <1>2, <1>3, <1>5
    <3> QED
      BY <3>3, <1>3 DEF Range
  <2> QED
    BY <2>1, <2>2
<1>8. ASSUME NoDup(s) PROVE NoDup(t)
  <2> SUFFICES ASSUME NEW i \in 1..c, NEW j \in 1..c, t[i] = t[j]
               PROVE  i = j
    BY <1>6 DEF NoDup
  <2>1. s[at(i)] = s[at(j)] /\ at(i) \in 1..Len(s) /\ at(j) \in 1..Len(s)
    BY <1>1, <1>3, <1>4
  <2>2. at(i) = at(j)
    BY <2>1, <1>8 DEF NoDup
  <2> QED
    BY <2>2, <1>4
<1> QED
  BY <1>6, <1>7, <1>8 DEF t, c, P

LEMMA DropProperties ==
    ASSUME NEW A, NEW s \in Seq(A), NEW S
    PROVE  /\ Drop(s, S) \in Seq(A)
           /\ Range(Drop(s, S)) = Range(s) \ S
           /\ NoDup(s) => NoDup(Drop(s, S))
BY SMT, KeepProperties DEF Drop

LEMMA BackwardsProperties ==
    ASSUME NEW A, NEW s \in Seq(A)
    PROVE  /\ Backwards(s) \in Seq(A)
           /\ Len(Backwards(s)) = Len(s)
           /\ Range(Backwards(s)) = Range(s)
           /\ NoDup(s) => NoDup(Backwards(s))
<1> USE SMT
<1> DEFINE n == Len(s)
           t == Backwards(s)
<1>1. n \in Nat /\ DOMAIN s = 1..n /\ t = [i \in 1..n |-> s[n + 1 - i]]
  BY DEF Backwards
<1>2. \A i \in 1..n : n + 1 - i \in 1..n /\ n + 1 - (n + 1 - i) = i
  BY <1>1
<1> HIDE DEF n, t
<1>3. t \in Seq(A) /\ Len(t) = n
  BY <1>1, <1>2 DEF n
<1>4. Range(t) = Range(s)
  BY Zenon, <1>1, <1>2 DEF Range
<1>5. NoDup(s) => NoDup(t)
  BY <1>1, <1>2, <1>3 DEF NoDup, n
<1> QED
  BY Zenon, <1>3, <1>4, <1>5 DEF n, t

(* A list without duplicates contains each of its elements once. *)
LEMMA CountNoDup ==
    ASSUME NEW A, NEW s \in Seq(A), NoDup(s), NEW x
    PROVE  Count(s, x) = IF x \in Range(s) THEN 1 ELSE 0
<1>1. CASE x \in Range(s)
  <2>1. PICK i \in 1..Len(s) : s[i] = x
    BY SMT, <1>1 DEF Range
  <2>2. Positions(s, {x}) = {i}
    BY <2>1 DEF Positions, NoDup
  <2> QED
    BY <1>1, <2>2, FS_Singleton DEF Count
<1>2. CASE x \notin Range(s)
  <2>1. Positions(s, {x}) = {}
    BY SMT, <1>2 DEF Positions, Range
  <2> QED
    BY <1>2, <2>1, FS_EmptySet DEF Count
<1> QED
  BY <1>1, <1>2

(* ... and is as long as it has elements. *)
LEMMA LenNoDup ==
    ASSUME NEW A, NEW s \in Seq(A), NoDup(s)
    PROVE  IsFiniteSet(Range(s)) /\ Cardinality(Range(s)) = Len(s)
<1> USE SMT
<1>1. s \in Surjection(1..Len(s), Range(s))
  BY DEF Surjection, Range
<1>2. s \in Injection(1..Len(s), Range(s))
  BY DEF Injection, IsInjective, NoDup, Range
<1>3. IsFiniteSet(1..Len(s)) /\ Cardinality(1..Len(s)) = Len(s)
  <2>1. Len(s) \in Nat /\ 1 \in Int /\ Len(s) \in Int
    OBVIOUS
  <2>2. IsFiniteSet(1..Len(s)) /\ Cardinality(1..Len(s)) = IF 1 > Len(s) THEN 0 ELSE Len(s) - 1 + 1
    BY Zenon, <2>1, FS_Interval
  <2> QED
    BY <2>1, <2>2
<1> QED
  BY Zenon, <1>1, <1>2, <1>3, FS_Surjection

LEMMA NoDupConcat ==
    ASSUME NEW A, NEW s \in Seq(A), NEW t \in Seq(A), NoDup(s), NoDup(t),
           Range(s) \cap Range(t) = {}
    PROVE  NoDup(s \o t)
<1> USE SMT
<1> SUFFICES ASSUME NEW i \in 1..Len(s \o t), NEW j \in 1..Len(s \o t), (s \o t)[i] = (s \o t)[j]
             PROVE  i = j
  BY Zenon DEF NoDup
<1>1. Len(s \o t) = Len(s) + Len(t) /\ Len(s) \in Nat /\ Len(t) \in Nat
  OBVIOUS
<1>2. \A k \in 1..Len(s) : s[k] \in Range(s)
  BY DEF Range
<1>3. \A k \in 1..Len(t) : t[k] \in Range(t)
  BY DEF Range
<1>4. CASE i <= Len(s) /\ j <= Len(s)
  BY <1>1, <1>4 DEF NoDup
<1>5. CASE i > Len(s) /\ j > Len(s)
  BY <1>1, <1>5 DEF NoDup
<1>6. CASE i <= Len(s) /\ j > Len(s)
  BY <1>1, <1>2, <1>3, <1>6
<1>7. CASE i > Len(s) /\ j <= Len(s)
  BY <1>1, <1>2, <1>3, <1>7
<1> QED
  BY <1>1, <1>4, <1>5, <1>6, <1>7

LEMMA RangeConcat ==
    ASSUME NEW A, NEW s \in Seq(A), NEW t \in Seq(A)
    PROVE  Range(s \o t) = Range(s) \cup Range(t)
<1> USE SMT
<1>1. ASSUME NEW x \in Range(s) PROVE x \in Range(s \o t)
  BY DEF Range
<1>2. ASSUME NEW x \in Range(t) PROVE x \in Range(s \o t)
  <2>1. PICK i \in 1..Len(t) : t[i] = x
    BY DEF Range
  <2>2. (s \o t)[Len(s) + i] = x /\ Len(s) + i \in 1..Len(s \o t)
    BY <2>1
  <2> QED
    BY <2>2 DEF Range
<1>3. ASSUME NEW x \in Range(s \o t) PROVE x \in Range(s) \cup Range(t)
  <2>1. PICK i \in 1..Len(s \o t) : (s \o t)[i] = x
    BY DEF Range
  <2>2. CASE i <= Len(s)
    BY <2>1, <2>2 DEF Range
  <2>3. CASE i > Len(s)
    <3>1. i - Len(s) \in 1..Len(t) /\ t[i - Len(s)] = x
      BY <2>1, <2>3
    <3> QED
      BY <3>1 DEF Range
  <2> QED
    BY <2>1, <2>2, <2>3
<1> QED
  BY Zenon, <1>1, <1>2, <1>3

(* Cutting a list without duplicates in two. *)
LEMMA SplitNoDup ==
    ASSUME NEW A, NEW s \in Seq(A), NoDup(s), NEW n \in 0..Len(s)
    PROVE  LET a == SubSeq(s, 1, n)
               b == SubSeq(s, n + 1, Len(s))
           IN  /\ a \in Seq(A) /\ b \in Seq(A) /\ Len(a) = n
               /\ NoDup(a) /\ NoDup(b)
               /\ Range(a) \subseteq Range(s)
               /\ Range(b) = Range(s) \ Range(a)
<1> USE SMT
<1> DEFINE a == SubSeq(s, 1, n)
           b == SubSeq(s, n + 1, Len(s))
<1>1. /\ a \in Seq(A) /\ Len(a) = n /\ \A i \in 1..n : a[i] = s[i]
      /\ b \in Seq(A) /\ Len(b) = Len(s) - n
      /\ \A i \in 1 .. Len(s) - n : b[i] = s[n + i]
  OBVIOUS
<1> HIDE DEF a, b
<1>2. NoDup(a)
  <2> SUFFICES ASSUME NEW i \in 1..n, NEW j \in 1..n, a[i] = a[j] PROVE i = j
    BY Zenon, <1>1 DEF NoDup
  <2>1. s[i] = s[j] /\ i \in 1..Len(s) /\ j \in 1..Len(s)
    BY <1>1
  <2> QED
    BY Zenon, <2>1 DEF NoDup
<1>3. NoDup(b)
  <2> SUFFICES ASSUME NEW i \in 1..Len(s) - n, NEW j \in 1..Len(s) - n, b[i] = b[j] PROVE i = j
    BY Zenon, <1>1 DEF NoDup
  <2>1. s[n + i] = s[n + j] /\ n + i \in 1..Len(s) /\ n + j \in 1..Len(s)
    BY <1>1
  <2>2. n + i = n + j
    BY Zenon, <2>1 DEF NoDup
  <2> QED
    BY <2>2
<1>4. Range(a) \subseteq Range(s)
  BY <1>1 DEF Range
<1>5. ASSUME NEW x \in Range(b) PROVE x \in Range(s) \ Range(a)
  <2>1. PICK i \in 1 .. Len(s) - n : s[n + i] = x
    BY <1>1 DEF Range
  <2>2. n + i \in 1..Len(s) /\ \A k \in 1..n : k # n + i
    BY <2>1
  <2>3. \A k \in 1..n : s[k] # x
    BY <2>1, <2>2 DEF NoDup
  <2> QED
    BY <2>1, <2>2, <2>3, <1>1, InRange
<1>6. ASSUME NEW x \in Range(s) \ Range(a) PROVE x \in Range(b)
  <2>1. PICK i \in 1..Len(s) : s[i] = x
    BY DEF Range
  <2>2. ~ (i <= n)
    <3> SUFFICES ASSUME i <= n PROVE FALSE
      BY Zenon
    <3>1. i \in 1..Len(a) /\ a[i] = x
      BY <2>1, <1>1
    <3>2. x \in Range(a)
      BY Zenon, <3>1, <1>1, InRange
    <3> QED
      BY Zenon, <3>2
  <2>3. i - n \in 1 .. Len(s) - n /\ b[i - n] = x
    BY <2>1, <2>2, <1>1
  <2> QED
    BY <2>3, <1>1 DEF Range
<1> QED
  BY Zenon, <1>1, <1>2, <1>3, <1>4, <1>5, <1>6 DEF a, b

-------------------------------------------------------------------------------
(* A list comprehension keeps the order of what it keeps. *)
LEMMA KeepOrder ==
    ASSUME NEW A, NEW s \in Seq(A), NEW S, NEW x \in S, NEW y \in S, Before(s, x, y)
    PROVE  Before(Keep(s, S), x, y)
<1> DEFINE P == Positions(s, S)
           c == Cardinality(P)
           at(j) == CHOOSE i \in P : Rank(P, i) = j
           t == Keep(s, S)
<1>1. P \in SUBSET (1..Len(s)) /\ c \in Nat
  BY PositionsFinite
<1>2. /\ \A i \in P : Rank(P, i) \in 1..c
      /\ \A i, k \in P : i < k => Rank(P, i) < Rank(P, k)
  <2>1. Len(s) \in Nat
    BY SMT
  <2> HIDE DEF P
  <2> QED
    BY <1>1, <2>1, RankBijection
<1>3. t = [j \in 1..c |-> s[at(j)]] /\ Len(t) = c
  BY KeepProperties DEF Keep
<1>4. PICK i \in 1..Len(s), j \in 1..Len(s) : i < j /\ s[i] = x /\ s[j] = y
  BY DEF Before
<1>5. i \in P /\ j \in P
  BY <1>4 DEF Positions
<1> HIDE DEF P, t, c
<1>6. ASSUME NEW k \in P PROVE at(Rank(P, k)) = k
  <2> DEFINE l == at(Rank(P, k))
  <2>1. l \in P /\ Rank(P, l) = Rank(P, k)
    OBVIOUS
  <2> HIDE DEF l
  <2>2. ~ (l < k) /\ ~ (k < l)
    BY SMT, <2>1, <1>2
  <2>3. l = k
    BY SMT, <2>1, <2>2, <1>1
  <2> QED
    BY <2>3 DEF l
<1> HIDE DEF at
<1>7. t[Rank(P, i)] = x /\ t[Rank(P, j)] = y
  BY <1>2, <1>3, <1>4, <1>5, <1>6
<1>8. Rank(P, i) < Rank(P, j) /\ Rank(P, i) \in 1..Len(t) /\ Rank(P, j) \in 1..Len(t)
  BY <1>2, <1>3, <1>4, <1>5
<1>9. Before(t, x, y)
  BY <1>7, <1>8 DEF Before
<1> QED
  BY <1>9 DEF t

LEMMA DropOrder ==
    ASSUME NEW A, NEW s \in Seq(A), NEW S, NEW x, NEW y, x \notin S, y \notin S, Before(s, x, y)
    PROVE  Before(Drop(s, S), x, y)
<1>1. x \in Range(s) \ S /\ y \in Range(s) \ S
  BY InRange DEF Before
<1> QED
  BY <1>1, KeepOrder DEF Drop

LEMMA ConcatOrder ==
    ASSUME NEW A, NEW s \in Seq(A), NEW t \in Seq(A), NEW x, NEW y
    PROVE  /\ Before(s, x, y) => Before(s \o t, x, y)
           /\ Before(t, x, y) => Before(s \o t, x, y)
           /\ x \in Range(s) /\ y \in Range(t) => Before(s \o t, x, y)
<1>1. /\ Len(s \o t) = Len(s) + Len(t) /\ Len(s) \in Nat /\ Len(t) \in Nat
      /\ \A i \in 1..Len(s) : (s \o t)[i] = s[i]
      /\ \A i \in 1..Len(t) : (s \o t)[Len(s) + i] = t[i]
  BY SMT
<1>2. ASSUME Before(s, x, y) PROVE Before(s \o t, x, y)
  <2>1. PICK i \in 1..Len(s), j \in 1..Len(s) : i < j /\ s[i] = x /\ s[j] = y
    BY <1>2 DEF Before
  <2>2. i \in 1..Len(s \o t) /\ j \in 1..Len(s \o t) /\ (s \o t)[i] = x /\ (s \o t)[j] = y
    BY SMT, <1>1, <2>1
  <2> QED
    BY <2>1, <2>2 DEF Before
<1>3. ASSUME Before(t, x, y) PROVE Before(s \o t, x, y)
  <2>1. PICK i \in 1..Len(t), j \in 1..Len(t) : i < j /\ t[i] = x /\ t[j] = y
    BY <1>3 DEF Before
  <2>2. /\ Len(s) + i \in 1..Len(s \o t) /\ Len(s) + j \in 1..Len(s \o t)
        /\ (s \o t)[Len(s) + i] = x /\ (s \o t)[Len(s) + j] = y /\ Len(s) + i < Len(s) + j
    BY SMT, <1>1, <2>1
  <2> QED
    BY <2>2 DEF Before
<1>4. ASSUME x \in Range(s), y \in Range(t) PROVE Before(s \o t, x, y)
  <2>1. PICK i \in 1..Len(s) : s[i] = x
    BY <1>4, InRange
  <2>2. PICK j \in 1..Len(t) : t[j] = y
    BY <1>4, InRange
  <2>3. /\ i \in 1..Len(s \o t) /\ Len(s) + j \in 1..Len(s \o t) /\ i < Len(s) + j
        /\ (s \o t)[i] = x /\ (s \o t)[Len(s) + j] = y
    BY SMT, <1>1, <2>1, <2>2
  <2> QED
    BY <2>3 DEF Before
<1> QED
  BY <1>2, <1>3, <1>4

LEMMA BackwardsOrder ==
    ASSUME NEW A, NEW s \in Seq(A), NEW x, NEW y, Before(s, x, y)
    PROVE  Before(Backwards(s), y, x)
<1>1. PICK i \in 1..Len(s), j \in 1..Len(s) : i < j /\ s[i] = x /\ s[j] = y
  BY DEF Before
<1> DEFINE n == Len(s)
           t == Backwards(s)
<1>2. n \in Nat /\ t = [k \in 1..n |-> s[n + 1 - k]] /\ Len(t) = n
  BY SMT, BackwardsProperties DEF Backwards
<1>3. /\ n + 1 - j \in 1..n /\ n + 1 - i \in 1..n /\ n + 1 - j < n + 1 - i
      /\ n + 1 - (n + 1 - j) = j /\ n + 1 - (n + 1 - i) = i
  BY SMT, <1>1
<1> HIDE DEF t
<1>4. t[n + 1 - j] = y /\ t[n + 1 - i] = x
  BY <1>1, <1>2, <1>3
<1>5. Before(t, y, x)
  BY <1>2, <1>3, <1>4 DEF Before
<1> QED
  BY <1>5 DEF t

(* What comes after an element of the rest of a list is in the rest. *)
LEMMA SuffixOrder ==
    ASSUME NEW A, NEW s \in Seq(A), NoDup(s), NEW n \in 0..Len(s), NEW x, NEW y, Before(s, x, y),
           x \in Range(SubSeq(s, n + 1, Len(s)))
    PROVE  Before(SubSeq(s, n + 1, Len(s)), x, y)
<1> DEFINE b == SubSeq(s, n + 1, Len(s))
<1>1. b \in Seq(A) /\ Len(b) = Len(s) - n /\ \A i \in 1 .. Len(s) - n : b[i] = s[n + i]
  BY SMT
<1> HIDE DEF b
<1>2. PICK i \in 1..Len(s), j \in 1..Len(s) : i < j /\ s[i] = x /\ s[j] = y
  BY DEF Before
<1>3. PICK k \in 1..Len(b) : b[k] = x
  BY <1>1, InRange DEF b
<1>4. n + k = i
  <2>1. n + k \in 1..Len(s) /\ s[n + k] = s[i]
    BY SMT, <1>1, <1>2, <1>3
  <2> QED
    BY <2>1 DEF NoDup
<1>5. k < j - n /\ j - n \in 1..Len(b) /\ b[j - n] = y
  BY SMT, <1>1, <1>2, <1>3, <1>4
<1>6. Before(b, x, y)
  BY <1>3, <1>5 DEF Before
<1> QED
  BY <1>6 DEF b

-------------------------------------------------------------------------------
(* Adding to and taking from a list. *)

LEMMA Single ==
    ASSUME NEW A, NEW x \in A
    PROVE  << x >> \in Seq(A) /\ Range(<< x >>) = {x} /\ NoDup(<< x >>) /\ Len(<< x >>) = 1
BY SMT DEF Range, NoDup

LEMMA AppendFacts ==
    ASSUME NEW A, NEW s \in Seq(A), NEW x \in A
    PROVE  /\ Append(s, x) \in Seq(A) /\ Range(Append(s, x)) = Range(s) \cup {x}
           /\ NoDup(s) /\ x \notin Range(s) => NoDup(Append(s, x))
<1> DEFINE t == << x >>
<1>1. Append(s, x) = s \o t /\ Append(s, x) \in Seq(A)
  BY SMT
<1>2. t \in Seq(A) /\ Range(t) = {x} /\ NoDup(t)
  BY Single
<1> HIDE DEF t
<1>3. Range(s \o t) = Range(s) \cup {x}
  BY SMT, <1>2, RangeConcat
<1>4. ASSUME NoDup(s), x \notin Range(s) PROVE NoDup(s \o t)
  <2>1. Range(s) \cap Range(t) = {}
    BY <1>2, <1>4
  <2> QED
    BY <1>2, <1>4, <2>1, NoDupConcat
<1> QED
  BY <1>1, <1>3, <1>4

LEMMA HeadTail ==
    ASSUME NEW A, NEW s \in Seq(A), s # << >>
    PROVE  /\ Head(s) \in A /\ Head(s) \in Range(s) /\ Tail(s) \in Seq(A)
           /\ s = << Head(s) >> \o Tail(s)
           /\ NoDup(s) => /\ NoDup(Tail(s)) /\ Range(Tail(s)) = Range(s) \ {Head(s)}
<1> USE SMT
<1>1. /\ Len(s) \in Nat \ {0} /\ Head(s) = s[1] /\ Len(Tail(s)) = Len(s) - 1 /\ Tail(s) \in Seq(A)
      /\ \A i \in 1 .. Len(s) - 1 : Tail(s)[i] = s[i + 1]
  OBVIOUS
<1>2. Head(s) \in A /\ Head(s) \in Range(s) /\ s = << Head(s) >> \o Tail(s)
  BY <1>1, InRange
<1>3. ASSUME NoDup(s) PROVE NoDup(Tail(s)) /\ Range(Tail(s)) = Range(s) \ {Head(s)}
  <2>1. NoDup(Tail(s))
    BY <1>1, <1>3 DEF NoDup
  <2>2. Range(s) = Range(<< Head(s) >>) \cup Range(Tail(s))
    <3> DEFINE h == << Head(s) >>
               t == Tail(s)
    <3>1. h \in Seq(A) /\ t \in Seq(A) /\ s = h \o t
      BY Zenon, <1>1, <1>2, Single
    <3> HIDE DEF h, t
    <3>2. Range(h \o t) = Range(h) \cup Range(t)
      BY <3>1, RangeConcat
    <3>3. Range(s) = Range(h) \cup Range(t)
      BY Zenon, <3>1, <3>2
    <3> QED
      BY Zenon, <3>3 DEF h, t
  <2>3. Head(s) \notin Range(Tail(s))
    <3> SUFFICES ASSUME Head(s) \in Range(Tail(s)) PROVE FALSE
      BY Zenon
    <3>1. PICK i \in 1 .. Len(Tail(s)) : Tail(s)[i] = Head(s)
      BY Zenon, <1>1, InRange
    <3> QED
      BY <3>1, <1>1, <1>3 DEF NoDup
  <2> QED
    BY <2>1, <2>2, <2>3, <1>2, Single
<1> QED
  BY <1>1, <1>2, <1>3

================================================================================
