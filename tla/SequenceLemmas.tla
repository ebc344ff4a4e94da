--------------------------- MODULE SequenceLemmas ---------------------------
(***************************************************************************)
(* Sequences without repetitions, which model the lists and ordered          *)
(* dictionaries of the caches: what taking an element out, an element in     *)
(* front and an element at the end do to the set and to the order of the     *)
(* elements.                                                                *)
(***************************************************************************)
EXTENDS Integers, FiniteSets, Sequences, Functions, FiniteSetTheorems, WellFoundedInduction,
        TLAPS

Distinct(s) == \A i, j \in 1..Len(s) : s[i] = s[j] => i = j

\* The sequence without its i-th element.
Cut(s, i) == SubSeq(s, 1, i - 1) \o SubSeq(s, i + 1, Len(s))

\* Cut leaves the other elements in their order.
LEMMA CutIs ==
  ASSUME NEW S, NEW s \in Seq(S), NEW i \in 1..Len(s)
  PROVE  LET t == Cut(s, i) IN
         /\ t \in Seq(S) /\ Len(t) = Len(s) - 1
         /\ \A j \in 1..Len(t) : t[j] = IF j < i THEN s[j] ELSE s[j + 1]
<1> DEFINE a == SubSeq(s, 1, i - 1)
           b == SubSeq(s, i + 1, Len(s))
<1>0. Len(s) \in Nat /\ i \in Int /\ i - 1 \in Int /\ i + 1 \in Int /\ \A j \in 1..Len(s) : s[j] \in S
  OBVIOUS
<1>1. Cut(s, i) = a \o b
  BY DEF Cut
<1>2. a \in Seq(S) /\ Len(a) = i - 1 /\ \A j \in 1..(i - 1) : a[j] = s[j]
  BY <1>0
<1>3. b \in Seq(S) /\ Len(b) = Len(s) - i /\ \A j \in 1..(Len(s) - i) : b[j] = s[i + j]
  BY <1>0
<1> HIDE DEF a, b
<1>4. /\ a \o b \in Seq(S) /\ Len(a \o b) = Len(a) + Len(b)
      /\ \A j \in 1..(Len(a) + Len(b)) : (a \o b)[j] = IF j <= Len(a) THEN a[j] ELSE b[j - Len(a)]
  <2>1. a \in Seq(S) /\ b \in Seq(S)
    BY <1>2, <1>3
  <2> QED  BY <2>1
<1>5. Len(a \o b) = Len(s) - 1
  BY <1>0, <1>2, <1>3, <1>4
<1>6. ASSUME NEW j \in 1..(Len(s) - 1) PROVE (a \o b)[j] = IF j < i THEN s[j] ELSE s[j + 1]
  <2>1. (a \o b)[j] = IF j <= i - 1 THEN a[j] ELSE b[j - (i - 1)]
    BY <1>0, <1>2, <1>3, <1>4
  <2>2. CASE j < i
    BY <1>0, <1>2, <2>1, <2>2
  <2>3. CASE ~(j < i)
    <3>1. j - (i - 1) \in 1..(Len(s) - i) /\ i + (j - (i - 1)) = j + 1 /\ ~(j <= i - 1)
      BY <1>0, <2>3
    <3> QED  BY <1>3, <2>1, <2>3, <3>1
  <2> QED  BY <2>2, <2>3, Zenon
<1> QED  BY <1>1, <1>4, <1>5, <1>6, Zenon

\* What Cut leaves has no repetitions and all elements but one.
LEMMA CutSet ==
  ASSUME NEW S, NEW s \in Seq(S), Distinct(s), NEW i \in 1..Len(s)
  PROVE  LET t == Cut(s, i) IN
         t \in Seq(S) /\ Distinct(t) /\ Range(t) = Range(s) \ {s[i]}
<1> DEFINE t == Cut(s, i)
           k == s[i]
<1>2. /\ t \in Seq(S) /\ Len(t) = Len(s) - 1
      /\ \A j \in 1..Len(t) : t[j] = IF j < i THEN s[j] ELSE s[j + 1]
  BY CutIs
<1> HIDE DEF t
<1>3. Distinct(t)
  <2>1. SUFFICES ASSUME NEW a \in 1..Len(t), NEW b \in 1..Len(t), t[a] = t[b] PROVE a = b
    BY DEF Distinct
  <2> DEFINE m == IF a < i THEN a ELSE a + 1
             n == IF b < i THEN b ELSE b + 1
  <2>2. m \in 1..Len(s) /\ t[a] = s[m]
    BY <1>2
  <2>3. n \in 1..Len(s) /\ t[b] = s[n]
    BY <1>2
  <2>4. m = n
    <3> HIDE DEF m, n
    <3> QED  BY <2>1, <2>2, <2>3, Zenon DEF Distinct
  <2> QED  BY <2>4
<1>4. ASSUME NEW x \in Range(t) PROVE x \in Range(s) \ {k}
  <2>1. PICK j \in 1..Len(t) : x = t[j]
    BY <1>2 DEF Range
  <2>2. PICK m \in 1..Len(s) : m # i /\ x = s[m]
    BY <1>2, <2>1
  <2> QED  BY <2>2 DEF Range, Distinct
<1>5. ASSUME NEW x \in Range(s) \ {k} PROVE x \in Range(t)
  <2>1. PICK m \in 1..Len(s) : x = s[m] /\ m # i
    BY DEF Range
  <2>2. \E j \in 1..Len(t) : x = t[j]
    <3>1. CASE m < i
      <4>1. m \in 1..Len(t) /\ t[m] = s[m]
        BY <1>2, <3>1
      <4> QED  BY <2>1, <4>1
    <3>2. CASE m > i
      <4>1. m - 1 \in 1..Len(t) /\ t[m - 1] = s[(m - 1) + 1] /\ (m - 1) + 1 = m
        BY <1>2, <3>2
      <4> QED  BY <2>1, <4>1
    <3> QED  BY <2>1, <3>1, <3>2
  <2> QED  BY <1>2, <2>2 DEF Range
<1> QED  BY <1>2, <1>3, <1>4, <1>5 DEF t

\* A new element in front.
LEMMA ConsSet ==
  ASSUME NEW S, NEW s \in Seq(S), Distinct(s), NEW k \in S, k \notin Range(s)
  PROVE  LET t == <<k>> \o s IN
         t \in Seq(S) /\ Distinct(t) /\ Range(t) = Range(s) \cup {k}
<1> DEFINE t == <<k>> \o s
<1>1. /\ t \in Seq(S) /\ Len(t) = Len(s) + 1
      /\ \A j \in 1..Len(t) : t[j] = IF j = 1 THEN k ELSE s[j - 1]
  OBVIOUS
<1> HIDE DEF t
<1>0. \A m \in 1..Len(s) : s[m] # k
  BY DEF Range
<1>2. Distinct(t)
  <2> SUFFICES ASSUME NEW a \in 1..Len(t), NEW b \in 1..Len(t), t[a] = t[b] PROVE a = b
    BY DEF Distinct
  <2>1. a = 1 \/ a - 1 \in 1..Len(s)
    BY <1>1
  <2>2. b = 1 \/ b - 1 \in 1..Len(s)
    BY <1>1
  <2>3. CASE a = 1 \/ b = 1
    BY <1>0, <1>1, <2>1, <2>2, <2>3
  <2>4. CASE a # 1 /\ b # 1
    <3>1. s[a - 1] = s[b - 1]
      BY <1>1, <2>4
    <3>2. a - 1 = b - 1
      BY <2>1, <2>2, <2>4, <3>1 DEF Distinct
    <3> QED  BY <3>2
  <2> QED  BY <2>3, <2>4
<1>3. Range(t) \subseteq Range(s) \cup {k}
  BY <1>1 DEF Range
<1>4. ASSUME NEW m \in 1..Len(s) PROVE s[m] \in Range(t)
  <2>1. m + 1 \in 1..Len(t) /\ t[m + 1] = s[(m + 1) - 1] /\ (m + 1) - 1 = m
    BY <1>1
  <2>2. DOMAIN t = 1..Len(t)
    BY <1>1
  <2> QED  BY <2>1, <2>2 DEF Range
<1>5. k \in Range(t)
  BY <1>1 DEF Range
<1>6. Range(s) = {s[m] : m \in 1..Len(s)}
  BY DEF Range
<1>7. Range(t) = Range(s) \cup {k}
  BY <1>3, <1>4, <1>5, <1>6
<1> QED  BY <1>1, <1>2, <1>7 DEF t

\* A new element at the end.
LEMMA AppendSet ==
  ASSUME NEW S, NEW s \in Seq(S), Distinct(s), NEW k \in S, k \notin Range(s)
  PROVE  LET t == Append(s, k) IN
         t \in Seq(S) /\ Distinct(t) /\ Range(t) = Range(s) \cup {k}
<1> DEFINE t == Append(s, k)
<1>1. /\ t \in Seq(S) /\ Len(t) = Len(s) + 1
      /\ \A j \in 1..Len(t) : t[j] = IF j <= Len(s) THEN s[j] ELSE k
  OBVIOUS
<1> HIDE DEF t
<1>2. Distinct(t)
  BY <1>1 DEF Distinct, Range
<1>3. Range(t) \subseteq Range(s) \cup {k}
  BY <1>1 DEF Range
<1>4. ASSUME NEW m \in 1..Len(s) PROVE s[m] \in Range(t)
  BY <1>1 DEF Range
<1>5. k \in Range(t)
  BY <1>1 DEF Range
<1> QED  BY <1>1, <1>2, <1>3, <1>4, <1>5 DEF Range, t

\* The first element leaves.
LEMMA TailSet ==
  ASSUME NEW S, NEW s \in Seq(S), Distinct(s), s # << >>
  PROVE  LET t == Tail(s) IN
         /\ t \in Seq(S) /\ Len(t) = Len(s) - 1 /\ \A j \in 1..Len(t) : t[j] = s[j + 1]
         /\ Distinct(t) /\ Range(t) = Range(s) \ {s[1]}
<1> DEFINE t == Tail(s)
<1>1. /\ t \in Seq(S) /\ Len(t) = Len(s) - 1 /\ \A j \in 1..Len(t) : t[j] = s[j + 1]
      /\ 1 \in 1..Len(s)
  OBVIOUS
<1> HIDE DEF t
<1>2. Distinct(t)
  BY <1>1 DEF Distinct
<1>3. Range(t) \subseteq Range(s) \ {s[1]}
  BY <1>1 DEF Range, Distinct
<1>4. ASSUME NEW m \in 1..Len(s), s[m] # s[1] PROVE s[m] \in Range(t)
  <2>1. m - 1 \in 1..Len(t) /\ t[m - 1] = s[(m - 1) + 1] /\ (m - 1) + 1 = m
    BY <1>1, <1>4
  <2> QED  BY <1>1, <2>1 DEF Range
<1> QED  BY <1>1, <1>2, <1>3, <1>4, SMTT(30) DEF Range, t

\* A sequence without repetitions is as long as the set of its elements is large.
LEMMA LenIsCardinality ==
  ASSUME NEW S, NEW s \in Seq(S), Distinct(s)
  PROVE  IsFiniteSet(Range(s)) /\ Cardinality(Range(s)) = Len(s)
<1>1. s \in Bijection(1..Len(s), Range(s))
  BY DEF Range, Distinct, Bijection, Injection, Surjection, IsInjective
<1>2. ExistsBijection(1..Len(s), Range(s))
  BY <1>1 DEF ExistsBijection
<1>3. Len(s) \in Nat
  OBVIOUS
<1> QED  BY <1>2, <1>3, FS_CountingElements, FS_NatBijection

\* A set of natural numbers that is not empty has a least element.
LEMMA LeastExists ==
  ASSUME NEW S \in SUBSET Nat, S # {}
  PROVE  \E x \in S : \A y \in S : x =< y
<1> DEFINE R == {ss \in Nat \X Nat : ss[1] < ss[2]}
<1>1. IsWellFoundedOn(R, Nat)
  BY NatLessThanWellFounded DEF OpToRel
<1>2. \A a, b \in Nat : a < b => <<a, b>> \in R
  OBVIOUS
<1> HIDE DEF R
<1>3. PICK x \in S : \A y \in S : ~(<<y, x>> \in R)
  BY <1>1, WFMin, Zenon
<1>4. ASSUME NEW y \in S PROVE x =< y
  <2>1. x \in Nat /\ y \in Nat
    OBVIOUS
  <2>2. ~(y < x)
    BY <1>2, <1>3, <2>1, Zenon
  <2> QED  BY <2>1, <2>2
<1> QED  BY <1>4

\* Induction up to n, for a property given by the set of the numbers that have it.
LEMMA UpTo ==
  ASSUME NEW n \in Nat, NEW S, 0 \in S, \A i \in 0..n : i < n /\ i \in S => i + 1 \in S
  PROVE  n \in S
<1> DEFINE B == {i \in 0..n : i \notin S}
<1>1. SUFFICES ASSUME B # {} PROVE FALSE
  OBVIOUS
<1>2. B \in SUBSET Nat
  OBVIOUS
<1>3. PICK b \in B : \A q \in B : b =< q
  BY <1>1, <1>2, LeastExists
<1>4. b # 0 /\ b - 1 \in 0..n /\ b - 1 \notin B
  BY <1>3
<1> QED  BY <1>3, <1>4
=============================================================================
