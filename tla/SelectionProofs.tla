--------------------------- MODULE SelectionProofs ---------------------------
(***************************************************************************)
(* What a filter keeps, and induction over numbers and sequences.          *)
(***************************************************************************)
EXTENDS Selection, Integers, FiniteSetTheorems, WellFoundedInduction, TLAPS

\* Induction, for a set.
LEMMA Induction ==
  ASSUME NEW S \in SUBSET Nat, 0 \in S, \A n \in S : n + 1 \in S
  PROVE  \A n \in Nat : n \in S
<1> SUFFICES ASSUME Nat \ S # {} PROVE FALSE
  OBVIOUS
<1>1. PICK m \in Nat \ S : \A k \in Nat \ S : <<k, m>> \notin OpToRel(<, Nat)
  BY WFMin, NatLessThanWellFounded, Zenon
<1>2. \A k \in Nat \ S : ~(k < m)
  BY <1>1, Zenon DEF OpToRel
<1>3. m # 0 /\ m - 1 \in Nat
  OBVIOUS
<1>4. m - 1 \in S
  BY <1>2, <1>3
<1> QED
  BY <1>3, <1>4

\* What Kept(s, T) has made of the first n elements of s.
KeptUpTo(f, s, T, n) ==
  f = [i \in 0..n |->
         IF i = 0 THEN <<>>
         ELSE IF s[i] \in T THEN Append(f[i - 1], s[i]) ELSE f[i - 1]]

\* The recursion that defines Kept(s, T) has a solution.
LEMMA KeptExists ==
  ASSUME NEW s, NEW T PROVE \A n \in Nat : \E f : KeptUpTo(f, s, T, n)
<1> DEFINE S == {n \in Nat : \E f : KeptUpTo(f, s, T, n)}
<1>1. 0 \in S
  <2> DEFINE g == [i \in 0..0 |-> <<>>]
  <2>1. KeptUpTo(g, s, T, 0)
    BY DEF KeptUpTo
  <2> QED
    BY <2>1
<1>2. ASSUME NEW n \in S PROVE n + 1 \in S
  <2>1. PICK f : KeptUpTo(f, s, T, n)
    OBVIOUS
  <2> DEFINE g == [i \in 0..(n + 1) |->
                     IF i = n + 1
                     THEN IF s[n + 1] \in T THEN Append(f[n], s[n + 1]) ELSE f[n]
                     ELSE f[i]]
  <2>2. \A i \in 0..n : g[i] = f[i]
    OBVIOUS
  <2>3. \A i \in 0..(n + 1) :
          g[i] = IF i = 0 THEN <<>>
                 ELSE IF s[i] \in T THEN Append(g[i - 1], s[i]) ELSE g[i - 1]
    <3> SUFFICES ASSUME NEW i \in 0..(n + 1)
                 PROVE  g[i] = IF i = 0 THEN <<>>
                               ELSE IF s[i] \in T THEN Append(g[i - 1], s[i]) ELSE g[i - 1]
      OBVIOUS
    <3>1. CASE i = n + 1
      <4>1. g[i - 1] = f[n]
        BY <3>1, <2>2
      <4> QED
        BY <3>1, <4>1
    <3>2. CASE i \in 0..n
      <4>1. f[i] = IF i = 0 THEN <<>>
                   ELSE IF s[i] \in T THEN Append(f[i - 1], s[i]) ELSE f[i - 1]
        BY <2>1, <3>2 DEF KeptUpTo
      <4>2. i # 0 => g[i - 1] = f[i - 1]
        BY <2>2, <3>2
      <4> QED
        BY <2>2, <3>2, <4>1, <4>2
    <3> QED
      BY <3>1, <3>2
  <2>4. KeptUpTo(g, s, T, n + 1)
    <3> HIDE DEF g
    <3>1. g = [i \in 0..(n + 1) |-> g[i]]
      BY DEF g
    <3> QED
      BY <2>3, <3>1 DEF KeptUpTo
  <2> QED
    BY <2>4
<1> HIDE DEF S
<1>3. \A n \in Nat : n \in S
  <2>1. S \in SUBSET Nat
    BY DEF S
  <2> QED
    BY <1>1, <1>2, <2>1, Induction
<1> QED
  BY <1>3 DEF S

\* Kept(s, T) is what the recursion arrives at.
LEMMA KeptRecursion ==
  ASSUME NEW X, NEW s \in Seq(X), NEW T
  PROVE  \E f : KeptUpTo(f, s, T, Len(s)) /\ Kept(s, T) = f[Len(s)]
<1>1. \E f : KeptUpTo(f, s, T, Len(s))
  <2>1. Len(s) \in Nat
    OBVIOUS
  <2> QED
    BY <2>1, KeptExists, Zenon
<1>2. Kept(s, T) = (CHOOSE f : KeptUpTo(f, s, T, Len(s)))[Len(s)]
  BY Zenon DEF Kept, KeptUpTo
<1> QED
  BY <1>1, <1>2, Zenon

\* r has the elements among the first n of s that are in T.
KeepsOf(r, s, X, T, n) ==
  /\ r \in Seq(X) /\ Len(r) <= n
  /\ \A k \in 1..Len(r) : r[k] \in T /\ \E i \in 1..n : s[i] = r[k]
  /\ \A i \in 1..n : s[i] \in T => \E k \in 1..Len(r) : r[k] = s[i]
  /\ (\A i, j \in 1..Len(s) : s[i] = s[j] => i = j)
       => \A k, l \in 1..Len(r) : r[k] = r[l] => k = l

\* One more element, kept or not.
LEMMA KeepsMore ==
  ASSUME NEW X, NEW s \in Seq(X), NEW T, NEW n \in Nat, n + 1 <= Len(s), s[n + 1] \in T,
         NEW r, KeepsOf(r, s, X, T, n)
  PROVE  KeepsOf(Append(r, s[n + 1]), s, X, T, n + 1)
<1> DEFINE m == Len(r)
           a == Append(r, s[n + 1])
<1>1. s[n + 1] \in X /\ r \in Seq(X) /\ m \in Nat /\ m <= n /\ Len(s) \in Nat
  BY DEF KeepsOf
<1>2. /\ a \in Seq(X) /\ Len(a) = m + 1 /\ a[m + 1] = s[n + 1]
      /\ \A k \in 1..m : a[k] = r[k]
  BY <1>1
<1>3. \A k \in 1..m : r[k] \in T /\ \E i \in 1..n : s[i] = r[k]
  BY DEF KeepsOf
<1>4. \A k \in 1..(m + 1) : k = m + 1 \/ k \in 1..m
  BY <1>1
<1> HIDE DEF m, a
<1>5. ASSUME NEW k \in 1..Len(a) PROVE a[k] \in T /\ \E i \in 1..(n + 1) : s[i] = a[k]
  <2>1. CASE k = m + 1
    BY <1>1, <1>2, <2>1
  <2>2. CASE k \in 1..m
    <3>1. PICK i \in 1..n : s[i] = r[k]
      BY <1>3, <2>2
    <3>2. i \in 1..(n + 1)
      OBVIOUS
    <3> QED
      BY <1>2, <1>3, <2>2, <3>1, <3>2
  <2> QED
    BY <1>2, <1>4, <2>1, <2>2
<1>6. ASSUME NEW i \in 1..(n + 1), s[i] \in T PROVE \E k \in 1..Len(a) : a[k] = s[i]
  <2>1. CASE i = n + 1
    <3>1. m + 1 \in 1..Len(a)
      BY <1>1, <1>2
    <3> QED
      BY <1>2, <2>1, <3>1
  <2>2. CASE i \in 1..n
    <3>1. PICK k \in 1..m : r[k] = s[i]
      BY <1>6, <2>2 DEF m, KeepsOf
    <3>2. k \in 1..Len(a)
      BY <1>1, <1>2
    <3> QED
      BY <1>2, <3>1, <3>2
  <2> QED
    BY <2>1, <2>2
<1>7. ASSUME \A i, j \in 1..Len(s) : s[i] = s[j] => i = j,
             NEW k \in 1..Len(a), NEW l \in 1..Len(a), a[k] = a[l]
      PROVE  k = l
  <2>1. \A q \in 1..m : r[q] # s[n + 1]
    <3> SUFFICES ASSUME NEW q \in 1..m, r[q] = s[n + 1] PROVE FALSE
      OBVIOUS
    <3>1. PICK i \in 1..n : s[i] = s[n + 1]
      BY <1>3
    <3>2. i \in 1..Len(s) /\ n + 1 \in 1..Len(s) /\ i # n + 1
      BY <1>1
    <3> QED
      BY <1>7, <3>1, <3>2
  <2>2. \A q, t \in 1..m : r[q] = r[t] => q = t
    BY <1>7 DEF m, KeepsOf
  <2> QED
    BY <1>2, <1>4, <1>7, <2>1, <2>2
<1>8. Len(a) <= n + 1
  BY <1>1, <1>2
<1>9. KeepsOf(a, s, X, T, n + 1)
  BY <1>2, <1>5, <1>6, <1>7, <1>8 DEF KeepsOf
<1> QED
  BY <1>9 DEF a

\* Kept(s, T) has the elements of s that are in T, each as often as s has them.
LEMMA KeptOf ==
  ASSUME NEW X, NEW s \in Seq(X), NEW T
  PROVE  KeepsOf(Kept(s, T), s, X, T, Len(s))
<1>1. PICK f : KeptUpTo(f, s, T, Len(s)) /\ Kept(s, T) = f[Len(s)]
  BY KeptRecursion
<1> DEFINE S == {n \in Nat : n <= Len(s) => KeepsOf(f[n], s, X, T, n)}
<1>2. 0 \in S
  <2>1. f[0] = <<>>
    BY <1>1 DEF KeptUpTo
  <2>2. KeepsOf(<<>>, s, X, T, 0)
    BY DEF KeepsOf
  <2> QED
    BY <2>1, <2>2
<1>3. ASSUME NEW n \in S PROVE n + 1 \in S
  <2> SUFFICES ASSUME n + 1 <= Len(s) PROVE KeepsOf(f[n + 1], s, X, T, n + 1)
    OBVIOUS
  <2>1. n \in Nat /\ Len(s) \in Nat
    OBVIOUS
  <2>2. KeepsOf(f[n], s, X, T, n)
    BY <2>1
  <2> HIDE DEF S
  <2>3. f[n + 1] = IF s[n + 1] \in T THEN Append(f[n], s[n + 1]) ELSE f[n]
    <3>1. n + 1 \in 0..Len(s) /\ n + 1 # 0 /\ (n + 1) - 1 = n
      BY <2>1
    <3>2. \A i \in 0..Len(s) :
            f[i] = IF i = 0 THEN <<>>
                   ELSE IF s[i] \in T THEN Append(f[i - 1], s[i]) ELSE f[i - 1]
      BY <1>1 DEF KeptUpTo
    <3> QED
      BY <3>1, <3>2
  <2>4. CASE s[n + 1] \notin T
    <3>1. \A i \in 1..(n + 1) : s[i] \in T => i \in 1..n
      BY <2>1, <2>4
    <3>2. \A i \in 1..n : i \in 1..(n + 1)
      BY <2>1
    <3>3. KeepsOf(f[n], s, X, T, n + 1)
      BY <2>1, <2>2, <3>1, <3>2 DEF KeepsOf
    <3> QED
      BY <2>3, <2>4, <3>3
  <2>5. CASE s[n + 1] \in T
    BY <2>1, <2>2, <2>3, <2>5, KeepsMore
  <2> QED
    BY <2>4, <2>5
<1>4. KeepsOf(f[Len(s)], s, X, T, Len(s))
  <2>1. S \in SUBSET Nat
    OBVIOUS
  <2> HIDE DEF S
  <2>2. \A n \in Nat : n \in S
    BY <1>2, <1>3, <2>1, Induction
  <2>3. Len(s) \in S /\ Len(s) <= Len(s)
    BY <2>2
  <2> QED
    BY <2>3 DEF S
<1> QED
  BY <1>1, <1>4
=============================================================================
