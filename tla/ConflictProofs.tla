---------------------------- MODULE ConflictProofs ----------------------------
(***************************************************************************)
(* Theorems about Conflict: the types, and that a start rebuilds what is   *)
(* on screen, for every set of devices and of fields, every plan, every    *)
(* number of attempts and of faults.                                       *)
(*                                                                         *)
(* The second is about users who change the task and do not delete it      *)
(* (NoDeletes).  With deletions it is false: of two edits that cross a     *)
(* deletion one may win and the other lose, and the batch is resolved as   *)
(* both (the README says where).                                           *)
(*                                                                         *)
(* The argument is about one device and one batch (InStep).  Resolving a   *)
(* conflict writes rows that are not shown, a losing remote row before the *)
(* local winner's restatement, so log and screen go through different      *)
(* states.  They meet again because the restatement sets the whole task:   *)
(* to what is on screen, or to that with the remote winners laid over it,  *)
(* and laying plain edits over a task twice is laying them once            *)
(* (Idempotent, WholeInStep).  Resolving by fields shows all it writes     *)
(* (ShownSteps), and a field that survives a lost conflict is written      *)
(* again as it is (RestatesNothing).  Of the server and the other devices  *)
(* this needs only that their rows have their types.                       *)
(***************************************************************************)
EXTENDS Conflict, SelectionProofs, SyncClockProofs

-----------------------------------------------------------------------------
(* Sequences and their recursions *)

\* Induction up to a bound, for a set.
LEMMA Upward ==
  ASSUME NEW N \in Nat, NEW S, 0 \in S, \A n \in 0..(N - 1) : n \in S => n + 1 \in S
  PROVE  \A n \in 0..N : n \in S
<1> DEFINE T == {n \in Nat : n <= N => n \in S}
<1>1. 0 \in T
  OBVIOUS
<1>2. ASSUME NEW n \in T PROVE n + 1 \in T
  OBVIOUS
<1>3. \A n \in Nat : n \in T
  <2>1. T \in SUBSET Nat
    OBVIOUS
  <2> HIDE DEF T
  <2> QED
    BY <1>1, <1>2, <2>1, Induction
<1> QED
  BY <1>3

\* What folds a sequence from x by a function has a value at every length.
IsFold(f, G, x, s) ==
  f = [n \in 0..Len(s) |-> IF n = 0 THEN x ELSE G[<<f[n - 1], s[n]>>]]

\* A fold by a function exists.
LEMMA FoldExists ==
  ASSUME NEW X, NEW Y, NEW G \in [X \X Y -> X], NEW x \in X, NEW s \in Seq(Y)
  PROVE  \E f \in [0..Len(s) -> X] : IsFold(f, G, x, s)
<1> DEFINE Is(f, n) == /\ f \in [0..n -> X] /\ f[0] = x
                       /\ \A i \in 1..n : f[i] = G[<<f[i - 1], s[i]>>]
           S == {n \in 0..Len(s) : \E f \in [0..n -> X] : Is(f, n)}
<1>1. Len(s) \in Nat /\ \A i \in 1..Len(s) : s[i] \in Y
  OBVIOUS
<1>2. 0 \in S
  <2> DEFINE g == [i \in 0..0 |-> x]
  <2>1. g \in [0..0 -> X] /\ g[0] = x /\ 1..0 = {}
    OBVIOUS
  <2>2. Is(g, 0)
    <3> HIDE DEF g
    <3> QED
      BY <2>1
  <2> HIDE DEF g, Is
  <2> QED
    BY <1>1, <2>1, <2>2
<1>3. ASSUME NEW n \in 0..(Len(s) - 1), n \in S PROVE n + 1 \in S
  <2>1. PICK f \in [0..n -> X] : Is(f, n)
    BY <1>3
  <2> DEFINE g == [i \in 0..(n + 1) |-> IF i = n + 1 THEN G[<<f[n], s[n + 1]>>] ELSE f[i]]
  <2>2. n \in 0..n /\ n + 1 \in 1..Len(s) /\ \A i \in 0..(n + 1) : i # n + 1 => i \in 0..n
    BY <1>1
  <2>3. f[n] \in X /\ s[n + 1] \in Y
    BY <1>1, <2>2
  <2>4. G[<<f[n], s[n + 1]>>] \in X
    BY <2>3
  <2>5. g \in [0..(n + 1) -> X]
    BY <2>2, <2>4
  <2>6. g[0] = x
    BY <2>1
  <2>7. ASSUME NEW i \in 1..(n + 1) PROVE g[i] = G[<<g[i - 1], s[i]>>]
    <3>1. i - 1 \in 0..n /\ i - 1 # n + 1
      OBVIOUS
    <3>2. g[i - 1] = f[i - 1]
      BY <3>1
    <3>3. CASE i = n + 1
      <4>1. g[i] = G[<<f[n], s[n + 1]>>] /\ i - 1 = n
        BY <3>3
      <4> QED
        BY <3>2, <3>3, <4>1
    <3>4. CASE i # n + 1
      <4>1. g[i] = f[i] /\ i \in 1..n
        BY <3>4
      <4> QED
        BY <2>1, <3>2, <4>1
    <3> QED
      BY <3>3, <3>4
  <2> HIDE DEF g
  <2>8. Is(g, n + 1)
    BY <2>5, <2>6, <2>7
  <2> HIDE DEF Is
  <2> QED
    BY <1>1, <2>2, <2>5, <2>8
<1>4. Len(s) \in S
  <2> HIDE DEF S
  <2>1. \A n \in 0..Len(s) : n \in S
    BY <1>1, <1>2, <1>3, Upward
  <2> QED
    BY <1>1, <2>1
<1>5. PICK f \in [0..Len(s) -> X] : Is(f, Len(s))
  BY <1>4
<1>6. \A n \in 0..Len(s) : f[n] = IF n = 0 THEN x ELSE G[<<f[n - 1], s[n]>>]
  BY <1>1, <1>5
<1>7. f = [n \in 0..Len(s) |-> IF n = 0 THEN x ELSE G[<<f[n - 1], s[n]>>]]
  BY <1>6
<1> QED
  BY <1>7 DEF IsFold

\* The set of a sequence's elements.
LEMMA ToSetOf ==
  ASSUME NEW X, NEW s \in Seq(X)
  PROVE  /\ ToSet(s) \subseteq X /\ (ToSet(s) = {} <=> s = <<>>)
         /\ \A i \in 1..Len(s) : s[i] \in ToSet(s)
         /\ \A x \in ToSet(s) : \E i \in 1..Len(s) : s[i] = x
<1>1. ToSet(s) = {s[i] : i \in 1..Len(s)}
  BY DEF ToSet
<1>2. \A i \in 1..Len(s) : s[i] \in X
  OBVIOUS
<1>3. s # <<>> => 1 \in 1..Len(s)
  OBVIOUS
<1>4. s = <<>> => 1..Len(s) = {}
  OBVIOUS
<1>5. ToSet(s) = {} <=> s = <<>>
  BY <1>1, <1>3, <1>4
<1> QED
  BY <1>1, <1>2, <1>5

\* A filter keeps what is in the set.
LEMMA KeptSet ==
  ASSUME NEW X, NEW s \in Seq(X), NEW T
  PROVE  /\ Kept(s, T) \in Seq(X) /\ Kept(s, T) \in Seq(T) /\ Kept(s, T) \in Seq(ToSet(s))
         /\ ToSet(Kept(s, T)) = ToSet(s) \cap T
<1> DEFINE r == Kept(s, T)
<1>1. KeepsOf(r, s, X, T, Len(s))
  BY KeptOf
<1>2. r \in Seq(X) /\ DOMAIN r = 1..Len(r) /\ DOMAIN s = 1..Len(s)
  BY <1>1 DEF KeepsOf
<1>3. \A k \in 1..Len(r) : r[k] \in T /\ \E i \in 1..Len(s) : s[i] = r[k]
  BY <1>1 DEF KeepsOf
<1>4. \A i \in 1..Len(s) : s[i] \in T => \E k \in 1..Len(r) : r[k] = s[i]
  BY <1>1 DEF KeepsOf
<1> HIDE DEF r
<1>5. \A k \in 1..Len(r) : r[k] \in T /\ r[k] \in ToSet(s)
  BY <1>2, <1>3 DEF ToSet
<1>6. r \in Seq(T) /\ r \in Seq(ToSet(s))
  BY <1>2, <1>5
<1>7. ToSet(r) \subseteq ToSet(s) \cap T
  BY <1>2, <1>5 DEF ToSet
<1>8. ToSet(s) \cap T \subseteq ToSet(r)
  <2> SUFFICES ASSUME NEW x \in ToSet(s), x \in T PROVE x \in ToSet(r)
    OBVIOUS
  <2>1. PICK i \in 1..Len(s) : s[i] = x
    BY ToSetOf
  <2>2. PICK k \in 1..Len(r) : r[k] = s[i]
    BY <1>4, <2>1
  <2> QED
    BY <1>2, <2>1, <2>2 DEF ToSet
<1> QED
  BY <1>2, <1>6, <1>7, <1>8 DEF r

\* A filter that keeps nothing.
LEMMA KeptNone ==
  ASSUME NEW X, NEW s \in Seq(X), NEW T, ToSet(s) \cap T = {}
  PROVE  Kept(s, T) = <<>>
<1>1. Kept(s, T) \in Seq(X) /\ ToSet(Kept(s, T)) = {}
  BY KeptSet
<1> QED
  BY <1>1, ToSetOf

\* The first and the last element that are in a set.
LEMMA FirstAndLast ==
  ASSUME NEW X, NEW s \in Seq(X), NEW T, ToSet(s) \cap T # {}
  PROVE  FirstOf(s, T) \in ToSet(s) \cap T /\ LastOf(s, T) \in ToSet(s) \cap T
<1> DEFINE r == Kept(s, T)
<1>1. r \in Seq(X) /\ ToSet(r) = ToSet(s) \cap T
  BY KeptSet
<1> HIDE DEF r
<1>2. r # <<>> /\ Len(r) \in Nat
  BY <1>1, ToSetOf
<1>3. 1 \in 1..Len(r) /\ Len(r) \in 1..Len(r)
  BY <1>1, <1>2
<1>4. r[1] \in ToSet(r) /\ r[Len(r)] \in ToSet(r)
  BY <1>1, <1>3, ToSetOf
<1> QED
  BY <1>1, <1>4 DEF FirstOf, LastOf, Last, r

\* A finite set of numbers has a greatest one.
LEMMA MaxIn ==
  ASSUME NEW S \in SUBSET Nat, IsFiniteSet(S), S # {}
  PROVE  Max(S) \in Nat
<1>1. \E m \in S : \A y \in S : m >= y
  BY FiniteMax
<1>2. Max(S) = CHOOSE m \in S : \A y \in S : m >= y
  BY DEF Max
<1>3. Max(S) \in S
  BY <1>1, <1>2
<1> QED
  BY <1>3

\* The greatest of the numbers of a sequence, and one more.
LEMMA MaxOf ==
  ASSUME NEW X, NEW s \in Seq(X), NEW g, NEW S \in SUBSET Nat, \A x \in ToSet(s) : g[x] \in S,
         \E n \in S : \A y \in S : y = n \/ \E x \in ToSet(s) : y = g[x]
  PROVE  Max(S) \in Nat
<1> PICK n \in S : \A y \in S : y = n \/ \E x \in ToSet(s) : y = g[x]
  OBVIOUS
<1> DEFINE f == [i \in 0..Len(s) |-> IF i = 0 THEN n ELSE g[s[i]]]
<1>1. ToSet(s) \subseteq X /\ Len(s) \in Nat
  BY ToSetOf
<1>2. S \in SUBSET Nat /\ S # {}
  BY <1>1
<1>3. \A i \in 0..Len(s) : f[i] \in S
  BY DEF ToSet
<1>4. \A y \in S : \E i \in 0..Len(s) : f[i] = y
  <2> SUFFICES ASSUME NEW y \in S PROVE \E i \in 0..Len(s) : f[i] = y
    OBVIOUS
  <2>1. CASE y = n
    <3>1. 0 \in 0..Len(s) /\ f[0] = y
      BY <1>1, <2>1
    <3> QED
      BY <3>1
  <2>2. CASE y # n
    <3>1. PICK x \in ToSet(s) : y = g[x]
      BY <2>2
    <3>2. PICK i \in 1..Len(s) : s[i] = x
      BY ToSetOf
    <3>3. i \in 0..Len(s) /\ f[i] = y
      BY <3>1, <3>2
    <3> QED
      BY <3>3
  <2> QED
    BY <2>1, <2>2
<1>5. IsFiniteSet(S)
  <2>1. f \in [0..Len(s) -> S]
    BY <1>3
  <2> HIDE DEF f
  <2>2. f \in Surjection(0..Len(s), S)
    BY <1>4, <2>1 DEF Surjection
  <2>3. IsFiniteSet(0..Len(s))
    BY <1>1, FS_Interval
  <2> QED
    BY <2>2, <2>3, FS_Surjection
<1> QED
  BY <1>2, <1>5, MaxIn

\* Operations of O lead from entities of E to entities of E.
Applies(E, O) == \A a \in E, b \in O : ApplyOp(a, b) \in E

\* The values on the way.
AppliedBy(f, E, e, s) ==
  /\ f \in [0..Len(s) -> E]
  /\ f[0] = e /\ \A n \in 1..Len(s) : f[n] = ApplyOp(f[n - 1], s[n])
  /\ ApplyAll(e, s) = f[Len(s)]

\* The operations of a sequence are applied one after the other.
LEMMA ApplyAllSteps ==
  ASSUME NEW E, NEW O, Applies(E, O), NEW e \in E, NEW s \in Seq(O)
  PROVE  \E f : AppliedBy(f, E, e, s)
<1> DEFINE G == [p \in E \X O |-> ApplyOp(p[1], p[2])]
           Is(f) == f = [n \in 0..Len(s) |-> IF n = 0 THEN e ELSE ApplyOp(f[n - 1], s[n])]
           g == CHOOSE f : Is(f)
<1>0. \A a \in E, b \in O : ApplyOp(a, b) \in E
  BY DEF Applies
<1>1. Len(s) \in Nat /\ \A i \in 1..Len(s) : s[i] \in O
  OBVIOUS
<1>2. \E f : Is(f)
  <2>1. G \in [E \X O -> E] /\ \A a \in E, b \in O : G[<<a, b>>] = ApplyOp(a, b)
    BY <1>0
  <2> HIDE DEF G
  <2>2. PICK f \in [0..Len(s) -> E] : IsFold(f, G, e, s)
    BY <2>1, FoldExists
  <2>3. f = [n \in 0..Len(s) |-> IF n = 0 THEN e ELSE G[<<f[n - 1], s[n]>>]]
    BY <2>2 DEF IsFold
  <2>4. ASSUME NEW n \in 0..Len(s), n # 0 PROVE G[<<f[n - 1], s[n]>>] = ApplyOp(f[n - 1], s[n])
    <3>1. n - 1 \in 0..Len(s) /\ n \in 1..Len(s)
      BY <1>1, <2>4
    <3>2. f[n - 1] \in E /\ s[n] \in O
      BY <1>1, <2>2, <3>1
    <3> QED
      BY <2>1, <3>2
  <2>5. [n \in 0..Len(s) |-> IF n = 0 THEN e ELSE G[<<f[n - 1], s[n]>>]]
        = [n \in 0..Len(s) |-> IF n = 0 THEN e ELSE ApplyOp(f[n - 1], s[n])]
    BY <2>4
  <2>6. Is(f)
    BY <2>3, <2>5
  <2> HIDE DEF Is
  <2> QED
    BY <2>6
<1>3. ApplyAll(e, s) = g[Len(s)]
  BY Zenon DEF ApplyAll
<1>4. Is(g)
  <2> HIDE DEF Is
  <2> QED
    BY <1>2
<1> HIDE DEF g
<1>5. g[0] = e /\ \A n \in 1..Len(s) : g[n] = ApplyOp(g[n - 1], s[n])
  BY <1>1, <1>4
<1>6. DOMAIN g = 0..Len(s) /\ g = [n \in 0..Len(s) |-> g[n]]
  BY <1>4
<1>7. \A n \in 0..Len(s) : n \in {k \in Nat : g[k] \in E}
  <2> DEFINE S == {k \in Nat : g[k] \in E}
  <2>1. 0 \in S
    BY <1>5
  <2>2. ASSUME NEW n \in 0..(Len(s) - 1), n \in S PROVE n + 1 \in S
    <3>1. n + 1 \in 1..Len(s) /\ (n + 1) - 1 = n /\ n + 1 \in Nat
      BY <1>1
    <3>2. g[n + 1] = ApplyOp(g[n], s[n + 1])
      BY <1>5, <3>1
    <3>3. g[n] \in E /\ s[n + 1] \in O
      BY <1>1, <2>2, <3>1
    <3> QED
      BY <1>0, <3>1, <3>2, <3>3
  <2> HIDE DEF S
  <2>3. \A n \in 0..Len(s) : n \in S
    BY <1>1, <2>1, <2>2, Upward
  <2> QED
    BY <2>3 DEF S
<1>8. g \in [0..Len(s) -> E]
  BY <1>6, <1>7
<1> QED
  BY <1>3, <1>5, <1>8 DEF AppliedBy

\* Steps of O lead from states of E to states of E.
Takes(d, E, O) == \A a \in E, b \in O : Take(d, a, b) \in E

\* The values on the way.
TakenBy(f, d, E, e, s) ==
  /\ f \in [0..Len(s) -> E]
  /\ f[0] = e /\ \A n \in 1..Len(s) : f[n] = Take(d, f[n - 1], s[n])
  /\ TakeFrom(d, e, s) = f[Len(s)]

\* The steps of a resolution are taken one after the other.
LEMMA TakeFromSteps ==
  ASSUME NEW E, NEW O, NEW d, Takes(d, E, O), NEW e \in E, NEW s \in Seq(O)
  PROVE  \E f : TakenBy(f, d, E, e, s)
<1> DEFINE G == [p \in E \X O |-> Take(d, p[1], p[2])]
           Is(f) == f = [n \in 0..Len(s) |-> IF n = 0 THEN e ELSE Take(d, f[n - 1], s[n])]
           g == CHOOSE f : Is(f)
<1>0. \A a \in E, b \in O : Take(d, a, b) \in E
  BY DEF Takes
<1>1. Len(s) \in Nat /\ \A i \in 1..Len(s) : s[i] \in O
  OBVIOUS
<1>2. \E f : Is(f)
  <2>1. G \in [E \X O -> E] /\ \A a \in E, b \in O : G[<<a, b>>] = Take(d, a, b)
    BY <1>0
  <2> HIDE DEF G
  <2>2. PICK f \in [0..Len(s) -> E] : IsFold(f, G, e, s)
    BY <2>1, FoldExists
  <2>3. f = [n \in 0..Len(s) |-> IF n = 0 THEN e ELSE G[<<f[n - 1], s[n]>>]]
    BY <2>2 DEF IsFold
  <2>4. ASSUME NEW n \in 0..Len(s), n # 0 PROVE G[<<f[n - 1], s[n]>>] = Take(d, f[n - 1], s[n])
    <3>1. n - 1 \in 0..Len(s) /\ n \in 1..Len(s)
      BY <1>1, <2>4
    <3>2. f[n - 1] \in E /\ s[n] \in O
      BY <1>1, <2>2, <3>1
    <3> QED
      BY <2>1, <3>2
  <2>5. [n \in 0..Len(s) |-> IF n = 0 THEN e ELSE G[<<f[n - 1], s[n]>>]]
        = [n \in 0..Len(s) |-> IF n = 0 THEN e ELSE Take(d, f[n - 1], s[n])]
    BY <2>4
  <2>6. Is(f)
    BY <2>3, <2>5
  <2> HIDE DEF Is
  <2> QED
    BY <2>6
<1>3. TakeFrom(d, e, s) = g[Len(s)]
  BY Zenon DEF TakeFrom
<1>4. Is(g)
  <2> HIDE DEF Is
  <2> QED
    BY <1>2
<1> HIDE DEF g
<1>5. g[0] = e /\ \A n \in 1..Len(s) : g[n] = Take(d, g[n - 1], s[n])
  BY <1>1, <1>4
<1>6. DOMAIN g = 0..Len(s) /\ g = [n \in 0..Len(s) |-> g[n]]
  BY <1>4
<1>7. \A n \in 0..Len(s) : n \in {k \in Nat : g[k] \in E}
  <2> DEFINE S == {k \in Nat : g[k] \in E}
  <2>1. 0 \in S
    BY <1>5
  <2>2. ASSUME NEW n \in 0..(Len(s) - 1), n \in S PROVE n + 1 \in S
    <3>1. n + 1 \in 1..Len(s) /\ (n + 1) - 1 = n /\ n + 1 \in Nat
      BY <1>1
    <3>2. g[n + 1] = Take(d, g[n], s[n + 1])
      BY <1>5, <3>1
    <3>3. g[n] \in E /\ s[n + 1] \in O
      BY <1>1, <2>2, <3>1
    <3> QED
      BY <1>0, <3>1, <3>2, <3>3
  <2> HIDE DEF S
  <2>3. \A n \in 0..Len(s) : n \in S
    BY <1>1, <2>1, <2>2, Upward
  <2> QED
    BY <2>3 DEF S
<1>8. g \in [0..Len(s) -> E]
  BY <1>6, <1>7
<1> QED
  BY <1>3, <1>5, <1>8 DEF TakenBy

\* Operations of O leave rows and refusals in E.
Serves(E, O) == \A a \in E, b \in O : Serve(a, b) \in E

\* The values on the way.
ServedBy(f, E, e, r, s) ==
  /\ f \in [0..Len(s) -> E]
  /\ f[0] = e /\ \A n \in 1..Len(s) : f[n] = Serve(f[n - 1], s[n])
  /\ Served(r, s) = f[Len(s)]

\* The server takes the operations of an upload one after the other.
LEMMA ServedSteps ==
  ASSUME NEW E, NEW O, NEW r, Serves(E, O), NEW e \in E, e = [rows |-> r, refused |-> <<>>], NEW s \in Seq(O)
  PROVE  \E f : ServedBy(f, E, e, r, s)
<1> DEFINE G == [p \in E \X O |-> Serve(p[1], p[2])]
           Is(f) == f = [n \in 0..Len(s) |-> IF n = 0 THEN e ELSE Serve(f[n - 1], s[n])]
           g == CHOOSE f : Is(f)
<1>0. \A a \in E, b \in O : Serve(a, b) \in E
  BY DEF Serves
<1>1. Len(s) \in Nat /\ \A i \in 1..Len(s) : s[i] \in O
  OBVIOUS
<1>2. \E f : Is(f)
  <2>1. G \in [E \X O -> E] /\ \A a \in E, b \in O : G[<<a, b>>] = Serve(a, b)
    BY <1>0
  <2> HIDE DEF G
  <2>2. PICK f \in [0..Len(s) -> E] : IsFold(f, G, e, s)
    BY <2>1, FoldExists
  <2>3. f = [n \in 0..Len(s) |-> IF n = 0 THEN e ELSE G[<<f[n - 1], s[n]>>]]
    BY <2>2 DEF IsFold
  <2>4. ASSUME NEW n \in 0..Len(s), n # 0 PROVE G[<<f[n - 1], s[n]>>] = Serve(f[n - 1], s[n])
    <3>1. n - 1 \in 0..Len(s) /\ n \in 1..Len(s)
      BY <1>1, <2>4
    <3>2. f[n - 1] \in E /\ s[n] \in O
      BY <1>1, <2>2, <3>1
    <3> QED
      BY <2>1, <3>2
  <2>5. [n \in 0..Len(s) |-> IF n = 0 THEN e ELSE G[<<f[n - 1], s[n]>>]]
        = [n \in 0..Len(s) |-> IF n = 0 THEN e ELSE Serve(f[n - 1], s[n])]
    BY <2>4
  <2>6. Is(f)
    BY <2>3, <2>5
  <2> HIDE DEF Is
  <2> QED
    BY <2>6
<1>3. Served(r, s) = g[Len(s)]
  BY Zenon DEF Served
<1>4. Is(g)
  <2> HIDE DEF Is
  <2> QED
    BY <1>2
<1> HIDE DEF g
<1>5. g[0] = e /\ \A n \in 1..Len(s) : g[n] = Serve(g[n - 1], s[n])
  BY <1>1, <1>4
<1>6. DOMAIN g = 0..Len(s) /\ g = [n \in 0..Len(s) |-> g[n]]
  BY <1>4
<1>7. \A n \in 0..Len(s) : n \in {k \in Nat : g[k] \in E}
  <2> DEFINE S == {k \in Nat : g[k] \in E}
  <2>1. 0 \in S
    BY <1>5
  <2>2. ASSUME NEW n \in 0..(Len(s) - 1), n \in S PROVE n + 1 \in S
    <3>1. n + 1 \in 1..Len(s) /\ (n + 1) - 1 = n /\ n + 1 \in Nat
      BY <1>1
    <3>2. g[n + 1] = Serve(g[n], s[n + 1])
      BY <1>5, <3>1
    <3>3. g[n] \in E /\ s[n + 1] \in O
      BY <1>1, <2>2, <3>1
    <3> QED
      BY <1>0, <3>1, <3>2, <3>3
  <2> HIDE DEF S
  <2>3. \A n \in 0..Len(s) : n \in S
    BY <1>1, <2>1, <2>2, Upward
  <2> QED
    BY <2>3 DEF S
<1>8. g \in [0..Len(s) -> E]
  BY <1>6, <1>7
<1> QED
  BY <1>3, <1>5, <1>8 DEF ServedBy

\* Two sequences, one after the other.
LEMMA ConcatOf ==
  ASSUME NEW X, NEW s \in Seq(X), NEW t \in Seq(X)
  PROVE  /\ s \o t \in Seq(X) /\ Len(s \o t) = Len(s) + Len(t) /\ Len(s) \in Nat /\ Len(t) \in Nat
         /\ \A i \in 1..Len(s) : i \in 1..Len(s \o t) /\ (s \o t)[i] = s[i]
         /\ \A i \in 1..Len(t) : Len(s) + i \in 1..Len(s \o t) /\ (s \o t)[Len(s) + i] = t[i]
         /\ ToSet(s \o t) = ToSet(s) \cup ToSet(t)
<1>1. s \o t \in Seq(X) /\ Len(s \o t) = Len(s) + Len(t) /\ Len(s) \in Nat /\ Len(t) \in Nat
  OBVIOUS
<1>2. \A i \in 1..Len(s) : i \in 1..Len(s \o t) /\ (s \o t)[i] = s[i]
  OBVIOUS
<1>3. \A i \in 1..Len(t) : Len(s) + i \in 1..Len(s \o t) /\ (s \o t)[Len(s) + i] = t[i]
  OBVIOUS
<1>4. ToSet(s) \subseteq ToSet(s \o t)
  <2> SUFFICES ASSUME NEW x \in ToSet(s) PROVE x \in ToSet(s \o t)
    OBVIOUS
  <2>1. PICK i \in 1..Len(s) : s[i] = x
    BY ToSetOf
  <2> QED
    BY <1>1, <1>2, <2>1, ToSetOf
<1>5. ToSet(t) \subseteq ToSet(s \o t)
  <2> SUFFICES ASSUME NEW x \in ToSet(t) PROVE x \in ToSet(s \o t)
    OBVIOUS
  <2>1. PICK i \in 1..Len(t) : t[i] = x
    BY ToSetOf
  <2>2. Len(s) + i \in 1..Len(s \o t) /\ (s \o t)[Len(s) + i] = x
    BY <1>3, <2>1
  <2>3. \A k \in 1..Len(s \o t) : (s \o t)[k] \in ToSet(s \o t)
    BY <1>1, ToSetOf
  <2> QED
    BY <2>2, <2>3
<1>6. ToSet(s \o t) \subseteq ToSet(s) \cup ToSet(t)
  <2> SUFFICES ASSUME NEW x \in ToSet(s \o t) PROVE x \in ToSet(s) \cup ToSet(t)
    OBVIOUS
  <2>1. PICK i \in 1..Len(s \o t) : (s \o t)[i] = x
    BY <1>1, ToSetOf
  <2>2. CASE i \in 1..Len(s)
    BY <1>2, <2>1, <2>2, ToSetOf
  <2>3. CASE i \notin 1..Len(s)
    <3>1. i - Len(s) \in 1..Len(t) /\ Len(s) + (i - Len(s)) = i
      BY <1>1, <2>3
    <3>2. t[i - Len(s)] = x
      BY <1>3, <2>1, <3>1
    <3> QED
      BY <3>1, <3>2, ToSetOf
  <2> QED
    BY <2>2, <2>3
<1> QED
  BY <1>1, <1>2, <1>3, <1>4, <1>5, <1>6

\* Flattening has the elements of all parts.
LEMMA FlattenOf ==
  ASSUME NEW X, NEW ss \in Seq(Seq(X))
  PROVE  /\ FlattenSeq(ss) \in Seq(X)
         /\ \A i \in 1..Len(ss) : ToSet(ss[i]) \subseteq ToSet(FlattenSeq(ss))
<1>1. Len(ss) \in Nat /\ \A i \in 1..Len(ss) : ss[i] \in Seq(X)
  OBVIOUS
<1>2. CASE Len(ss) = 0
  <2>1. FlattenSeq(ss) = ss /\ ss = <<>>
    BY <1>2 DEF FlattenSeq
  <2> QED
    BY <1>2, <2>1
<1>3. CASE Len(ss) # 0
  <2> DEFINE G == [p \in Seq(X) \X Seq(X) |-> p[1] \o p[2]]
             Is(f) == f = [i \in 1..Len(ss) |-> IF i = 1 THEN ss[i] ELSE f[i - 1] \o ss[i]]
             g == CHOOSE f : Is(f)
             S == {n \in Nat : /\ g[n] \in Seq(X)
                               /\ \A i \in 1..n : ToSet(ss[i]) \subseteq ToSet(g[n])}
  <2>1. \E f : Is(f)
    <3>1. G \in [Seq(X) \X Seq(X) -> Seq(X)] /\ \A a, b \in Seq(X) : G[<<a, b>>] = a \o b
      <4>1. \A p \in Seq(X) \X Seq(X) : p[1] \in Seq(X) /\ p[2] \in Seq(X)
        OBVIOUS
      <4>2. \A a, b \in Seq(X) : a \o b \in Seq(X)
        OBVIOUS
      <4>3. \A p \in Seq(X) \X Seq(X) : p[1] \o p[2] \in Seq(X)
        BY <4>1, <4>2
      <4> QED
        BY <4>3
    <3>2. <<>> \in Seq(X)
      OBVIOUS
    <3> HIDE DEF G
    <3>3. PICK f \in [0..Len(ss) -> Seq(X)] : IsFold(f, G, <<>>, ss)
      BY <3>1, <3>2, FoldExists
    <3>4. \A n \in 0..Len(ss) : f[n] = IF n = 0 THEN <<>> ELSE G[<<f[n - 1], ss[n]>>]
      BY <3>3 DEF IsFold
    <3>5. ASSUME NEW n \in 1..Len(ss) PROVE f[n] = f[n - 1] \o ss[n]
      <4>1. n \in 0..Len(ss) /\ n # 0 /\ n - 1 \in 0..Len(ss)
        BY <1>1
      <4>2. f[n - 1] \in Seq(X) /\ ss[n] \in Seq(X)
        BY <1>1, <3>3, <4>1
      <4> QED
        BY <3>1, <3>4, <4>1, <4>2
    <3> DEFINE h == [i \in 1..Len(ss) |-> f[i]]
    <3>9. \A i \in 1..Len(ss) : h[i] = f[i]
      OBVIOUS
    <3>10. h = [i \in 1..Len(ss) |-> h[i]]
      OBVIOUS
    <3> HIDE DEF h
    <3>6. ASSUME NEW i \in 1..Len(ss) PROVE h[i] = IF i = 1 THEN ss[i] ELSE h[i - 1] \o ss[i]
      <4>1. CASE i = 1
        <5>4. 0 \in 0..Len(ss) /\ 1 \in 1..Len(ss) /\ 1 - 1 = 0
          BY <1>1, <1>3
        <5>1. f[0] = <<>> /\ ss[1] \in Seq(X)
          <6>1. f[0] = <<>>
            BY <3>4, <5>4
          <6>2. ss[1] \in Seq(X)
            BY <1>1, <5>4
          <6> QED
            BY <6>1, <6>2
        <5>2. f[1] = f[0] \o ss[1]
          BY <3>5, <5>4
        <5>3. f[1] = ss[1]
          BY <5>1, <5>2
        <5> QED
          BY <3>9, <4>1, <5>3
      <4>2. CASE i # 1
        <5>1. i - 1 \in 1..Len(ss)
          BY <1>1, <4>2
        <5>2. h[i] = f[i] /\ h[i - 1] = f[i - 1]
          BY <3>9, <5>1
        <5> QED
          BY <3>5, <4>2, <5>2
      <4> QED
        BY <4>1, <4>2
    <3>7. h = [i \in 1..Len(ss) |-> IF i = 1 THEN ss[i] ELSE h[i - 1] \o ss[i]]
      <4>2. [i \in 1..Len(ss) |-> h[i]] = [i \in 1..Len(ss) |-> IF i = 1 THEN ss[i] ELSE h[i - 1] \o ss[i]]
        BY <3>6
      <4> QED
        BY <3>10, <4>2
    <3>8. Is(h)
      BY <3>7
    <3> HIDE DEF Is
    <3> QED
      BY <3>8
  <2>2. FlattenSeq(ss) = g[Len(ss)]
    BY <1>3, Zenon DEF FlattenSeq
  <2>3. Is(g)
    <3> HIDE DEF Is
    <3> QED
      BY <2>1
  <2> HIDE DEF g
  <2>4. \A i \in 1..Len(ss) : g[i] = IF i = 1 THEN ss[i] ELSE g[i - 1] \o ss[i]
    BY <2>3
  <2> DEFINE N == Len(ss) - 1
             U == {n \in Nat : n + 1 \in S}
  <2>5. N \in Nat
    BY <1>1, <1>3
  <2>6. 0 \in U
    <3>1. 1 \in 1..Len(ss)
      BY <1>1, <1>3
    <3>2. g[1] = ss[1] /\ ss[1] \in Seq(X)
      BY <1>1, <2>4, <3>1
    <3>3. \A i \in 1..1 : i = 1
      OBVIOUS
    <3>4. 1 \in S
      BY <3>2, <3>3
    <3> HIDE DEF S
    <3> QED
      BY <3>4
  <2>7. ASSUME NEW n \in 0..(N - 1), n \in U PROVE n + 1 \in U
    <3> DEFINE m == n + 1
    <3>1. m \in Nat /\ m + 1 \in 1..Len(ss) /\ m + 1 # 1 /\ (m + 1) - 1 = m
      BY <1>1, <2>5
    <3>2. g[m] \in Seq(X) /\ \A i \in 1..m : ToSet(ss[i]) \subseteq ToSet(g[m])
      BY <2>7
    <3> HIDE DEF m, S
    <3>3. g[m + 1] = g[m] \o ss[m + 1] /\ ss[m + 1] \in Seq(X)
      BY <1>1, <2>4, <3>1
    <3>4. g[m + 1] \in Seq(X) /\ ToSet(g[m + 1]) = ToSet(g[m]) \cup ToSet(ss[m + 1])
      BY <3>2, <3>3, ConcatOf
    <3>5. \A i \in 1..(m + 1) : i \in 1..m \/ i = m + 1
      BY <3>1
    <3>6. \A i \in 1..(m + 1) : ToSet(ss[i]) \subseteq ToSet(g[m + 1])
      BY <3>2, <3>4, <3>5
    <3>7. m + 1 \in S
      BY <3>1, <3>4, <3>6 DEF S
    <3> QED
      BY <3>1, <3>7 DEF m
  <2>8. N \in U
    <3> HIDE DEF N, U
    <3>1. \A n \in 0..N : n \in U
      BY <2>5, <2>6, <2>7, Upward
    <3> QED
      BY <2>5, <3>1
  <2>9. Len(ss) \in S
    <3> HIDE DEF S
    <3>1. N + 1 = Len(ss)
      BY <1>1
    <3> QED
      BY <2>8, <3>1
  <2> QED
    BY <2>2, <2>9
<1> QED
  BY <1>2, <1>3

\* What follows is applied to what came before.
LEMMA ApplyAllConcat ==
  ASSUME NEW E, NEW O, Applies(E, O),
         NEW e \in E, NEW s \in Seq(O), NEW t \in Seq(O)
  PROVE  ApplyAll(e, s \o t) = ApplyAll(ApplyAll(e, s), t)
<1>1. PICK g : AppliedBy(g, E, e, s)
  BY ApplyAllSteps
<1> USE DEF AppliedBy
<1>2. /\ s \o t \in Seq(O) /\ Len(s \o t) = Len(s) + Len(t) /\ Len(s) \in Nat /\ Len(t) \in Nat
      /\ \A i \in 1..Len(s) : i \in 1..Len(s \o t) /\ (s \o t)[i] = s[i]
      /\ \A i \in 1..Len(t) : Len(s) + i \in 1..Len(s \o t) /\ (s \o t)[Len(s) + i] = t[i]
  BY ConcatOf
<1> DEFINE m == Len(s)
           u == s \o t
<1> HIDE DEF u
<1>3. PICK f : AppliedBy(f, E, e, u)
  <2> HIDE DEF AppliedBy
  <2>1. u \in Seq(O)
    BY <1>2 DEF u
  <2> QED
    BY <2>1, ApplyAllSteps
<1>4. g[m] \in E
  BY <1>1, <1>2
<1>5. PICK h : AppliedBy(h, E, g[m], t)
  <2> HIDE DEF m, AppliedBy
  <2> DEFINE b == g[m]
  <2>1. b \in E
    BY <1>4
  <2> HIDE DEF b
  <2>2. \E h : AppliedBy(h, E, b, t)
    BY <2>1, ApplyAllSteps
  <2> QED
    BY <2>2 DEF b
<1>6. \A n \in 0..m : n \in {k \in Nat : f[k] = g[k]}
  <2> DEFINE S == {k \in Nat : f[k] = g[k]}
  <2>1. 0 \in S
    BY <1>1, <1>3
  <2>2. ASSUME NEW n \in 0..(m - 1), n \in S PROVE n + 1 \in S
    <3>1. n + 1 \in 1..m /\ (n + 1) - 1 = n
      BY <1>2
    <3>2. n + 1 \in 1..Len(u) /\ u[n + 1] = s[n + 1]
      BY <1>2, <3>1 DEF u
    <3>3. f[n + 1] = ApplyOp(f[n], u[n + 1])
      BY <1>3, <3>1, <3>2
    <3>4. g[n + 1] = ApplyOp(g[n], s[n + 1])
      BY <1>1, <3>1
    <3> QED
      BY <2>2, <3>2, <3>3, <3>4
  <2> HIDE DEF S, m
  <2>3. m \in Nat
    BY <1>2 DEF m
  <2>4. \A n \in 0..m : n \in S
    BY <2>1, <2>2, <2>3, Upward
  <2> QED
    BY <2>4 DEF S
<1>7. \A n \in 0..Len(t) : n \in {k \in Nat : f[m + k] = h[k]}
  <2> DEFINE S == {k \in Nat : f[m + k] = h[k]}
  <2>1. 0 \in S
    <3>1. m \in 0..m /\ m + 0 = m
      BY <1>2
    <3> QED
      BY <1>5, <1>6, <3>1
  <2>2. ASSUME NEW n \in 0..(Len(t) - 1), n \in S PROVE n + 1 \in S
    <3>1. n + 1 \in 1..Len(t) /\ (n + 1) - 1 = n /\ m + (n + 1) - 1 = m + n
      BY <1>2
    <3>2. m + (n + 1) \in 1..Len(u) /\ u[m + (n + 1)] = t[n + 1]
      BY <1>2, <3>1 DEF u
    <3>3. f[m + (n + 1)] = ApplyOp(f[m + n], u[m + (n + 1)])
      BY <1>3, <3>1, <3>2
    <3>4. h[n + 1] = ApplyOp(h[n], t[n + 1])
      BY <1>5, <3>1
    <3> QED
      BY <2>2, <3>2, <3>3, <3>4
  <2> HIDE DEF S, m
  <2>3. Len(t) \in Nat
    BY <1>2
  <2>4. \A n \in 0..Len(t) : n \in S
    BY <2>1, <2>2, <2>3, Upward
  <2> QED
    BY <2>4 DEF S
<1>8. f[Len(u)] = h[Len(t)]
  <2>1. Len(t) \in 0..Len(t) /\ Len(u) = m + Len(t)
    BY <1>2 DEF u
  <2> QED
    BY <1>7, <2>1
<1> QED
  BY <1>1, <1>3, <1>5, <1>8 DEF u

\* None, and one of them.
LEMMA ApplyAllShort ==
  ASSUME NEW E, NEW O, Applies(E, O), NEW e \in E
  PROVE  ApplyAll(e, <<>>) = e /\ \A b \in O : ApplyAll(e, <<b>>) = ApplyOp(e, b)
<1>1. ApplyAll(e, <<>>) = e
  <2> DEFINE s == <<>>
  <2>1. s \in Seq(O) /\ Len(s) = 0
    OBVIOUS
  <2> HIDE DEF s
  <2>2. PICK f : AppliedBy(f, E, e, s)
    BY <2>1, ApplyAllSteps
  <2> QED
    BY <2>1, <2>2 DEF s, AppliedBy
<1>2. ASSUME NEW b \in O PROVE ApplyAll(e, <<b>>) = ApplyOp(e, b)
  <2> DEFINE s == <<b>>
  <2>1. s \in Seq(O) /\ Len(s) = 1 /\ s[1] = b
    OBVIOUS
  <2> HIDE DEF s
  <2> USE DEF AppliedBy
  <2>2. PICK f : AppliedBy(f, E, e, s)
    BY <2>1, ApplyAllSteps
  <2>3. f[1] = ApplyOp(f[0], s[1])
    <3>1. 1 \in 1..Len(s) /\ 1 - 1 = 0
      BY <2>1
    <3> QED
      BY <2>2, <3>1
  <2> QED
    BY <2>1, <2>2, <2>3 DEF s
<1> QED
  BY <1>1, <1>2

\* What follows is taken after what came before.
LEMMA TakeFromConcat ==
  ASSUME NEW E, NEW O, NEW d, Takes(d, E, O),
         NEW e \in E, NEW s \in Seq(O), NEW t \in Seq(O)
  PROVE  TakeFrom(d, e, s \o t) = TakeFrom(d, TakeFrom(d, e, s), t)
<1>1. PICK g : TakenBy(g, d, E, e, s)
  BY TakeFromSteps
<1> USE DEF TakenBy
<1>2. /\ s \o t \in Seq(O) /\ Len(s \o t) = Len(s) + Len(t) /\ Len(s) \in Nat /\ Len(t) \in Nat
      /\ \A i \in 1..Len(s) : i \in 1..Len(s \o t) /\ (s \o t)[i] = s[i]
      /\ \A i \in 1..Len(t) : Len(s) + i \in 1..Len(s \o t) /\ (s \o t)[Len(s) + i] = t[i]
  BY ConcatOf
<1> DEFINE m == Len(s)
           u == s \o t
<1> HIDE DEF u
<1>3. PICK f : TakenBy(f, d, E, e, u)
  <2> HIDE DEF TakenBy
  <2>1. u \in Seq(O)
    BY <1>2 DEF u
  <2> QED
    BY <2>1, TakeFromSteps
<1>4. g[m] \in E
  BY <1>1, <1>2
<1>5. PICK h : TakenBy(h, d, E, g[m], t)
  <2> HIDE DEF m, TakenBy
  <2> DEFINE b == g[m]
  <2>1. b \in E
    BY <1>4
  <2> HIDE DEF b
  <2>2. \E h : TakenBy(h, d, E, b, t)
    BY <2>1, TakeFromSteps
  <2> QED
    BY <2>2 DEF b
<1>6. \A n \in 0..m : n \in {k \in Nat : f[k] = g[k]}
  <2> DEFINE S == {k \in Nat : f[k] = g[k]}
  <2>1. 0 \in S
    BY <1>1, <1>3
  <2>2. ASSUME NEW n \in 0..(m - 1), n \in S PROVE n + 1 \in S
    <3>1. n + 1 \in 1..m /\ (n + 1) - 1 = n
      BY <1>2
    <3>2. n + 1 \in 1..Len(u) /\ u[n + 1] = s[n + 1]
      BY <1>2, <3>1 DEF u
    <3>3. f[n + 1] = Take(d, f[n], u[n + 1])
      BY <1>3, <3>1, <3>2
    <3>4. g[n + 1] = Take(d, g[n], s[n + 1])
      BY <1>1, <3>1
    <3> QED
      BY <2>2, <3>2, <3>3, <3>4
  <2> HIDE DEF S, m
  <2>3. m \in Nat
    BY <1>2 DEF m
  <2>4. \A n \in 0..m : n \in S
    BY <2>1, <2>2, <2>3, Upward
  <2> QED
    BY <2>4 DEF S
<1>7. \A n \in 0..Len(t) : n \in {k \in Nat : f[m + k] = h[k]}
  <2> DEFINE S == {k \in Nat : f[m + k] = h[k]}
  <2>1. 0 \in S
    <3>1. m \in 0..m /\ m + 0 = m
      BY <1>2
    <3> QED
      BY <1>5, <1>6, <3>1
  <2>2. ASSUME NEW n \in 0..(Len(t) - 1), n \in S PROVE n + 1 \in S
    <3>1. n + 1 \in 1..Len(t) /\ (n + 1) - 1 = n /\ m + (n + 1) - 1 = m + n
      BY <1>2
    <3>2. m + (n + 1) \in 1..Len(u) /\ u[m + (n + 1)] = t[n + 1]
      BY <1>2, <3>1 DEF u
    <3>3. f[m + (n + 1)] = Take(d, f[m + n], u[m + (n + 1)])
      BY <1>3, <3>1, <3>2
    <3>4. h[n + 1] = Take(d, h[n], t[n + 1])
      BY <1>5, <3>1
    <3> QED
      BY <2>2, <3>2, <3>3, <3>4
  <2> HIDE DEF S, m
  <2>3. Len(t) \in Nat
    BY <1>2
  <2>4. \A n \in 0..Len(t) : n \in S
    BY <2>1, <2>2, <2>3, Upward
  <2> QED
    BY <2>4 DEF S
<1>8. f[Len(u)] = h[Len(t)]
  <2>1. Len(t) \in 0..Len(t) /\ Len(u) = m + Len(t)
    BY <1>2 DEF u
  <2> QED
    BY <1>7, <2>1
<1> QED
  BY <1>1, <1>3, <1>5, <1>8 DEF u

\* None, and one of them.
LEMMA TakeFromShort ==
  ASSUME NEW E, NEW O, NEW d, Takes(d, E, O), NEW e \in E
  PROVE  TakeFrom(d, e, <<>>) = e /\ \A b \in O : TakeFrom(d, e, <<b>>) = Take(d, e, b)
<1>1. TakeFrom(d, e, <<>>) = e
  <2> DEFINE s == <<>>
  <2>1. s \in Seq(O) /\ Len(s) = 0
    OBVIOUS
  <2> HIDE DEF s
  <2>2. PICK f : TakenBy(f, d, E, e, s)
    BY <2>1, TakeFromSteps
  <2> QED
    BY <2>1, <2>2 DEF s, TakenBy
<1>2. ASSUME NEW b \in O PROVE TakeFrom(d, e, <<b>>) = Take(d, e, b)
  <2> DEFINE s == <<b>>
  <2>1. s \in Seq(O) /\ Len(s) = 1 /\ s[1] = b
    OBVIOUS
  <2> HIDE DEF s
  <2> USE DEF TakenBy
  <2>2. PICK f : TakenBy(f, d, E, e, s)
    BY <2>1, TakeFromSteps
  <2>3. f[1] = Take(d, f[0], s[1])
    <3>1. 1 \in 1..Len(s) /\ 1 - 1 = 0
      BY <2>1
    <3> QED
      BY <2>2, <3>1
  <2> QED
    BY <2>1, <2>2, <2>3 DEF s
<1> QED
  BY <1>1, <1>2

-----------------------------------------------------------------------------
(* Types *)

\* No user deletes the task.
NoDeletes == \A plan \in Plans : \A d \in Client : \A i \in DOMAIN plan[d] : plan[d][i] # {}

Kinds == {"update", "patch", "replace", "delete"}
Stamp == (Client \cup {0}) \X Nat
Task == [Field -> Stamp]
Vals == UNION {[F -> Stamp] : F \in SUBSET Field}
Entity == {e \in Task \cup {Gone} : NoDeletes => e # Gone}

\* An operation; those that replace or delete the task have all of it.
Op == {o \in [id : Client \X Nat, dev : Client, ts : Nat, kind : Kinds, vals : Vals,
              again : BOOLEAN, clock : Clock] :
         /\ o.kind \in {"replace", "delete"} => o.vals \in Task
         /\ o.again => o.kind = "replace"
         /\ NoDeletes => ~IsDelete(o) /\ ~o.again}

\* One that is in a log.
Sent == {o \in Op : o.id[2] # 0}
Row == [op : Sent, st : {"pending", "synced", "rejected", "remote"}]

\* A device's log, screen and clock.
Device == [log : Seq(Row), live : Entity, clock : Clock]

Step == {s \in [op : Op, how : {"lose", "remote", "keep", "apply"}] :
           s.how \in {"lose", "remote"} => s.op \in Sent}

\* The fields of an operation.
LEMMA OpFields ==
  ASSUME NEW o \in Op
  PROVE  /\ o.id \in Client \X Nat /\ o.dev \in Client /\ o.ts \in Nat /\ o.kind \in Kinds
         /\ o.vals \in Vals /\ o.again \in BOOLEAN /\ o.clock \in Clock
         /\ o.kind \in {"replace", "delete"} => o.vals \in Task
         /\ o.again => o.kind = "replace"
         /\ NoDeletes => ~IsDelete(o) /\ ~o.again
  BY DEF Op

\* A task is not a missing one.
LEMMA TaskIsThere == \A t \in Task : t # Gone
<1> SUFFICES ASSUME NEW t \in Task PROVE t # Gone
  OBVIOUS
<1>1. DOMAIN t = Field /\ DOMAIN Gone = {} /\ Field # {}
  BY ConflictAssumption DEF Task, Gone
<1> QED
  BY <1>1

\* Values over a task make a task.
LEMMA PutType ==
  ASSUME NEW e \in Task, NEW v \in Vals
  PROVE  Put(e, v) \in Task
<1>1. PICK F \in SUBSET Field : v \in [F -> Stamp]
  BY DEF Vals
<1>2. DOMAIN e = Field /\ DOMAIN v = F /\ Put(e, v) = [x \in Field \cup F |-> IF x \in F THEN v[x] ELSE e[x]]
  BY <1>1 DEF Put, Task
<1>3. Field \cup F = Field
  BY <1>1
<1>4. \A x \in Field : (IF x \in F THEN v[x] ELSE e[x]) \in Stamp
  BY <1>1 DEF Task
<1>5. Put(e, v) = [x \in Field |-> IF x \in F THEN v[x] ELSE e[x]]
  BY <1>2, <1>3
<1> QED
  BY <1>4, <1>5 DEF Task

\* The tasks there are to begin with.
LEMMA FirstTasks == Original \in Task /\ Defaults \in Task /\ Original \in Entity
<1>1. Original \in Task /\ Defaults \in Task
  BY DEF Original, Defaults, Task, Stamp
<1> QED
  BY <1>1, TaskIsThere DEF Entity

\* The reducers lead from entities to entities, and without deletions from tasks to tasks.
LEMMA ApplyOpType ==
  /\ Applies(Entity, Op)
  /\ Applies(Task, {o \in Op : ~IsDelete(o)})
<1>1. ASSUME NEW e \in Task \cup {Gone}, NEW o \in Op
      PROVE  /\ ApplyOp(e, o) \in Task \cup {Gone}
             /\ e \in Task /\ ~IsDelete(o) => ApplyOp(e, o) \in Task
  <2>1. e # Gone => e \in Task
    OBVIOUS
  <2>2. o.vals \in Vals /\ o.kind \in Kinds /\ (o.kind \in {"replace", "delete"} => o.vals \in Task)
    BY OpFields
  <2>3. CASE o.kind = "delete"
    BY <2>3 DEF ApplyOp, IsDelete
  <2>4. CASE o.kind = "replace"
    BY <2>2, <2>4 DEF ApplyOp
  <2>5. CASE o.kind = "update"
    <3>1. ApplyOp(e, o) = IF e = Gone THEN Gone ELSE Put(e, o.vals)
      BY <2>5 DEF ApplyOp
    <3>2. e # Gone => Put(e, o.vals) \in Task
      BY <2>1, <2>2, PutType
    <3> QED
      BY <3>1, <3>2, TaskIsThere
  <2>6. CASE o.kind = "patch"
    <3>1. ApplyOp(e, o) = Put(IF e = Gone THEN Defaults ELSE e, o.vals)
      BY <2>6 DEF ApplyOp
    <3>2. (IF e = Gone THEN Defaults ELSE e) \in Task
      BY <2>1, FirstTasks
    <3> QED
      BY <2>2, <3>1, <3>2, PutType
  <2> QED
    BY <2>2, <2>3, <2>4, <2>5, <2>6 DEF Kinds
<1>2. ASSUME NEW e \in Entity, NEW o \in Op PROVE ApplyOp(e, o) \in Entity
  <2>1. e \in Task \cup {Gone} /\ (NoDeletes => e \in Task /\ ~IsDelete(o))
    BY OpFields DEF Entity
  <2>2. ApplyOp(e, o) \in Task \cup {Gone} /\ (NoDeletes => ApplyOp(e, o) \in Task)
    BY <1>1, <2>1
  <2> QED
    BY <2>2, TaskIsThere DEF Entity
<1> QED
  BY <1>1, <1>2 DEF Applies

\* What the operations of a sequence make of an entity.
LEMMA ApplyAllType ==
  ASSUME NEW e \in Entity, NEW s \in Seq(Op)
  PROVE  ApplyAll(e, s) \in Entity
<1>1. PICK f : AppliedBy(f, Entity, e, s)
  BY ApplyOpType, ApplyAllSteps
<1> QED
  BY <1>1 DEF AppliedBy

\* Edits laid over a task make a task.
LEMMA FoldType ==
  ASSUME NEW e \in Task, NEW s \in Seq(Op)
  PROVE  Fold(e, s) \in Task
<1> DEFINE O == {o \in Op : ~IsDelete(o)}
           r == Kept(s, ToSet(s) \ Deletions(s))
<1>1. r \in Seq(O)
  <2>1. r \in Seq(ToSet(s) \ Deletions(s))
    BY KeptSet
  <2>2. ToSet(s) \ Deletions(s) \subseteq O
    BY ToSetOf DEF Deletions
  <2> HIDE DEF r, O
  <2> QED
    BY <2>1, <2>2
<1> HIDE DEF O, r
<1>2. Applies(Task, O)
  BY ApplyOpType DEF O
<1>3. PICK f : AppliedBy(f, Task, e, r)
  BY <1>1, <1>2, ApplyAllSteps
<1>4. ApplyAll(e, r) \in Task
  BY <1>3 DEF AppliedBy
<1> QED
  BY <1>4 DEF Fold, r

\* Clocks are merged and incremented to clocks.
LEMMA ClockOps ==
  ASSUME NEW v \in Clock, NEW w \in Clock, NEW d \in Client
  PROVE  Merge(v, w) \in Clock /\ Increment(v, d) \in Clock
<1>1. \A c \in Client : v[c] \in Nat /\ w[c] \in Nat
  BY DEF Clock
<1>2. Merge(v, w) \in Clock
  BY <1>1 DEF Merge, Larger, Clock
<1>3. Increment(v, d) \in Clock
  BY <1>1 DEF Increment, Clock
<1> QED
  BY <1>2, <1>3

\* The greatest timestamp is a number, a merge of clocks a clock.
LEMMA Merges ==
  ASSUME NEW X, \A x \in X : x.clock \in Clock, NEW s \in Seq(X), NEW v \in Clock
  PROVE  MergeAll(v, s) \in Clock
<1>1. ASSUME NEW c \in Client PROVE Max({v[c]} \cup {o.clock[c] : o \in ToSet(s)}) \in Nat
  <2> DEFINE g == [x \in X |-> x.clock[c]]
             n == v[c]
             S == {n} \cup {o.clock[c] : o \in ToSet(s)}
  <2>1. g \in [X -> Nat] /\ n \in Nat
    BY DEF Clock
  <2>2. ToSet(s) \subseteq X
    BY ToSetOf
  <2>3. /\ n \in S /\ \A x \in ToSet(s) : g[x] \in S
        /\ \A y \in S : y = n \/ \E x \in ToSet(s) : y = g[x]
    BY <2>2
  <2>4. S \in SUBSET Nat
    BY <2>1, <2>2
  <2> HIDE DEF g, n, S
  <2>5. Max(S) \in Nat
    BY <2>3, <2>4, MaxOf
  <2> QED
    BY <2>5 DEF n, S
<1>2. MergeAll(v, s) = [c \in Client |-> Max({v[c]} \cup {o.clock[c] : o \in ToSet(s)})]
  BY DEF MergeAll
<1> QED
  BY <1>1, <1>2 DEF Clock

\* The latest time among operations is a number.
LEMMA MaxTsType ==
  ASSUME NEW s \in Seq(Op)
  PROVE  MaxTs(s) \in Nat
<1> DEFINE g == [x \in Op |-> x.ts]
           S == {0} \cup {o.ts : o \in ToSet(s)}
<1>1. g \in [Op -> Nat]
  BY OpFields
<1>2. ToSet(s) \subseteq Op
  BY ToSetOf
<1>3. /\ 0 \in S /\ \A x \in ToSet(s) : g[x] \in S
      /\ \A y \in S : y = 0 \/ \E x \in ToSet(s) : y = g[x]
  BY <1>2
<1>4. S \in SUBSET Nat
  BY <1>1, <1>2
<1> HIDE DEF g, S
<1>5. Max(S) \in Nat
  BY <1>3, <1>4, MaxOf
<1> QED
  BY <1>5 DEF MaxTs, S

\* What merges the clocks of operations, and what is above them, are clocks.
LEMMA OpMerges ==
  ASSUME NEW s \in Seq(Op), NEW v \in Clock, NEW d \in Client
  PROVE  MergeAll(v, s) \in Clock /\ Above(d, s) \in Clock
<1>1. \A x \in Op : x.clock \in Clock
  BY OpFields
<1>2. EmptyClock \in Clock
  BY DEF EmptyClock, Clock
<1>3. MergeAll(v, s) \in Clock /\ MergeAll(EmptyClock, s) \in Clock
  BY <1>1, <1>2, Merges
<1> QED
  BY <1>3, ClockOps DEF Above

\* A new operation.
LEMMA NewOpType ==
  ASSUME NEW d \in Client, NEW k \in Kinds, NEW vals \in Vals, NEW ts \in Nat, NEW again \in BOOLEAN,
         NEW v \in Clock, k \in {"replace", "delete"} => vals \in Task,
         again => k = "replace", NoDeletes => k # "delete" /\ ~again
  PROVE  NewOp(d, k, vals, ts, again, v) \in Op
<1> DEFINE o == NewOp(d, k, vals, ts, again, v)
<1>1. o = [id |-> <<d, 0>>, dev |-> d, ts |-> ts, kind |-> k, vals |-> vals, again |-> again, clock |-> v]
  BY DEF NewOp
<1>2. /\ o.id \in Client \X Nat /\ o.kind = k /\ o.vals = vals /\ o.again = again
      /\ o \in [id : Client \X Nat, dev : Client, ts : Nat, kind : Kinds, vals : Vals,
                again : BOOLEAN, clock : Clock]
  BY <1>1
<1> HIDE DEF o
<1>3. o \in Op
  BY <1>2 DEF Op, IsDelete
<1> QED
  BY <1>3 DEF o

\* A whole task is what an operation may carry.
LEMMA TaskVals ==
  /\ Task \subseteq Vals
  /\ \A F \in SUBSET Field : \A g \in [F -> Stamp] : g \in Vals
  /\ \A v \in Vals : DOMAIN v \subseteq Field /\ \A x \in DOMAIN v : v[x] \in Stamp
<1>1. Task \subseteq Vals
  BY DEF Task, Vals
<1>2. \A F \in SUBSET Field : \A g \in [F -> Stamp] : g \in Vals
  BY DEF Vals
<1>3. ASSUME NEW v \in Vals PROVE DOMAIN v \subseteq Field /\ \A x \in DOMAIN v : v[x] \in Stamp
  BY DEF Vals
<1> QED
  BY <1>1, <1>2, <1>3

\* The operations of rows.
LEMMA OpsOfType ==
  ASSUME NEW X, NEW Y, \A x \in X : x.op \in Y, NEW s \in Seq(X)
  PROVE  OpsOf(s) \in Seq(Y) /\ Len(OpsOf(s)) = Len(s) /\ \A i \in 1..Len(s) : OpsOf(s)[i] = s[i].op
<1>1. DOMAIN s = 1..Len(s) /\ Len(s) \in Nat /\ \A i \in 1..Len(s) : s[i] \in X
  OBVIOUS
<1>2. OpsOf(s) = [i \in 1..Len(s) |-> s[i].op]
  BY <1>1 DEF OpsOf
<1>3. \A i \in 1..Len(s) : s[i].op \in Y
  BY <1>1
<1> QED
  BY <1>1, <1>2, <1>3

\* Rows are operations.
LEMMA SentSeq == Sent \subseteq Op /\ Seq(Sent) \subseteq Seq(Op)
<1>1. Sent \subseteq Op
  BY DEF Sent
<1> QED
  BY <1>1

\* A row's operation.
LEMMA RowFields ==
  ASSUME NEW r \in Row
  PROVE  r.op \in Sent /\ r.op \in Op
  BY DEF Row, Sent

\* The log's operations, and those that are still to be sent.
LEMMA LogOps ==
  ASSUME NEW rows \in Seq(Row), NEW S
  PROVE  /\ OpsOf(rows) \in Seq(Sent) /\ OpsOf(rows) \in Seq(Op)
         /\ OpsWith(rows, S) \in Seq(Sent) /\ OpsWith(rows, S) \in Seq(Op)
         /\ Pending(rows) \in Seq(Sent) /\ Pending(rows) \in Seq(Op)
<1>1. ASSUME NEW s \in Seq(Row) PROVE OpsOf(s) \in Seq(Sent)
  BY RowFields, OpsOfType
<1>2. ASSUME NEW T PROVE OpsWith(rows, T) \in Seq(Sent)
  <2>1. Kept(rows, {r \in ToSet(rows) : r.st \in T}) \in Seq(Row)
    BY KeptSet
  <2> QED
    BY <1>1, <2>1 DEF OpsWith
<1> QED
  BY <1>1, <1>2, SentSeq DEF Pending

\* What a local append does.
LEMMA AppendLocalOf ==
  ASSUME NEW d \in Client, NEW v \in Device, NEW o \in Op
  PROVE  /\ AppendLocal(d, v, o) \in Device
         /\ AppendLocal(d, v, o).live = v.live
         /\ \E r \in Row : /\ AppendLocal(d, v, o).log = Append(v.log, r)
                           /\ r.op.kind = o.kind /\ r.op.vals = o.vals
<1> DEFINE own == Larger(v.clock[d] + 1, o.clock[d])
           m == Merge(v.clock, o.clock)
           c == [m EXCEPT ![d] = own]
           p == [o EXCEPT !.id = <<d, own>>, !.clock = c]
           r == [op |-> p, st |-> "pending"]
<1>1. v.clock \in Clock /\ o.clock \in Clock /\ v.log \in Seq(Row) /\ v.live \in Entity
  BY OpFields DEF Device
<1>2. own \in Nat \ {0}
  BY <1>1 DEF Clock, Larger
<1>3. m \in Clock
  BY <1>1, ClockOps
<1>4. c \in Clock
  <2> HIDE DEF own, m
  <2> QED
    BY <1>2, <1>3 DEF Clock
<1>5. AppendLocal(d, v, o) = [v EXCEPT !.log = Append(@, r), !.clock = c]
  BY DEF AppendLocal
<1> HIDE DEF own, m, c
<1>6. /\ p.id = <<d, own>> /\ p.clock = c /\ p.kind = o.kind /\ p.vals = o.vals /\ p.again = o.again
      /\ p \in [id : Client \X Nat, dev : Client, ts : Nat, kind : Kinds, vals : Vals,
                again : BOOLEAN, clock : Clock]
  BY <1>2, <1>4 DEF Op
<1>7. p \in Sent
  <2> HIDE DEF p
  <2>1. p \in Op
    BY <1>6, OpFields DEF Op, IsDelete
  <2> QED
    BY <1>2, <1>6, <2>1 DEF Sent
<1>8. r \in Row /\ r.op = p
  <2> HIDE DEF p
  <2> QED
    BY <1>7 DEF Row
<1> HIDE DEF p, r
<1>9. Append(v.log, r) \in Seq(Row)
  BY <1>1, <1>8
<1>10. /\ AppendLocal(d, v, o) \in Device
       /\ AppendLocal(d, v, o).live = v.live
       /\ AppendLocal(d, v, o).log = Append(v.log, r)
  <2> DEFINE l == Append(v.log, r)
  <2> HIDE DEF l
  <2>1. l \in Seq(Row)
    BY <1>9 DEF l
  <2>2. AppendLocal(d, v, o) = [v EXCEPT !.log = l, !.clock = c]
    BY <1>5 DEF l
  <2>3. [v EXCEPT !.log = l, !.clock = c] \in Device
    BY <1>4, <2>1 DEF Device
  <2> QED
    BY <2>2, <2>3 DEF Device, l
<1> QED
  BY <1>6, <1>8, <1>10

\* What a remote append does.
LEMMA AppendRemoteOf ==
  ASSUME NEW v \in Device, NEW o \in Sent
  PROVE  /\ AppendRemote(v, o) \in Device
         /\ AppendRemote(v, o).live = v.live
         /\ \E r \in Row : /\ AppendRemote(v, o).log = Append(v.log, r)
                           /\ r.op.kind = o.kind /\ r.op.vals = o.vals
<1> DEFINE r == [op |-> o, st |-> "remote"]
           l == Append(v.log, r)
<1>1. r \in Row /\ r.op = o
  BY DEF Row
<1>2. AppendRemote(v, o) = [v EXCEPT !.log = l]
  BY DEF AppendRemote
<1> HIDE DEF r
<1>3. l \in Seq(Row)
  BY <1>1 DEF Device
<1>4. l = Append(v.log, r)
  OBVIOUS
<1> HIDE DEF l
<1>5. [v EXCEPT !.log = l] \in Device /\ [v EXCEPT !.log = l].live = v.live /\ [v EXCEPT !.log = l].log = l
  BY <1>3 DEF Device
<1> QED
  BY <1>1, <1>2, <1>4, <1>5

\* One step of a resolution: a row for the operation, and what is shown.
LEMMA TakeOf ==
  ASSUME NEW d \in Client, NEW v \in Device, NEW s \in Step
  PROVE  /\ Take(d, v, s) \in Device
         /\ Take(d, v, s).live = IF s.how \in {"remote", "apply"} THEN ApplyOp(v.live, s.op) ELSE v.live
         /\ \E r \in Row : /\ Take(d, v, s).log = Append(v.log, r)
                           /\ r.op.kind = s.op.kind /\ r.op.vals = s.op.vals
<1> DEFINE w == IF s.how \in {"lose", "remote"} THEN AppendRemote(v, s.op) ELSE AppendLocal(d, v, s.op)
           shown == IF s.how \in {"remote", "apply"} THEN ApplyOp(v.live, s.op) ELSE v.live
<1>1. s.op \in Op /\ (s.how \in {"lose", "remote"} => s.op \in Sent)
  BY DEF Step
<1>2. /\ w \in Device /\ w.live = v.live
      /\ \E r \in Row : w.log = Append(v.log, r) /\ r.op.kind = s.op.kind /\ r.op.vals = s.op.vals
  <2>1. CASE s.how \in {"lose", "remote"}
    BY <1>1, <2>1, AppendRemoteOf
  <2>2. CASE s.how \notin {"lose", "remote"}
    BY <1>1, <2>2, AppendLocalOf
  <2> QED
    BY <2>1, <2>2
<1>3. shown \in Entity
  <2>1. v.live \in Entity
    BY DEF Device
  <2>2. ApplyOp(v.live, s.op) \in Entity
    BY <1>1, <2>1, ApplyOpType DEF Applies
  <2> QED
    BY <2>1, <2>2
<1>4. Take(d, v, s) = [w EXCEPT !.live = shown]
  <2>1. Take(d, v, s) = [w EXCEPT !.live = IF s.how \in {"remote", "apply"} THEN ApplyOp(@, s.op) ELSE @]
    BY DEF Take
  <2> HIDE DEF w
  <2>2. [w EXCEPT !.live = IF s.how \in {"remote", "apply"} THEN ApplyOp(@, s.op) ELSE @]
        = [w EXCEPT !.live = shown]
    BY <1>2 DEF Device
  <2> QED
    BY <2>1, <2>2
<1> HIDE DEF w
<1>5. [w EXCEPT !.live = shown] \in Device /\ [w EXCEPT !.live = shown].live = shown
      /\ [w EXCEPT !.live = shown].log = w.log
  <2> HIDE DEF shown
  <2> QED
    BY <1>2, <1>3 DEF Device
<1> QED
  BY <1>2, <1>4, <1>5

\* Appending to a sequence.
LEMMA AppendOf ==
  ASSUME NEW X, NEW s \in Seq(X), NEW x \in X
  PROVE  /\ Append(s, x) \in Seq(X) /\ Append(s, x) = s \o <<x>>
         /\ ToSet(Append(s, x)) = ToSet(s) \cup {x}
<1>1. Append(s, x) \in Seq(X) /\ Append(s, x) = s \o <<x>> /\ <<x>> \in Seq(X)
  OBVIOUS
<1>2. ToSet(<<x>>) = {x}
  BY DEF ToSet
<1> QED
  BY <1>1, <1>2, ConcatOf

\* A filter that keeps everything.
LEMMA KeptAll ==
  ASSUME NEW X, NEW s \in Seq(X), NEW T, ToSet(s) \subseteq T
  PROVE  Kept(s, T) = s
<1> DEFINE r == Kept(s, T)
<1>1. PICK f : KeptUpTo(f, s, T, Len(s)) /\ r = f[Len(s)]
  BY KeptRecursion
<1>2. Len(s) \in Nat /\ \A i \in 1..Len(s) : s[i] \in X /\ s[i] \in T
  BY ToSetOf
<1>9. \A i \in 0..Len(s) :
        f[i] = IF i = 0 THEN <<>>
               ELSE IF s[i] \in T THEN Append(f[i - 1], s[i]) ELSE f[i - 1]
  BY <1>1 DEF KeptUpTo
<1> HIDE DEF r
<1> DEFINE S == {n \in Nat : /\ f[n] \in Seq(X) /\ Len(f[n]) = n
                             /\ \A i \in 1..n : f[n][i] = s[i]}
<1>3. 0 \in S
  <2>1. f[0] = <<>>
    BY <1>2, <1>9
  <2>2. <<>> \in Seq(X) /\ Len(<<>>) = 0 /\ 1..0 = {}
    OBVIOUS
  <2>3. f[0] \in Seq(X) /\ Len(f[0]) = 0
    BY <2>1, <2>2
  <2> QED
    BY <2>2, <2>3
<1>4. ASSUME NEW n \in 0..(Len(s) - 1), n \in S PROVE n + 1 \in S
  <2>1. n + 1 \in 1..Len(s) /\ n + 1 \in Nat /\ n + 1 \in 0..Len(s)
    BY <1>2
  <2>2. s[n + 1] \in T /\ s[n + 1] \in X
    BY <1>2, <2>1
  <2>3. f[n + 1] = Append(f[n], s[n + 1])
    <3>1. n + 1 # 0 /\ (n + 1) - 1 = n
      OBVIOUS
    <3> QED
      BY <1>9, <2>1, <2>2, <3>1
  <2>4. f[n] \in Seq(X) /\ Len(f[n]) = n /\ \A i \in 1..n : f[n][i] = s[i]
    BY <1>4
  <2>5. f[n + 1] \in Seq(X) /\ Len(f[n + 1]) = n + 1
    BY <2>2, <2>3, <2>4
  <2>6. \A i \in 1..(n + 1) : f[n + 1][i] = s[i]
    BY <2>2, <2>3, <2>4
  <2> QED
    BY <2>1, <2>5, <2>6
<1>5. Len(s) \in S
  <2> HIDE DEF S
  <2>1. \A n \in 0..Len(s) : n \in S
    BY <1>2, <1>3, <1>4, Upward
  <2> QED
    BY <1>2, <2>1
<1>6. r \in Seq(X) /\ Len(r) = Len(s) /\ \A i \in 1..Len(s) : r[i] = s[i]
  BY <1>1, <1>5
<1> QED
  BY <1>6 DEF r

\* The steps for some operations.
LEMMA StepsOf ==
  ASSUME NEW X \in SUBSET Op, NEW s \in Seq(X), NEW how \in {"lose", "remote", "keep", "apply"},
         how \in {"lose", "remote"} => X \subseteq Sent
  PROVE  /\ Steps(s, how) \in Seq({p \in Step : p.op \in X /\ p.how = how})
         /\ Len(Steps(s, how)) = Len(s)
         /\ \A i \in 1..Len(s) : Steps(s, how)[i] = [op |-> s[i], how |-> how]
<1> DEFINE O == {p \in Step : p.op \in X /\ p.how = how}
<1>1. DOMAIN s = 1..Len(s) /\ Len(s) \in Nat /\ \A i \in 1..Len(s) : s[i] \in X
  OBVIOUS
<1>2. ASSUME NEW x \in X PROVE [op |-> x, how |-> how] \in O
  <2>1. x \in Op /\ (how \in {"lose", "remote"} => x \in Sent)
    OBVIOUS
  <2>2. [op |-> x, how |-> how] \in Step
    BY <2>1 DEF Step
  <2> QED
    BY <2>2
<1>3. Steps(s, how) = [i \in 1..Len(s) |-> [op |-> s[i], how |-> how]]
  BY <1>1 DEF Steps
<1> HIDE DEF O
<1>4. Steps(s, how) \in Seq(O)
  BY <1>1, <1>2, <1>3
<1> QED
  BY <1>1, <1>3, <1>4 DEF O

\* The winning side as an operation.
LEMMA LocalWinOpType ==
  ASSUME NEW d \in Client, NEW entity \in Entity, NEW mine \in Seq(Op), NEW r \in Op
  PROVE  /\ LocalWinOp(d, entity, mine, r) \in Seq(Op)
         /\ NoDeletes => /\ Len(LocalWinOp(d, entity, mine, r)) = 1
                         /\ LocalWinOp(d, entity, mine, r)[1].kind = "replace"
                         /\ LocalWinOp(d, entity, mine, r)[1].vals = entity
<1> DEFINE ts == MaxTs(mine)
           v == Above(d, Append(mine, r))
           newest == {o \in Deletions(mine) : o.ts = ts}
           again == IsDelete(r) \/ Recreations(mine) # {}
           a == NewOp(d, "replace", entity, ts, again, v)
           b == NewOp(d, "delete", FirstOf(mine, newest).vals, ts, FALSE, v)
           c == NewOp(d, "replace", r.vals, ts, again, v)
<1>1. ts \in Nat
  BY MaxTsType
<1>2. v \in Clock
  <2>1. Append(mine, r) \in Seq(Op)
    OBVIOUS
  <2>2. EmptyClock \in Clock
    BY DEF EmptyClock, Clock
  <2> QED
    BY <2>1, <2>2, OpMerges
<1>3. again \in BOOLEAN /\ (NoDeletes => ~again)
  <2>1. ToSet(mine) \subseteq Op
    BY ToSetOf
  <2>2. NoDeletes => Recreations(mine) = {} /\ ~IsDelete(r)
    BY <2>1, OpFields DEF Recreations
  <2> QED
    BY <2>2
<1>4. entity # Gone => entity \in Task /\ entity \in Vals
  BY TaskVals DEF Entity
<1>5. newest # {} => FirstOf(mine, newest) \in Op /\ IsDelete(FirstOf(mine, newest))
  <2> SUFFICES ASSUME newest # {} PROVE FirstOf(mine, newest) \in Op /\ IsDelete(FirstOf(mine, newest))
    OBVIOUS
  <2>1. newest \subseteq ToSet(mine) /\ ToSet(mine) \subseteq Op /\ \A o \in newest : IsDelete(o)
    BY ToSetOf DEF Deletions
  <2> HIDE DEF newest
  <2>2. FirstOf(mine, newest) \in newest
    BY <2>1, FirstAndLast
  <2> QED
    BY <2>1, <2>2
<1>6. LocalWinOp(d, entity, mine, r) =
        IF entity # Gone THEN <<a>> ELSE IF newest # {} THEN <<b>>
        ELSE IF IsDelete(r) THEN <<c>> ELSE <<>>
  BY DEF LocalWinOp
<1>7. NoDeletes => entity # Gone
  BY DEF Entity
<1> HIDE DEF ts, v, newest, again
<1>8. entity # Gone => a \in Op
  BY <1>1, <1>2, <1>3, <1>4, NewOpType DEF Kinds
<1>9. newest # {} /\ ~NoDeletes => b \in Op
  <2> SUFFICES ASSUME newest # {}, ~NoDeletes PROVE b \in Op
    OBVIOUS
  <2> DEFINE x == FirstOf(mine, newest).vals
  <2>1. x \in Task /\ x \in Vals
    BY <1>5, OpFields, TaskVals DEF IsDelete
  <2> HIDE DEF x
  <2>2. NewOp(d, "delete", x, ts, FALSE, v) \in Op
    BY <1>1, <1>2, <2>1, NewOpType DEF Kinds
  <2> QED
    BY <2>2 DEF x
<1>10. IsDelete(r) => c \in Op
  <2> SUFFICES ASSUME IsDelete(r) PROVE c \in Op
    OBVIOUS
  <2>1. r.vals \in Task /\ r.vals \in Vals /\ ~NoDeletes
    BY OpFields, TaskVals DEF IsDelete
  <2> QED
    BY <1>1, <1>2, <1>3, <2>1, NewOpType DEF Kinds
<1>11. a.kind = "replace" /\ a.vals = entity
  BY DEF NewOp
<1> HIDE DEF a, b, c
<1> QED
  BY <1>6, <1>7, <1>8, <1>9, <1>10, <1>11

\* An operation with another task.
LEMMA OpWith ==
  ASSUME NEW o \in Op, NEW t \in Task
  PROVE  /\ o.kind = "replace" => [o EXCEPT !.vals = t] \in Op
         /\ ~NoDeletes => Recreated(o, t) \in Op
         /\ o \in Sent /\ ~NoDeletes => Recreated(o, t) \in Sent
         /\ [o EXCEPT !.vals = t].kind = o.kind /\ [o EXCEPT !.vals = t].vals = t
<1> DEFINE p == [o EXCEPT !.vals = t]
           q == [o EXCEPT !.kind = "replace", !.vals = t, !.again = TRUE]
<1>1. /\ o.id \in Client \X Nat /\ o.dev \in Client /\ o.ts \in Nat /\ o.kind \in Kinds
      /\ o.again \in BOOLEAN /\ o.clock \in Clock /\ t \in Vals
      /\ NoDeletes => ~IsDelete(o) /\ ~o.again
  BY TaskVals DEF Op
<1>2. /\ p \in [id : Client \X Nat, dev : Client, ts : Nat, kind : Kinds, vals : Vals,
                again : BOOLEAN, clock : Clock]
      /\ p.kind = o.kind /\ p.vals = t /\ p.again = o.again
  BY <1>1 DEF Op
<1>8. /\ q \in [id : Client \X Nat, dev : Client, ts : Nat, kind : Kinds, vals : Vals,
                again : BOOLEAN, clock : Clock]
      /\ q.kind = "replace" /\ q.vals = t /\ q.id = o.id
  BY <1>1 DEF Op, Kinds
<1> HIDE DEF p, q
<1>3. o.kind = "replace" => p \in Op
  BY <1>1, <1>2 DEF Op, IsDelete
<1>4. ~NoDeletes => q \in Op
  BY <1>8 DEF Op, IsDelete
<1>5. o \in Sent /\ ~NoDeletes => q \in Sent
  <2>1. o \in Sent => o.id[2] # 0
    BY DEF Sent
  <2>2. q \in Op /\ q.id[2] # 0 => q \in Sent
    BY DEF Sent
  <2> QED
    BY <1>4, <1>8, <2>1, <2>2
<1>6. p.kind = o.kind /\ p.vals = t
  BY <1>2
<1> QED
  BY <1>3, <1>4, <1>5, <1>6 DEF p, q, Recreated

\* Deletions and recreations of a sequence.
LEMMA FirstKinds ==
  ASSUME NEW s \in Seq(Op)
  PROVE  /\ Deletions(s) # {} => FirstOf(s, Deletions(s)).vals \in Task /\ ~NoDeletes
         /\ Recreations(s) # {} => FirstOf(s, Recreations(s)).vals \in Task /\ ~NoDeletes
         /\ NoDeletes => Deletions(s) = {} /\ Recreations(s) = {}
<1>1. ToSet(s) \subseteq Op
  BY ToSetOf
<1>2. ASSUME NEW T \in SUBSET ToSet(s), T # {} PROVE FirstOf(s, T) \in T
  BY <1>2, FirstAndLast
<1>3. /\ Deletions(s) \in SUBSET ToSet(s) /\ \A o \in Deletions(s) : IsDelete(o) /\ o \in Op
      /\ Recreations(s) \in SUBSET ToSet(s) /\ \A o \in Recreations(s) : o.again /\ o \in Op
  BY <1>1 DEF Deletions, Recreations
<1>4. \A o \in Op : /\ IsDelete(o) => o.vals \in Task /\ ~NoDeletes
                    /\ o.again => o.vals \in Task /\ ~NoDeletes
  BY OpFields DEF IsDelete
<1> QED
  BY <1>2, <1>3, <1>4

\* Edits that win over a deletion.
LEMMA ConvertedType ==
  ASSUME NEW mine \in Seq(Op), NEW winners \in Seq(Sent)
  PROVE  /\ Converted(mine, winners) \in Seq(Sent)
         /\ NoDeletes => Converted(mine, winners) = winners
<1>1. CASE Deletions(mine) = {}
  BY <1>1 DEF Converted
<1>2. CASE Deletions(mine) # {}
  <2> DEFINE base == FirstOf(mine, Deletions(mine)).vals
             task == Fold(base, winners)
             c == [i \in DOMAIN winners |-> IF IsDelete(winners[i]) THEN winners[i]
                                            ELSE Recreated(winners[i], task)]
  <2>1. base \in Task /\ ~NoDeletes
    BY <1>2, FirstKinds
  <2>2. winners \in Seq(Op)
    BY SentSeq
  <2>3. Converted(mine, winners) = c
    BY <1>2 DEF Converted
  <2> HIDE DEF base
  <2>4. task \in Task
    BY <2>1, <2>2, FoldType
  <2> HIDE DEF task
  <2>5. DOMAIN winners = 1..Len(winners) /\ Len(winners) \in Nat
        /\ \A i \in 1..Len(winners) : winners[i] \in Sent /\ winners[i] \in Op
    BY SentSeq
  <2>6. \A i \in 1..Len(winners) : (IF IsDelete(winners[i]) THEN winners[i]
                                    ELSE Recreated(winners[i], task)) \in Sent
    BY <2>1, <2>4, <2>5, OpWith
  <2>7. c = [i \in 1..Len(winners) |-> IF IsDelete(winners[i]) THEN winners[i]
                                       ELSE Recreated(winners[i], task)]
    BY <2>5
  <2> HIDE DEF c
  <2>8. c \in Seq(Sent)
    BY <2>5, <2>6, <2>7
  <2> QED
    BY <2>1, <2>3, <2>8
<1> QED
  BY <1>1, <1>2

\* A replacement with remote edits laid over it.
LEMMA OverlaidType ==
  ASSUME NEW o \in Op, NEW winners \in Seq(Op)
  PROVE  /\ Overlaid(o, winners) \in Op
         /\ Overlaid(o, winners).kind = o.kind
         /\ o.kind = "replace" =>
              Overlaid(o, winners).vals =
                IF OnlyUpdates(winners) /\ FieldsOf(winners) \subseteq Plain
                THEN Fold(o.vals, winners) ELSE o.vals
<1> DEFINE t == Fold(o.vals, winners)
<1>1. o.kind = "replace" => t \in Task
  BY OpFields, FoldType
<1>2. Overlaid(o, winners) =
        IF o.kind = "replace" /\ OnlyUpdates(winners) /\ FieldsOf(winners) \subseteq Plain
        THEN [o EXCEPT !.vals = t] ELSE o
  <2>1. [o EXCEPT !.vals = Fold(@, winners)] = [o EXCEPT !.vals = Fold(o.vals, winners)]
    BY DEF Op
  <2> QED
    BY <2>1 DEF Overlaid
<1> HIDE DEF t
<1>3. o.kind = "replace" => /\ [o EXCEPT !.vals = t] \in Op
                            /\ [o EXCEPT !.vals = t].kind = o.kind
                            /\ [o EXCEPT !.vals = t].vals = t
  BY <1>1, OpWith
<1> QED
  BY <1>2, <1>3 DEF t

\* A remote edit sent again as a recreation.
LEMMA CompensationType ==
  ASSUME NEW d \in Client, NEW mine \in Seq(Op), NEW r \in Op, NeedsCompensation(mine, r)
  PROVE  Compensation(d, mine, r) \in Op /\ ~NoDeletes
<1> DEFINE base == FirstOf(mine, Recreations(mine)).vals
           t == Fold(base, <<r>>)
           v == Above(d, Append(mine, r))
<1>1. base \in Task /\ ~NoDeletes
  BY FirstKinds DEF NeedsCompensation
<1>2. <<r>> \in Seq(Op) /\ Append(mine, r) \in Seq(Op)
  OBVIOUS
<1> HIDE DEF base
<1>3. t \in Task /\ t \in Vals
  BY <1>1, <1>2, FoldType, TaskVals
<1>4. v \in Clock
  <2>1. EmptyClock \in Clock
    BY DEF EmptyClock, Clock
  <2> QED
    BY <1>2, <2>1, OpMerges
<1>5. Compensation(d, mine, r) = NewOp(d, "replace", t, r.ts, TRUE, v)
  BY DEF Compensation, base
<1> HIDE DEF t, v
<1>6. r.ts \in Nat
  BY OpFields
<1>7. NewOp(d, "replace", t, r.ts, TRUE, v) \in Op
  BY <1>1, <1>3, <1>4, <1>6, NewOpType DEF Kinds
<1> QED
  BY <1>1, <1>5, <1>7

\* A sequence over a set is one over a larger set.
LEMMA SeqMore ==
  ASSUME NEW A, NEW B, A \subseteq B, NEW s \in Seq(A)
  PROVE  s \in Seq(B)
  OBVIOUS

\* The elements of a sequence.
LEMMA SeqElements ==
  ASSUME NEW A, NEW s \in Seq(A)
  PROVE  /\ DOMAIN s = 1..Len(s) /\ Len(s) \in Nat
         /\ \A i \in 1..Len(s) : s[i] \in A /\ s[i] \in ToSet(s)
         /\ s # <<>> => 1 \in 1..Len(s)
         /\ Len(s) = 1 => 1 \in 1..Len(s) /\ s[1] \in A
  BY ToSetOf

\* A sequence over a set whose elements are in another one.
LEMMA SeqInto ==
  ASSUME NEW A, NEW B, NEW s \in Seq(A), \A i \in 1..Len(s) : s[i] \in B
  PROVE  s \in Seq(B)
  OBVIOUS

\* The steps of one kind.
Hows(S) == {p \in Step : p.how \in S}

\* The step that puts vals into the log.
Puts(X) == {p \in Hows({"keep", "apply"}) : p.op.kind = "replace" /\ p.op.vals = X}

\* Steps with one how.
LEMMA StepsHow ==
  ASSUME NEW s, NEW how \in {"lose", "remote", "keep", "apply"},
         s \in Seq(Op), how \in {"lose", "remote"} => s \in Seq(Sent)
  PROVE  Steps(s, how) \in Seq(Hows({how})) /\ Len(Steps(s, how)) = Len(s)
<1>1. CASE how \in {"lose", "remote"}
  <2>1. s \in Seq(Sent) /\ Sent \in SUBSET Op
    BY <1>1, SentSeq
  <2> DEFINE A == {p \in Step : p.op \in Sent /\ p.how = how}
  <2>2. Steps(s, how) \in Seq(A) /\ Len(Steps(s, how)) = Len(s)
    BY <2>1, StepsOf
  <2>3. A \subseteq Hows({how})
    BY DEF Hows
  <2> HIDE DEF A
  <2> QED
    BY <2>2, <2>3, SeqMore
<1>2. CASE how \notin {"lose", "remote"}
  <2>1. Op \in SUBSET Op
    OBVIOUS
  <2> DEFINE A == {p \in Step : p.op \in Op /\ p.how = how}
  <2>2. Steps(s, how) \in Seq(A) /\ Len(Steps(s, how)) = Len(s)
    BY <1>2, <2>1, StepsOf
  <2>3. A \subseteq Hows({how})
    BY DEF Hows
  <2> HIDE DEF A
  <2> QED
    BY <2>2, <2>3, SeqMore
<1> QED
  BY <1>1, <1>2

\* A sequence mapped operation by operation.
LEMMA Mapped ==
  ASSUME NEW X, NEW Y, NEW s \in Seq(X), NEW t, DOMAIN t = DOMAIN s, t = [i \in DOMAIN s |-> t[i]],
         \A i \in 1..Len(s) : t[i] \in Y
  PROVE  t \in Seq(Y) /\ Len(t) = Len(s)
<1>1. DOMAIN s = 1..Len(s) /\ Len(s) \in Nat
  OBVIOUS
<1>2. t = [i \in 1..Len(s) |-> t[i]]
  BY <1>1
<1> QED
  BY <1>1, <1>2

\* What whole-entity resolution consists of.
WholeParts(entity, whole, a, b, c, e, f) ==
  /\ a \in Seq(Hows({"lose"})) /\ b \in Seq(Hows({"remote"})) /\ c \in Seq(Hows({"keep", "apply"}))
  /\ e \in Seq(Hows({"apply"})) /\ f \in Seq(Hows({"remote"}))
  /\ whole = a \o b \o c \o e \o f
  /\ NoDeletes =>
       /\ e = <<>>
       /\ \/ a = <<>> /\ c = <<>> /\ f = <<>>
          \/ \E w \in Seq(Sent), X \in Entity :
               /\ f = Steps(w, "remote") /\ c \in Seq(Puts(X)) /\ c # <<>>
               /\ X = entity \/ (OnlyUpdates(w) /\ X = ApplyAll(entity, w))
               /\ \/ b = <<>> /\ \A s \in ToSet(c) : s.how = "keep"
                  \/ \E s \in ToSet(c) : s.how = "apply"

\* The steps of a conflict about the whole task have those parts.
LEMMA WholeStepsParts ==
  ASSUME NEW d \in Client, NEW entity \in Entity, NEW mine \in Seq(Sent), NEW remote \in Seq(Sent)
  PROVE  \E a, b, c, e, f : WholeParts(entity, WholeSteps(d, entity, mine, remote), a, b, c, e, f)
<1> DEFINE beaten == {r \in ToSet(remote) : LocalWins(mine, r)}
           applied == {r \in beaten : AppliesLoser(d, entity, mine, r)}
           won == Kept(remote, beaten)
           lost == Kept(remote, ToSet(remote) \ beaten)
           resent == Kept(lost, {r \in ToSet(lost) : NeedsCompensation(mine, r)})
           converted == Converted(mine, lost)
           winners == Kept(converted, {w \in ToSet(converted) : w.id \notin IdsOf(resent)})
           over(ops) == [i \in DOMAIN ops |-> Overlaid(ops[i], winners)]
           wins(r) == Steps(over(LocalWinOp(d, entity, mine, r)), IF r \in applied THEN "apply" ELSE "keep")
           again == [i \in DOMAIN resent |-> Compensation(d, mine, resent[i])]
           later == IF won = <<>> /\ resent = <<>> THEN <<>> ELSE winners
           first == IF later = <<>> THEN winners ELSE <<>>
           a == Steps(Kept(won, beaten \ applied), "lose")
           b == Steps(first \o resent \o Kept(won, applied), "remote")
           W == [i \in DOMAIN won |-> wins(won[i])]
           c == FlattenSeq(W)
           e == Steps(over(again), "apply")
           f == Steps(later, "remote")
<1>0. WholeSteps(d, entity, mine, remote) = a \o b \o c \o e \o f
  BY DEF WholeSteps
<1>1. mine \in Seq(Op) /\ remote \in Seq(Op)
  BY SentSeq
<1>2. won \in Seq(Sent) /\ won \in Seq(Op) /\ lost \in Seq(Sent) /\ lost \in Seq(Op)
      /\ ToSet(won) = ToSet(remote) \cap beaten
  <2> DEFINE T == ToSet(remote) \ beaten
  <2> HIDE DEF beaten, T
  <2>1. \A U : Kept(remote, U) \in Seq(Sent) /\ ToSet(Kept(remote, U)) = ToSet(remote) \cap U
    BY KeptSet
  <2>2. won \in Seq(Sent) /\ ToSet(won) = ToSet(remote) \cap beaten
    BY <2>1
  <2>3. Kept(remote, T) \in Seq(Sent)
    BY <2>1
  <2> QED
    BY <2>2, <2>3, SentSeq DEF T
<1>3. resent \in Seq(Sent) /\ resent \in Seq(Op) /\ \A r \in ToSet(resent) : NeedsCompensation(mine, r)
  <2> HIDE DEF lost
  <2> DEFINE T == {r \in ToSet(lost) : NeedsCompensation(mine, r)}
  <2>2. \A r \in T : NeedsCompensation(mine, r)
    OBVIOUS
  <2> HIDE DEF T
  <2>3. lost \in Seq(Sent)
    BY <1>2
  <2>4. Kept(lost, T) \in Seq(Sent) /\ ToSet(Kept(lost, T)) = ToSet(lost) \cap T
    BY <2>3, KeptSet
  <2>1. Kept(lost, T) \in Seq(Sent) /\ ToSet(Kept(lost, T)) \subseteq T
    BY <2>4
  <2> QED
    BY <2>1, <2>2, SentSeq DEF T
<1>4. converted \in Seq(Sent) /\ (NoDeletes => converted = lost)
  <2> HIDE DEF lost
  <2> QED
    BY <1>1, <1>2, ConvertedType
<1>5. winners \in Seq(Sent) /\ winners \in Seq(Op)
  <2> HIDE DEF converted, resent
  <2> QED
    BY <1>4, KeptSet, SentSeq
<1>6. NoDeletes => resent = <<>> /\ winners = lost
  <2> SUFFICES ASSUME NoDeletes PROVE resent = <<>> /\ winners = lost
    OBVIOUS
  <2>1. \A r : ~NeedsCompensation(mine, r)
    BY <1>1, FirstKinds DEF NeedsCompensation
  <2>2. resent = <<>>
    <3> HIDE DEF resent
    <3>1. ToSet(resent) = {}
      BY <1>3, <2>1
    <3> QED
      BY <1>3, <3>1, ToSetOf
  <2>3. IdsOf(resent) = {}
    <3> HIDE DEF resent
    <3>1. ToSet(<<>>) = {}
      BY DEF ToSet
    <3> QED
      BY <2>2, <3>1 DEF IdsOf
  <2>4. winners = Kept(lost, ToSet(lost))
    <3> HIDE DEF lost, resent, converted
    <3>1. {w \in ToSet(converted) : w.id \notin IdsOf(resent)} = ToSet(lost)
      BY <1>4, <2>3
    <3> QED
      BY <1>4, <3>1
  <2> HIDE DEF lost, winners
  <2> QED
    BY <1>2, <2>2, <2>4, KeptAll
<1> HIDE DEF winners, resent, converted, lost
<1>7. ASSUME NEW ops \in Seq(Op)
      PROVE  /\ over(ops) \in Seq(Op) /\ Len(over(ops)) = Len(ops)
             /\ \A i \in 1..Len(ops) : over(ops)[i] = Overlaid(ops[i], winners)
  <2>1. DOMAIN ops = 1..Len(ops) /\ Len(ops) \in Nat /\ \A i \in 1..Len(ops) : ops[i] \in Op
    OBVIOUS
  <2>2. \A i \in 1..Len(ops) : Overlaid(ops[i], winners) \in Op
    BY <1>5, <2>1, OverlaidType
  <2>3. over(ops) = [i \in 1..Len(ops) |-> Overlaid(ops[i], winners)]
    BY <2>1
  <2> QED
    BY <2>1, <2>2, <2>3
<1> HIDE DEF over
<1>8. ASSUME NEW r \in Op PROVE wins(r) \in Seq(Hows({"keep", "apply"}))
  <2> DEFINE how == IF r \in applied THEN "apply" ELSE "keep"
             o == over(LocalWinOp(d, entity, mine, r))
  <2>1. o \in Seq(Op)
    BY <1>1, <1>7, LocalWinOpType
  <2>2. how \in {"keep", "apply"}
    OBVIOUS
  <2> HIDE DEF how, o
  <2>3. Steps(o, how) \in Seq(Hows({how}))
    BY <2>1, <2>2, StepsHow
  <2>4. Hows({how}) \subseteq Hows({"keep", "apply"})
    BY <2>2 DEF Hows
  <2> QED
    BY <2>3, <2>4, SeqMore DEF how, o
<1> HIDE DEF wins
<1>9. again \in Seq(Op) /\ (NoDeletes => again = <<>>)
  <2>1. DOMAIN resent = 1..Len(resent) /\ Len(resent) \in Nat /\ \A i \in 1..Len(resent) : resent[i] \in Op
    BY <1>3
  <2>2. \A i \in 1..Len(resent) : NeedsCompensation(mine, resent[i])
    BY <1>3, ToSetOf
  <2>3. \A i \in 1..Len(resent) : Compensation(d, mine, resent[i]) \in Op
    BY <1>1, <2>1, <2>2, CompensationType
  <2>4. again = [i \in 1..Len(resent) |-> Compensation(d, mine, resent[i])]
    BY <2>1
  <2>5. again \in Seq(Op)
    BY <2>1, <2>3, <2>4
  <2>6. resent = <<>> => again = <<>>
    BY <2>4
  <2> QED
    BY <1>6, <2>5, <2>6
<1> HIDE DEF again
<1>10. later \in Seq(Sent) /\ first \in Seq(Sent) /\ later \in Seq(Op)
  BY <1>5
<1>11. a \in Seq(Hows({"lose"}))
  <2>1. Kept(won, beaten \ applied) \in Seq(Sent)
    BY <1>2, KeptSet
  <2> QED
    BY <2>1, SentSeq, StepsHow
<1>12. b \in Seq(Hows({"remote"}))
  <2> HIDE DEF first
  <2>1. Kept(won, applied) \in Seq(Sent)
    BY <1>2, KeptSet
  <2>2. first \o resent \o Kept(won, applied) \in Seq(Sent)
    BY <1>3, <1>10, <2>1
  <2> QED
    BY <2>2, SentSeq, StepsHow
<1>13. W \in Seq(Seq(Hows({"keep", "apply"}))) /\ Len(W) = Len(won)
       /\ \A i \in 1..Len(won) : W[i] = wins(won[i])
  <2> HIDE DEF won
  <2>1. DOMAIN won = 1..Len(won) /\ Len(won) \in Nat /\ \A i \in 1..Len(won) : won[i] \in Op
    BY <1>2
  <2>2. \A i \in 1..Len(won) : wins(won[i]) \in Seq(Hows({"keep", "apply"}))
    BY <1>8, <2>1
  <2>3. W = [i \in 1..Len(won) |-> wins(won[i])]
    BY <2>1
  <2> HIDE DEF W
  <2> QED
    BY <2>1, <2>2, <2>3
<1>14. c \in Seq(Hows({"keep", "apply"}))
  <2> HIDE DEF W
  <2> QED
    BY <1>13, FlattenOf
<1>15. e \in Seq(Hows({"apply"}))
  BY <1>7, <1>9, StepsHow
<1>16. f \in Seq(Hows({"remote"}))
  <2> HIDE DEF later
  <2> QED
    BY <1>10, StepsHow
<1>17. ASSUME NoDeletes
       PROVE  /\ e = <<>>
              /\ \/ a = <<>> /\ c = <<>> /\ f = <<>>
                 \/ \E w \in Seq(Sent), X \in Entity :
                      /\ f = Steps(w, "remote") /\ c \in Seq(Puts(X)) /\ c # <<>>
                      /\ X = entity \/ (OnlyUpdates(w) /\ X = ApplyAll(entity, w))
                      /\ \/ b = <<>> /\ \A s \in ToSet(c) : s.how = "keep"
                         \/ \E s \in ToSet(c) : s.how = "apply"
  <2>1. e = <<>>
    <3>1. Len(over(again)) = 0 /\ over(again) \in Seq(Op)
      BY <1>7, <1>9, <1>17
    <3>2. e \in Seq(Hows({"apply"})) /\ Len(e) = 0
      <4> DEFINE o == over(again)
      <4> HIDE DEF o
      <4> QED
        BY <3>1, StepsHow DEF o
    <3> QED
      BY <3>2
  <2>2. CASE won = <<>>
    <3>1. later = <<>>
      BY <1>6, <1>17, <2>2
    <3>2. f = <<>>
      <4>1. <<>> \in Seq(Sent) /\ <<>> \in Seq(Op)
        OBVIOUS
      <4>2. Steps(<<>>, "remote") \in Seq(Hows({"remote"})) /\ Len(Steps(<<>>, "remote")) = 0
        BY <4>1, StepsHow
      <4> QED
        BY <3>1, <4>2
    <3>3. a = <<>>
      <4> DEFINE k == Kept(won, beaten \ applied)
      <4>1. ToSet(<<>>) = {}
        BY DEF ToSet
      <4>2. k = <<>>
        BY <1>2, <2>2, <4>1, KeptNone
      <4>3. <<>> \in Seq(Sent) /\ <<>> \in Seq(Op)
        OBVIOUS
      <4>4. Steps(<<>>, "lose") \in Seq(Hows({"lose"})) /\ Len(Steps(<<>>, "lose")) = 0
        BY <4>3, StepsHow
      <4>5. a = Steps(<<>>, "lose")
        BY <4>2
      <4> QED
        BY <4>4, <4>5
    <3>4. c = <<>>
      <4>1. Len(W) = 0 /\ W \in Seq(Seq(Hows({"keep", "apply"})))
        BY <1>13, <2>2
      <4> HIDE DEF W
      <4>2. W \in Seq(Seq({}))
        BY <4>1
      <4>3. c \in Seq({})
        BY <4>2, FlattenOf
      <4> QED
        BY <4>3
    <3> QED
      BY <2>1, <3>2, <3>3, <3>4
  <2>3. CASE won # <<>>
    <3> DEFINE plain == OnlyUpdates(winners) /\ FieldsOf(winners) \subseteq Plain
               X == IF plain THEN Fold(entity, winners) ELSE entity
               K == {p \in Puts(X) : p.how = "keep"}
    <3>1. later = winners /\ first = <<>>
      BY <1>6, <1>17, <2>3
    <3>2. entity \in Task
      BY <1>17 DEF Entity
    <3>3. Fold(entity, winners) = ApplyAll(entity, winners)
      <4>1. Deletions(winners) = {}
        BY <1>5, <1>17, FirstKinds
      <4>2. Kept(winners, ToSet(winners) \ Deletions(winners)) = winners
        BY <1>5, <4>1, KeptAll
      <4> QED
        BY <4>2 DEF Fold
    <3>4. X \in Entity /\ (X = entity \/ (OnlyUpdates(winners) /\ X = ApplyAll(entity, winners)))
      <4>1. Fold(entity, winners) \in Task
        BY <1>5, <3>2, FoldType
      <4>2. Task \subseteq Entity
        BY TaskIsThere DEF Entity
      <4> QED
        BY <3>2, <3>3, <4>1, <4>2
    <3>5. ASSUME NEW r \in Op
          PROVE  /\ wins(r) \in Seq(Puts(X)) /\ Len(wins(r)) = 1
                 /\ wins(r)[1].how = IF r \in applied THEN "apply" ELSE "keep"
      <4> DEFINE o == LocalWinOp(d, entity, mine, r)
                 how == IF r \in applied THEN "apply" ELSE "keep"
                 q == Overlaid(o[1], winners)
      <4>1. o \in Seq(Op) /\ Len(o) = 1 /\ o[1].kind = "replace" /\ o[1].vals = entity
        BY <1>1, <1>17, LocalWinOpType
      <4> HIDE DEF o
      <4>2. o[1] \in Op /\ 1 \in 1..Len(o)
        BY <4>1, SeqElements
      <4>3. over(o) \in Seq(Op) /\ Len(over(o)) = 1 /\ over(o)[1] = q
        BY <1>7, <4>1, <4>2
      <4>4. q \in Op /\ q.kind = "replace" /\ q.vals = X
        BY <1>5, <4>1, <4>2, OverlaidType
      <4>5. how \in {"keep", "apply"}
        OBVIOUS
      <4> HIDE DEF q, how, X
      <4>7. Len(Steps(over(o), how)) = 1 /\ Steps(over(o), how)[1] = [op |-> q, how |-> how]
            /\ Steps(over(o), how) \in Seq(Hows({how}))
        <5> DEFINE oo == over(o)
        <5>1. oo \in Seq(Op) /\ Len(oo) = 1 /\ oo[1] = q /\ 1 \in 1..Len(oo)
          BY <4>3
        <5> HIDE DEF oo
        <5>2. 1 \in DOMAIN oo
          BY <5>1
        <5>3. Steps(oo, how)[1] = [op |-> q, how |-> how]
          BY <5>1, <5>2 DEF Steps
        <5>4. Steps(oo, how) \in Seq(Hows({how})) /\ Len(Steps(oo, how)) = 1
          BY <4>5, <5>1, StepsHow
        <5> QED
          BY <5>3, <5>4 DEF oo
      <4>8. [op |-> q, how |-> how] \in Step
        BY <4>4, <4>5 DEF Step
      <4>9. [op |-> q, how |-> how] \in Puts(X)
        BY <4>4, <4>5, <4>8 DEF Puts, Hows
      <4>10. Steps(over(o), how) \in Seq(Puts(X))
        <5> DEFINE t == Steps(over(o), how)
        <5>1. t \in Seq(Hows({how})) /\ \A i \in 1..Len(t) : t[i] \in Puts(X)
          BY <4>7, <4>9
        <5> HIDE DEF t
        <5>2. t \in Seq(Puts(X))
          BY <5>1, SeqInto
        <5> QED
          BY <5>2 DEF t
      <4>11. wins(r) = Steps(over(o), how)
        BY DEF wins, o, how
      <4> QED
        BY <4>7, <4>10, <4>11 DEF how
    <3> HIDE DEF X
    <3>6. DOMAIN won = 1..Len(won) /\ Len(won) \in Nat /\ 1 \in 1..Len(won)
          /\ \A i \in 1..Len(won) : won[i] \in Op /\ won[i] \in ToSet(won)
      <4>1. won \in Seq(Op)
        BY <1>2
      <4> HIDE DEF won
      <4> QED
        BY <2>3, <4>1, SeqElements
    <3>7. W \in Seq(Seq(Puts(X)))
      <4>1. \A i \in 1..Len(won) : W[i] \in Seq(Puts(X))
        BY <1>13, <3>5, <3>6
      <4> HIDE DEF W
      <4> QED
        BY <1>13, <4>1, SeqInto
    <3>8. ASSUME NEW i \in 1..Len(won) PROVE wins(won[i])[1] \in ToSet(c)
      <4>1. Len(W) = Len(won) /\ W[i] = wins(won[i])
        BY <1>13
      <4>2. wins(won[i])[1] \in ToSet(W[i])
        <5>1. W[i] \in Seq(Puts(X)) /\ Len(W[i]) = 1
          BY <3>5, <3>6, <4>1
        <5>2. W[i][1] \in ToSet(W[i])
          BY <5>1, ToSetOf
        <5> QED
          BY <4>1, <5>2
      <4> HIDE DEF W
      <4>3. ToSet(W[i]) \subseteq ToSet(c)
        BY <3>7, <4>1, FlattenOf
      <4> QED
        BY <4>2, <4>3
    <3>9. c \in Seq(Puts(X)) /\ c # <<>>
      <4> HIDE DEF W
      <4>1. c \in Seq(Puts(X))
        BY <3>7, FlattenOf
      <4>2. ToSet(<<>>) = {}
        BY DEF ToSet
      <4> QED
        BY <3>6, <3>8, <4>1, <4>2
    <3>10. CASE ToSet(won) \cap applied = {}
      <4>1. b = <<>>
        <5>1. Kept(won, applied) = <<>>
          BY <1>2, <3>10, KeptNone
        <5>2. first \o resent \o Kept(won, applied) = <<>>
          BY <1>6, <1>17, <3>1, <5>1
        <5>3. <<>> \in Seq(Sent) /\ <<>> \in Seq(Op)
          OBVIOUS
        <5>4. Steps(<<>>, "remote") \in Seq(Hows({"remote"})) /\ Len(Steps(<<>>, "remote")) = 0
          BY <5>3, StepsHow
        <5>5. b = Steps(<<>>, "remote")
          BY <5>2
        <5> QED
          BY <5>4, <5>5
      <4>2. ASSUME NEW i \in 1..Len(won) PROVE wins(won[i]) \in Seq(K)
        <5>1. won[i] \in Op /\ won[i] \notin applied
          BY <3>6, <3>10
        <5>2. wins(won[i]) \in Seq(Puts(X)) /\ Len(wins(won[i])) = 1 /\ wins(won[i])[1].how = "keep"
          BY <3>5, <5>1
        <5>3. wins(won[i])[1] \in K
          BY <5>2
        <5> DEFINE t == wins(won[i])
        <5>4. t \in Seq(Puts(X)) /\ Len(t) = 1 /\ t[1] \in K
          BY <5>2, <5>3
        <5> HIDE DEF K, t
        <5>5. \A j \in 1..Len(t) : t[j] \in K
          BY <5>4
        <5>6. t \in Seq(K)
          BY <5>4, <5>5, SeqInto
        <5> QED
          BY <5>6 DEF t
      <4>3. W \in Seq(Seq(K))
        <5>1. \A i \in 1..Len(won) : W[i] \in Seq(K)
          BY <1>13, <4>2
        <5> HIDE DEF W, K
        <5> QED
          BY <1>13, <5>1, SeqInto
      <4>4. c \in Seq(K)
        <5> HIDE DEF W, K
        <5> QED
          BY <4>3, FlattenOf
      <4>5. ToSet(c) \subseteq K
        <5> HIDE DEF c, K
        <5> QED
          BY <4>4, ToSetOf
      <4>6. \A s \in ToSet(c) : s.how = "keep"
        BY <4>5
      <4> HIDE DEF b, c
      <4> QED
        BY <1>5, <2>1, <3>1, <3>4, <3>9, <4>1, <4>6
    <3>11. CASE ToSet(won) \cap applied # {}
      <4>1. PICK i \in 1..Len(won) : won[i] \in applied
        <5>1. won \in Seq(Op)
          BY <1>2
        <5> HIDE DEF won, applied
        <5>2. PICK r \in ToSet(won) : r \in applied
          BY <3>11
        <5> QED
          BY <5>1, <5>2, ToSetOf
      <4>2. wins(won[i])[1].how = "apply"
        BY <3>5, <3>6, <4>1
      <4>3. \E s \in ToSet(c) : s.how = "apply"
        BY <3>8, <4>2
      <4> HIDE DEF b, c
      <4> QED
        BY <1>5, <2>1, <3>1, <3>4, <3>9, <4>3
    <3> QED
      BY <3>10, <3>11
  <2> QED
    BY <2>2, <2>3
<1> HIDE DEF a, b, c, e, f
<1>18. WholeParts(entity, WholeSteps(d, entity, mine, remote), a, b, c, e, f)
  BY <1>0, <1>11, <1>12, <1>14, <1>15, <1>16, <1>17 DEF WholeParts
<1> QED
  BY <1>18

\* The fields of a sequence's operations.
LEMMA FieldsOfType ==
  ASSUME NEW s \in Seq(Op)
  PROVE  FieldsOf(s) \subseteq Field
<1>1. \A o \in ToSet(s) : o \in Op
  BY ToSetOf
<1>2. \A o \in ToSet(s) : DOMAIN o.vals \subseteq Field
  BY <1>1, OpFields, TaskVals
<1> QED
  BY <1>2 DEF FieldsOf

\* Patches with the winning fields.
LEMMA ResendsType ==
  ASSUME NEW d \in Client, NEW mine \in Seq(Op), NEW remote \in Seq(Op)
  PROVE  Resends(d, mine, remote) \in Seq(Op)
<1> DEFINE W == PatchWinners(mine, remote)
           v == Above(d, mine \o remote)
           F(o) == WonFields(mine, remote, o)
           P(i) == NewOp(d, "patch", [f \in F(W[i]) |-> W[i].vals[f]], W[i].ts, FALSE,
                         [c \in Client |-> IF c = d THEN v[d] + i - 1 ELSE v[c]])
<1>1. W \in Seq(Op)
  <2> DEFINE T(t) == {o \in ToSet(mine) : o.ts = t /\ WonFields(mine, remote, o) # {}}
             ss == [t \in 1..MaxTime |-> Kept(mine, T(t))]
  <2>1. \A t \in 1..MaxTime : Kept(mine, T(t)) \in Seq(Op)
    <3> HIDE DEF T
    <3> QED
      BY KeptSet
  <2> HIDE DEF T
  <2>2. ss \in Seq(Seq(Op))
    BY <2>1, ConflictAssumption
  <2>3. W = FlattenSeq(ss)
    BY DEF PatchWinners, T
  <2> HIDE DEF ss
  <2> QED
    BY <2>2, <2>3, FlattenOf
<1>2. v \in Clock
  <2>1. mine \o remote \in Seq(Op)
    OBVIOUS
  <2>2. EmptyClock \in Clock
    BY DEF EmptyClock, Clock
  <2> QED
    BY <2>1, <2>2, OpMerges
<1>3. Resends(d, mine, remote) = [i \in DOMAIN W |-> P(i)]
  BY DEF Resends
<1> HIDE DEF W, v
<1>4. DOMAIN W = 1..Len(W) /\ Len(W) \in Nat /\ \A i \in 1..Len(W) : W[i] \in Op
  BY <1>1, SeqElements
<1>5. ASSUME NEW i \in 1..Len(W) PROVE P(i) \in Op
  <2> DEFINE o == W[i]
             S == F(o)
             g == [f \in S |-> o.vals[f]]
             w == [c \in Client |-> IF c = d THEN v[d] + i - 1 ELSE v[c]]
  <2>1. o \in Op
    BY <1>4
  <2>2. S \subseteq DOMAIN o.vals
    BY DEF WonFields
  <2> HIDE DEF S, o
  <2>3. S \subseteq Field /\ \A f \in S : o.vals[f] \in Stamp
    BY <2>1, <2>2, OpFields, TaskVals
  <2>4. g \in Vals
    BY <2>3, TaskVals
  <2>5. w \in Clock
    BY <1>2, <1>4 DEF Clock
  <2>6. o.ts \in Nat
    BY <2>1, OpFields
  <2>7. P(i) = NewOp(d, "patch", g, o.ts, FALSE, w)
    BY DEF S, o
  <2> HIDE DEF g, w, P
  <2>8. NewOp(d, "patch", g, o.ts, FALSE, w) \in Op
    BY <2>4, <2>5, <2>6, NewOpType DEF Kinds
  <2> QED
    BY <2>7, <2>8
<1> HIDE DEF P
<1>6. Resends(d, mine, remote) = [i \in 1..Len(W) |-> P(i)]
  BY <1>3, <1>4
<1> QED
  BY <1>4, <1>5, <1>6

\* An operation that changes nothing on this screen.
Restates(o, e) ==
  /\ e \in Task
  /\ \/ o.kind = "replace" /\ o.vals = e
     \/ /\ o.kind = "patch" /\ DOMAIN o.vals \subseteq Field
        /\ \A f \in DOMAIN o.vals : o.vals[f] = e[f]

\* An operation that restates the task leaves it as it is.
LEMMA RestatesNothing ==
  ASSUME NEW o, NEW e, Restates(o, e)
  PROVE  ApplyOp(e, o) = e
<1>1. CASE o.kind = "replace" /\ o.vals = e
  BY <1>1 DEF ApplyOp
<1>2. CASE o.kind = "patch" /\ DOMAIN o.vals \subseteq Field /\ \A f \in DOMAIN o.vals : o.vals[f] = e[f]
  <2>1. e \in Task /\ e # Gone /\ DOMAIN e = Field /\ e = [f \in Field |-> e[f]]
    BY TaskIsThere DEF Restates, Task
  <2>2. ApplyOp(e, o) = Put(e, o.vals)
    BY <1>2, <2>1 DEF ApplyOp
  <2>3. Put(e, o.vals) = [f \in Field |-> IF f \in DOMAIN o.vals THEN o.vals[f] ELSE e[f]]
    <3>1. DOMAIN e \cup DOMAIN o.vals = Field
      BY <1>2, <2>1
    <3> QED
      BY <3>1 DEF Put
  <2>4. \A f \in Field : (IF f \in DOMAIN o.vals THEN o.vals[f] ELSE e[f]) = e[f]
    BY <1>2
  <2>5. [f \in Field |-> IF f \in DOMAIN o.vals THEN o.vals[f] ELSE e[f]] = [f \in Field |-> e[f]]
    BY <2>4
  <2> QED
    BY <2>1, <2>2, <2>3, <2>5
<1> QED
  BY <1>1, <1>2 DEF Restates

\* Fields of a losing edit that are still on screen.
LEMMA SurvivingType ==
  ASSUME NEW d \in Client, NEW entity \in Entity, NEW mine \in Seq(Op), NEW r \in Op
  PROVE  /\ Surviving(d, entity, mine, r) \in Seq(Op)
         /\ Surviving(d, entity, mine, r) # <<>> => Restates(Surviving(d, entity, mine, r)[1], entity)
<1> DEFINE fields == {f \in FieldsOf(mine) : /\ f \in DOMAIN entity
                                             /\ entity[f] = LastOf(mine, Writers(mine, f)).vals[f]}
           g == [f \in fields |-> entity[f]]
           v == Above(d, Append(mine, r))
           ts == MaxTs(mine)
           p == NewOp(d, "patch", g, ts, FALSE, v)
<1>1. Surviving(d, entity, mine, r) =
        IF r.kind \in {"patch", "replace"} /\ OnlyUpdates(mine) /\ fields # {} THEN <<p>> ELSE <<>>
  BY DEF Surviving
<1>2. fields \subseteq DOMAIN entity
  OBVIOUS
<1> HIDE DEF fields
<1>3. ASSUME fields # {} PROVE entity \in Task /\ fields \subseteq Field
  <2>1. entity # Gone
    BY <1>2, <1>3 DEF Gone
  <2> QED
    BY <1>2, <2>1 DEF Entity, Task
<1>4. v \in Clock /\ ts \in Nat
  <2>1. Append(mine, r) \in Seq(Op)
    OBVIOUS
  <2>2. EmptyClock \in Clock
    BY DEF EmptyClock, Clock
  <2> QED
    BY <2>1, <2>2, OpMerges, MaxTsType
<1> HIDE DEF v, ts
<1>5. ASSUME fields # {} PROVE p \in Op /\ Restates(p, entity)
  <2>1. entity \in Task /\ fields \subseteq Field /\ \A f \in fields : entity[f] \in Stamp
    BY <1>3, <1>5 DEF Task
  <2>2. g \in Vals
    BY <2>1, TaskVals
  <2>3. DOMAIN g = fields /\ \A f \in fields : g[f] = entity[f]
    OBVIOUS
  <2> HIDE DEF g
  <2>4. p \in Op
    BY <1>4, <2>2, NewOpType DEF Kinds
  <2>5. p.kind = "patch" /\ p.vals = g
    BY DEF NewOp
  <2> HIDE DEF p
  <2> QED
    BY <2>1, <2>3, <2>4, <2>5 DEF Restates
<1> HIDE DEF p
<1> QED
  BY <1>1, <1>5

\* The replacement of refused operations.
LEMMA ReplacementType ==
  ASSUME NEW d \in Client, NEW ops \in Seq(Op), ops # <<>>,
         live[d] \in Entity, clock[d] \in Clock, answer[d].seen \in Clock
  PROVE  /\ Replacement(d, ops) \in Seq(Op)
         /\ NoDeletes /\ Replacement(d, ops) # <<>> => Restates(Replacement(d, ops)[1], live[d])
<1> DEFINE v == Increment(Merge(MergeAll(clock[d], ops), answer[d].seen), d)
           ts == MaxTs(ops)
           again == Recreations(ops) # {}
           g == [f \in FieldsOf(ops) |-> live[d][f]]
           a == NewOp(d, "delete", ops[1].vals, ts, FALSE, v)
           b == NewOp(d, "patch", g, ts, FALSE, v)
           c == NewOp(d, "replace", live[d], ts, again, v)
<1>1. Replacement(d, ops) =
        IF ToSet(ops) = Deletions(ops) THEN <<a>> ELSE IF live[d] = Gone THEN <<>>
        ELSE IF OnlyUpdates(ops) THEN <<b>> ELSE <<c>>
  BY DEF Replacement
<1>2. v \in Clock /\ ts \in Nat
  <2>1. MergeAll(clock[d], ops) \in Clock
    BY OpMerges
  <2> QED
    BY <2>1, ClockOps, MaxTsType
<1>3. again \in BOOLEAN /\ (NoDeletes => ~again)
  BY FirstKinds
<1>4. ops[1] \in ToSet(ops) /\ ops[1] \in Op
  BY SeqElements
<1> HIDE DEF v, ts, again
<1>5. ASSUME ToSet(ops) = Deletions(ops) PROVE a \in Op /\ ~NoDeletes
  <2>1. IsDelete(ops[1]) /\ ~NoDeletes
    BY <1>4, <1>5, FirstKinds DEF Deletions
  <2>2. ops[1].vals \in Task /\ ops[1].vals \in Vals
    BY <1>4, <2>1, OpFields, TaskVals DEF IsDelete
  <2> DEFINE w == ops[1].vals
  <2> HIDE DEF w
  <2>3. NewOp(d, "delete", w, ts, FALSE, v) \in Op
    BY <1>2, <2>1, <2>2, NewOpType DEF Kinds, w
  <2> QED
    BY <2>1, <2>3 DEF w
<1>6. ASSUME live[d] # Gone PROVE b \in Op /\ c \in Op /\ Restates(b, live[d]) /\ Restates(c, live[d])
  <2>1. live[d] \in Task /\ live[d] \in Vals /\ \A f \in Field : live[d][f] \in Stamp
    BY <1>6, TaskVals DEF Entity, Task
  <2>2. FieldsOf(ops) \subseteq Field
    BY FieldsOfType
  <2>3. g \in Vals
    BY <2>1, <2>2, TaskVals
  <2>4. DOMAIN g = FieldsOf(ops) /\ \A f \in FieldsOf(ops) : g[f] = live[d][f]
    OBVIOUS
  <2> HIDE DEF g
  <2>5. b \in Op
    BY <1>2, <2>3, NewOpType DEF Kinds
  <2>6. c \in Op
    BY <1>2, <1>3, <2>1, NewOpType DEF Kinds
  <2>7. b.kind = "patch" /\ b.vals = g /\ c.kind = "replace" /\ c.vals = live[d]
    BY DEF NewOp
  <2> HIDE DEF b, c
  <2> QED
    BY <2>1, <2>2, <2>4, <2>5, <2>6, <2>7 DEF Restates
<1> HIDE DEF a, b, c
<1> QED
  BY <1>1, <1>5, <1>6

-----------------------------------------------------------------------------
(* The log and the screen *)

\* The steps of a resolution lead from devices to devices.
LEMMA TakeFromType ==
  ASSUME NEW d \in Client
  PROVE  /\ Takes(d, Device, Step)
         /\ \A v \in Device, s \in Seq(Step) : TakeFrom(d, v, s) \in Device
<1>1. Takes(d, Device, Step)
  BY TakeOf DEF Takes
<1>2. ASSUME NEW v \in Device, NEW s \in Seq(Step) PROVE TakeFrom(d, v, s) \in Device
  <2>1. PICK f : TakenBy(f, d, Device, v, s)
    BY <1>1, TakeFromSteps
  <2>2. Len(s) \in Nat
    OBVIOUS
  <2> QED
    BY <2>1, <2>2 DEF TakenBy
<1> QED
  BY <1>1, <1>2

\* Replaying one more row.
LEMMA ReplayOf ==
  ASSUME NEW rows \in Seq(Row)
  PROVE  /\ Replay(rows) \in Entity
         /\ \A r \in Row : Replay(Append(rows, r)) = ApplyOp(Replay(rows), r.op)
<1>1. OpsOf(rows) \in Seq(Op)
  BY LogOps
<1>2. Replay(rows) \in Entity
  BY <1>1, FirstTasks, ApplyAllType DEF Replay
<1>3. ASSUME NEW r \in Row PROVE Replay(Append(rows, r)) = ApplyOp(Replay(rows), r.op)
  <2> DEFINE s == OpsOf(rows)
             t == OpsOf(Append(rows, r))
  <2>1. r.op \in Op /\ \A x \in Row : x.op \in Op
    BY RowFields
  <2>2. Append(rows, r) \in Seq(Row) /\ Len(Append(rows, r)) = Len(rows) + 1 /\ Len(rows) \in Nat
        /\ \A i \in 1..(Len(rows) + 1) : Append(rows, r)[i] = IF i = Len(rows) + 1 THEN r ELSE rows[i]
    OBVIOUS
  <2>3. /\ s \in Seq(Op) /\ Len(s) = Len(rows) /\ \A i \in 1..Len(rows) : s[i] = rows[i].op
    BY <2>1, OpsOfType
  <2>4. /\ t \in Seq(Op) /\ Len(t) = Len(rows) + 1
        /\ \A i \in 1..(Len(rows) + 1) : t[i] = Append(rows, r)[i].op
    <3> DEFINE x == Append(rows, r)
    <3> HIDE DEF x
    <3>1. x \in Seq(Row) /\ Len(x) = Len(rows) + 1
      BY <2>2 DEF x
    <3>2. OpsOf(x) \in Seq(Op) /\ Len(OpsOf(x)) = Len(x) /\ \A i \in 1..Len(x) : OpsOf(x)[i] = x[i].op
      BY <2>1, <3>1, OpsOfType
    <3> QED
      BY <3>1, <3>2 DEF x
  <2> HIDE DEF s, t
  <2>5. t = s \o <<r.op>>
    <3>1. s \o <<r.op>> = Append(s, r.op)
      BY <2>1, <2>3
    <3>2. \A i \in 1..(Len(rows) + 1) : t[i] = Append(s, r.op)[i]
      BY <2>1, <2>2, <2>3, <2>4
    <3> QED
      BY <2>1, <2>3, <2>4, <3>1, <3>2
  <2>6. ApplyAll(Original, t) = ApplyAll(ApplyAll(Original, s), <<r.op>>)
    <3> DEFINE q == <<r.op>>
    <3>1. q \in Seq(Op) /\ s \in Seq(Op)
      BY <2>1, <2>3
    <3>2. Applies(Entity, Op) /\ Original \in Entity
      BY ApplyOpType, FirstTasks
    <3> HIDE DEF q
    <3>3. ApplyAll(Original, s \o q) = ApplyAll(ApplyAll(Original, s), q)
      BY <3>1, <3>2, ApplyAllConcat
    <3> QED
      BY <2>5, <3>3 DEF q
  <2>7. ApplyAll(Original, s) \in Entity
    BY <2>3, FirstTasks, ApplyAllType
  <2>8. ApplyAll(ApplyAll(Original, s), <<r.op>>) = ApplyOp(ApplyAll(Original, s), r.op)
    BY <2>1, <2>7, ApplyOpType, ApplyAllShort
  <2> QED
    BY <2>6, <2>8 DEF Replay, s, t
<1> QED
  BY <1>2, <1>3

\* A status changes nothing that is replayed.
LEMMA ReplaySame ==
  ASSUME NEW rows, NEW more, DOMAIN more = DOMAIN rows, \A i \in DOMAIN rows : more[i].op = rows[i].op
  PROVE  Replay(more) = Replay(rows)
<1>1. OpsOf(more) = OpsOf(rows)
  BY DEF OpsOf
<1> QED
  BY <1>1 DEF Replay

\* What an operation does depends on its kind and its values.
LEMMA ApplySame ==
  ASSUME NEW e, NEW o, NEW p, o.kind = p.kind, o.vals = p.vals
  PROVE  ApplyOp(e, o) = ApplyOp(e, p)
  BY DEF ApplyOp

\* A step replays its operation, and shows it or does not.
LEMMA TakeReplays ==
  ASSUME NEW d \in Client, NEW v \in Device, NEW s \in Step
  PROVE  /\ Take(d, v, s) \in Device
         /\ Replay(Take(d, v, s).log) = ApplyOp(Replay(v.log), s.op)
         /\ Take(d, v, s).live = IF s.how \in {"remote", "apply"} THEN ApplyOp(v.live, s.op) ELSE v.live
<1>1. v.log \in Seq(Row)
  BY DEF Device
<1>2. PICK r \in Row : /\ Take(d, v, s).log = Append(v.log, r)
                       /\ r.op.kind = s.op.kind /\ r.op.vals = s.op.vals
  BY TakeOf
<1>3. Replay(Take(d, v, s).log) = ApplyOp(Replay(v.log), r.op)
  BY <1>1, <1>2, ReplayOf
<1>4. ApplyOp(Replay(v.log), r.op) = ApplyOp(Replay(v.log), s.op)
  BY <1>2, ApplySame
<1> QED
  BY <1>3, <1>4, TakeOf

\* A device that shows what a start would rebuild.
InStep(v) == v.live = Replay(v.log)

\* An own operation that is shown, or that changes nothing.
LEMMA AppendAnyOf ==
  ASSUME NEW d \in Client, NEW v \in Device, NEW ops \in Seq(Op)
  PROVE  /\ AppendAny(d, v, ops) \in Device
         /\ InStep(v) /\ (ops # <<>> => Restates(ops[1], v.live)) => InStep(AppendAny(d, v, ops))
<1>1. CASE ops = <<>>
  BY <1>1 DEF AppendAny
<1>2. CASE ops # <<>>
  <2> DEFINE o == ops[1]
             w == AppendLocal(d, v, o)
  <2>1. o \in Op
    BY <1>2, SeqElements
  <2> HIDE DEF o
  <2>2. PICK r \in Row : /\ w \in Device /\ w.live = v.live /\ w.log = Append(v.log, r)
                         /\ r.op.kind = o.kind /\ r.op.vals = o.vals
    BY <2>1, AppendLocalOf
  <2>3. AppendAny(d, v, ops) = w
    BY <1>2 DEF AppendAny, o
  <2> HIDE DEF w
  <2>4. v.log \in Seq(Row)
    BY DEF Device
  <2>5. Replay(w.log) = ApplyOp(Replay(v.log), r.op)
    BY <2>2, <2>4, ReplayOf
  <2>6. ApplyOp(Replay(v.log), r.op) = ApplyOp(Replay(v.log), o)
    BY <2>2, ApplySame
  <2>7. Restates(o, v.live) => ApplyOp(v.live, o) = v.live
    BY RestatesNothing
  <2> QED
    BY <1>2, <2>2, <2>3, <2>5, <2>6, <2>7 DEF InStep, o
<1> QED
  BY <1>1, <1>2

\* Operations that are shown as they are stored keep the screen and the log in step.
LEMMA ShownSteps ==
  ASSUME NEW d \in Client, NEW v \in Device, InStep(v), NEW s \in Seq(Hows({"remote", "apply"}))
  PROVE  InStep(TakeFrom(d, v, s))
<1> DEFINE E == {x \in Device : InStep(x)}
           O == Hows({"remote", "apply"})
<1>1. Takes(d, E, O)
  <2> SUFFICES ASSUME NEW a \in E, NEW b \in O PROVE Take(d, a, b) \in E
    BY DEF Takes
  <2>1. a \in Device /\ a.live = Replay(a.log) /\ b \in Step /\ b.how \in {"remote", "apply"}
    BY DEF InStep, Hows
  <2> QED
    BY <2>1, TakeReplays DEF InStep
<1>2. v \in E /\ s \in Seq(O)
  OBVIOUS
<1> HIDE DEF E, O
<1>3. PICK f : TakenBy(f, d, E, v, s)
  BY <1>1, <1>2, TakeFromSteps
<1>4. TakeFrom(d, v, s) \in E
  BY <1>2, <1>3 DEF TakenBy
<1> QED
  BY <1>4 DEF E

\* Losers are stored only.
LEMMA LosingSteps ==
  ASSUME NEW d \in Client, NEW v \in Device, NEW s \in Seq(Hows({"lose", "keep"}))
  PROVE  TakeFrom(d, v, s).live = v.live
<1> DEFINE E == {x \in Device : x.live = v.live}
           O == Hows({"lose", "keep"})
<1>1. Takes(d, E, O)
  <2> SUFFICES ASSUME NEW a \in E, NEW b \in O PROVE Take(d, a, b) \in E
    BY DEF Takes
  <2>1. a \in Device /\ a.live = v.live /\ b \in Step /\ b.how \in {"lose", "keep"}
    BY DEF Hows
  <2> QED
    BY <2>1, TakeReplays
<1>2. v \in E /\ s \in Seq(O)
  OBVIOUS
<1> HIDE DEF E, O
<1>3. PICK f : TakenBy(f, d, E, v, s)
  BY <1>1, <1>2, TakeFromSteps
<1>4. TakeFrom(d, v, s) \in E
  BY <1>2, <1>3 DEF TakenBy
<1> QED
  BY <1>4 DEF E

\* Replacements that are shown or kept: the log ends with them, and so does the screen if
\* one of them is shown.
LEMMA PuttingSteps ==
  ASSUME NEW d \in Client, NEW v \in Device, NEW X, NEW c \in Seq(Puts(X)), c # <<>>
  PROVE  /\ Replay(TakeFrom(d, v, c).log) = X
         /\ (\E s \in ToSet(c) : s.how = "apply") => TakeFrom(d, v, c).live = X
<1>1. c \in Seq(Step) /\ Len(c) \in Nat /\ Len(c) \in 1..Len(c)
      /\ \A n \in 1..Len(c) : c[n] \in Step /\ c[n] \in Puts(X)
  <2>1. Puts(X) \subseteq Step
    BY DEF Puts, Hows
  <2>2. c \in Seq(Step)
    BY <2>1, SeqMore
  <2>3. \A n \in 1..Len(c) : c[n] \in Puts(X)
    BY SeqElements
  <2>4. Len(c) \in Nat /\ Len(c) # 0
    OBVIOUS
  <2> QED
    BY <2>1, <2>2, <2>3, <2>4
<1>2. PICK f : TakenBy(f, d, Device, v, c)
  BY <1>1, TakeFromType, TakeFromSteps
<1>3. /\ TakeFrom(d, v, c) = f[Len(c)]
      /\ \A n \in 0..Len(c) : f[n] \in Device
      /\ \A n \in 1..Len(c) : f[n] = Take(d, f[n - 1], c[n]) /\ f[n - 1] \in Device
  BY <1>1, <1>2 DEF TakenBy
<1>4. ASSUME NEW n \in 1..Len(c)
      PROVE  /\ Replay(f[n].log) = X
             /\ f[n].live = IF c[n].how = "apply" THEN X ELSE f[n - 1].live
  <2>1. c[n] \in Step /\ c[n].how \in {"keep", "apply"} /\ c[n].op.kind = "replace" /\ c[n].op.vals = X
    BY <1>1 DEF Puts, Hows
  <2>2. \A e : ApplyOp(e, c[n].op) = X
    BY <2>1 DEF ApplyOp
  <2>3. f[n] = Take(d, f[n - 1], c[n]) /\ f[n - 1] \in Device
    BY <1>3
  <2> QED
    BY <2>1, <2>2, <2>3, TakeReplays
<1>5. ASSUME NEW s \in ToSet(c), s.how = "apply" PROVE f[Len(c)].live = X
  <2>1. PICK k \in 1..Len(c) : c[k] = s
    BY ToSetOf
  <2> DEFINE S == {n \in Nat : n >= k => f[n].live = X}
  <2>2. 0 \in S
    OBVIOUS
  <2>3. ASSUME NEW n \in 0..(Len(c) - 1), n \in S PROVE n + 1 \in S
    <3>1. n + 1 \in 1..Len(c) /\ (n + 1) - 1 = n /\ n \in Nat
      BY <1>1
    <3>2. f[n + 1].live = IF c[n + 1].how = "apply" THEN X ELSE f[n].live
      BY <1>4, <3>1
    <3>3. n >= k => f[n].live = X
      BY <2>3
    <3>4. n + 1 >= k => n >= k \/ n + 1 = k
      BY <3>1
    <3>5. n + 1 = k => c[n + 1].how = "apply"
      BY <1>5, <2>1
    <3> QED
      BY <3>1, <3>2, <3>3, <3>4, <3>5
  <2>4. Len(c) \in S
    <3> HIDE DEF S
    <3>1. \A n \in 0..Len(c) : n \in S
      BY <1>1, <2>2, <2>3, Upward
    <3> QED
      BY <1>1, <3>1
  <2> QED
    BY <1>1, <2>4
<1> QED
  BY <1>1, <1>3, <1>4, <1>5

\* Remote operations that are shown apply to the screen and to the replay alike.
LEMMA RemoteSteps ==
  ASSUME NEW d \in Client, NEW v \in Device, NEW w \in Seq(Sent)
  PROVE  /\ TakeFrom(d, v, Steps(w, "remote")).live = ApplyAll(v.live, w)
         /\ Replay(TakeFrom(d, v, Steps(w, "remote")).log) = ApplyAll(Replay(v.log), w)
<1> DEFINE s == Steps(w, "remote")
           e == v.live
           r == Replay(v.log)
<1>1. w \in Seq(Op) /\ Len(w) \in Nat /\ \A i \in 1..Len(w) : w[i] \in Op /\ w[i] \in Sent
  BY SentSeq, SeqElements
<1>2. e \in Entity /\ r \in Entity
  BY ReplayOf DEF Device
<1>3. s \in Seq(Step) /\ Len(s) = Len(w) /\ \A i \in 1..Len(w) : s[i] = [op |-> w[i], how |-> "remote"]
  <2>1. s \in Seq(Hows({"remote"})) /\ Len(s) = Len(w)
    BY <1>1, StepsHow
  <2>2. Hows({"remote"}) \subseteq Step
    BY DEF Hows
  <2>3. s = [i \in DOMAIN w |-> [op |-> w[i], how |-> "remote"]]
    BY DEF Steps
  <2>4. DOMAIN w = 1..Len(w)
    OBVIOUS
  <2> HIDE DEF s
  <2> QED
    BY <2>1, <2>2, <2>3, <2>4, SeqMore
<1> HIDE DEF s, e, r
<1>4. PICK f : TakenBy(f, d, Device, v, s)
  BY <1>3, TakeFromType, TakeFromSteps
<1>5. PICK g : AppliedBy(g, Entity, e, w)
  BY <1>1, <1>2, ApplyOpType, ApplyAllSteps
<1>6. PICK h : AppliedBy(h, Entity, r, w)
  BY <1>1, <1>2, ApplyOpType, ApplyAllSteps
<1> DEFINE S == {n \in Nat : f[n].live = g[n] /\ Replay(f[n].log) = h[n]}
<1>7. 0 \in S
  BY <1>4, <1>5, <1>6 DEF TakenBy, AppliedBy, e, r
<1>8. ASSUME NEW n \in 0..(Len(w) - 1), n \in S PROVE n + 1 \in S
  <2>1. n + 1 \in 1..Len(w) /\ (n + 1) - 1 = n /\ n + 1 \in Nat /\ n \in 0..Len(s) /\ n + 1 \in 1..Len(s)
    BY <1>1, <1>3
  <2>2. f[n] \in Device /\ f[n + 1] = Take(d, f[n], s[n + 1])
    BY <1>4, <2>1 DEF TakenBy
  <2>3. g[n + 1] = ApplyOp(g[n], w[n + 1])
    BY <1>5, <2>1 DEF AppliedBy
  <2>4. h[n + 1] = ApplyOp(h[n], w[n + 1])
    BY <1>6, <2>1 DEF AppliedBy
  <2>5. s[n + 1] \in Step /\ s[n + 1].how = "remote" /\ s[n + 1].op = w[n + 1]
    <3>1. s[n + 1] \in Step
      BY <1>3, <2>1, SeqElements
    <3>2. s[n + 1] = [op |-> w[n + 1], how |-> "remote"]
      BY <1>3, <2>1
    <3> QED
      BY <3>1, <3>2
  <2>6. f[n + 1].live = ApplyOp(f[n].live, w[n + 1]) /\ Replay(f[n + 1].log) = ApplyOp(Replay(f[n].log), w[n + 1])
    BY <2>2, <2>5, TakeReplays
  <2> QED
    BY <1>8, <2>1, <2>3, <2>4, <2>6
<1>9. Len(w) \in S
  <2> HIDE DEF S
  <2>1. \A n \in 0..Len(w) : n \in S
    BY <1>1, <1>7, <1>8, Upward
  <2> QED
    BY <1>1, <2>1
<1>10. f[Len(w)].live = g[Len(w)] /\ Replay(f[Len(w)].log) = h[Len(w)]
  BY <1>9
<1>11. TakeFrom(d, v, s) = f[Len(w)] /\ ApplyAll(e, w) = g[Len(w)] /\ ApplyAll(r, w) = h[Len(w)]
  BY <1>3, <1>4, <1>5, <1>6 DEF TakenBy, AppliedBy
<1> QED
  BY <1>10, <1>11 DEF s, e, r

\* Plain edits laid over a task twice are laid over it once.
LEMMA Idempotent ==
  ASSUME NEW w \in Seq(Op), OnlyUpdates(w), NEW e \in Task
  PROVE  ApplyAll(e, w) \in Task /\ ApplyAll(ApplyAll(e, w), w) = ApplyAll(e, w)
<1> DEFINE O == {o \in Op : IsUpdate(o)}
<1>1. w \in Seq(O) /\ Len(w) \in Nat /\ \A n \in 1..Len(w) : w[n] \in O
  <2>1. \A n \in 1..Len(w) : w[n] \in Op /\ w[n] \in ToSet(w)
    BY SeqElements
  <2>2. \A n \in 1..Len(w) : w[n] \in O
    BY <2>1 DEF OnlyUpdates
  <2> HIDE DEF O
  <2> QED
    BY <2>2, SeqInto
<1>2. ASSUME NEW t \in Task, NEW o \in O
      PROVE  /\ ApplyOp(t, o) \in Task
             /\ \A x \in Field : ApplyOp(t, o)[x] = IF x \in DOMAIN o.vals THEN o.vals[x] ELSE t[x]
  <2>1. t # Gone /\ DOMAIN t = Field /\ o \in Op /\ o.kind = "update"
    BY TaskIsThere DEF Task, IsUpdate
  <2>2. ApplyOp(t, o) = Put(t, o.vals)
    BY <2>1 DEF ApplyOp
  <2>3. Put(t, o.vals) \in Task
    BY <2>1, OpFields, PutType
  <2>4. \A x \in Field : Put(t, o.vals)[x] = IF x \in DOMAIN o.vals THEN o.vals[x] ELSE t[x]
    BY <2>1 DEF Put
  <2> QED
    BY <2>2, <2>3, <2>4
<1> HIDE DEF O
<1>3. Applies(Task, O)
  BY <1>2 DEF Applies
<1>4. PICK f : AppliedBy(f, Task, e, w)
  BY <1>1, <1>3, ApplyAllSteps
<1> DEFINE t == ApplyAll(e, w)
<1>5. t = f[Len(w)] /\ t \in Task
  BY <1>1, <1>4 DEF AppliedBy
<1> HIDE DEF t
<1>6. PICK g : AppliedBy(g, Task, t, w)
  BY <1>1, <1>3, <1>5, ApplyAllSteps
<1> DEFINE S == {n \in Nat : \A x \in Field : g[n][x] = f[n][x] \/ g[n][x] = t[x]}
<1>7. 0 \in S
  BY <1>6 DEF AppliedBy
<1>8. ASSUME NEW n \in 0..(Len(w) - 1), n \in S PROVE n + 1 \in S
  <2>1. n + 1 \in 1..Len(w) /\ (n + 1) - 1 = n /\ n + 1 \in Nat /\ n \in 0..Len(w)
    BY <1>1
  <2>2. f[n] \in Task /\ f[n + 1] = ApplyOp(f[n], w[n + 1])
    BY <1>4, <2>1 DEF AppliedBy
  <2>3. g[n] \in Task /\ g[n + 1] = ApplyOp(g[n], w[n + 1])
    BY <1>6, <2>1 DEF AppliedBy
  <2>4. w[n + 1] \in O
    BY <1>1, <2>1
  <2>5. \A x \in Field : f[n + 1][x] = IF x \in DOMAIN w[n + 1].vals THEN w[n + 1].vals[x] ELSE f[n][x]
    BY <1>2, <2>2, <2>4
  <2>6. \A x \in Field : g[n + 1][x] = IF x \in DOMAIN w[n + 1].vals THEN w[n + 1].vals[x] ELSE g[n][x]
    BY <1>2, <2>3, <2>4
  <2>7. \A x \in Field : g[n][x] = f[n][x] \/ g[n][x] = t[x]
    BY <1>8
  <2>8. \A x \in Field : g[n + 1][x] = f[n + 1][x] \/ g[n + 1][x] = t[x]
    BY <2>5, <2>6, <2>7
  <2> QED
    BY <2>1, <2>8
<1>9. Len(w) \in S
  <2> HIDE DEF S
  <2>1. \A n \in 0..Len(w) : n \in S
    BY <1>1, <1>7, <1>8, Upward
  <2> QED
    BY <1>1, <2>1
<1>10. g[Len(w)] \in Task /\ ApplyAll(t, w) = g[Len(w)]
  BY <1>1, <1>6 DEF AppliedBy
<1>11. \A x \in Field : g[Len(w)][x] = t[x]
  BY <1>5, <1>9
<1>12. g[Len(w)] = t
  BY <1>5, <1>10, <1>11 DEF Task
<1> QED
  BY <1>5, <1>10, <1>12 DEF t

\* Two parts of a resolution.
LEMMA TakeFromTwo ==
  ASSUME NEW d \in Client, NEW v \in Device, NEW s \in Seq(Step), NEW t \in Seq(Step)
  PROVE  s \o t \in Seq(Step) /\ TakeFrom(d, v, s \o t) = TakeFrom(d, TakeFrom(d, v, s), t)
<1>1. Takes(d, Device, Step)
  BY TakeFromType
<1>2. TakeFrom(d, v, s \o t) = TakeFrom(d, TakeFrom(d, v, s), t)
  BY <1>1, TakeFromConcat
<1> QED
  BY <1>2

\* Whole-entity resolution keeps the screen and the log in step: where losers are only
\* stored, a replacement follows that carries what is on screen.
LEMMA WholeInStep ==
  ASSUME NoDeletes, NEW d \in Client, NEW v \in Device, InStep(v),
         NEW mine \in Seq(Sent), NEW remote \in Seq(Sent)
  PROVE  InStep(TakeFrom(d, v, WholeSteps(d, v.live, mine, remote)))
<1> DEFINE entity == v.live
           whole == WholeSteps(d, entity, mine, remote)
<1>1. entity \in Entity /\ entity \in Task
  BY DEF Device, Entity
<1>2. PICK a, b, c, e, f : WholeParts(entity, whole, a, b, c, e, f)
  BY <1>1, WholeStepsParts
<1> HIDE DEF whole, entity
<1> DEFINE v1 == TakeFrom(d, v, a)
           v2 == TakeFrom(d, v1, b)
           v3 == TakeFrom(d, v2, c)
           v4 == TakeFrom(d, v3, e)
           v5 == TakeFrom(d, v4, f)
<1>3. /\ a \in Seq(Hows({"lose"})) /\ b \in Seq(Hows({"remote"})) /\ c \in Seq(Hows({"keep", "apply"}))
      /\ e = <<>> /\ f \in Seq(Hows({"remote"})) /\ whole = a \o b \o c \o e \o f
  BY <1>2 DEF WholeParts
<1>4. /\ a \in Seq(Hows({"lose", "keep"})) /\ b \in Seq(Hows({"remote", "apply"}))
      /\ a \in Seq(Step) /\ b \in Seq(Step) /\ c \in Seq(Step) /\ e \in Seq(Step) /\ f \in Seq(Step)
  <2>1. /\ Hows({"lose"}) \subseteq Hows({"lose", "keep"}) /\ Hows({"remote"}) \subseteq Hows({"remote", "apply"})
        /\ \A S : Hows(S) \subseteq Step
    BY DEF Hows
  <2>2. a \in Seq(Hows({"lose", "keep"})) /\ b \in Seq(Hows({"remote", "apply"}))
    BY <1>3, <2>1, SeqMore
  <2>3. a \in Seq(Step) /\ b \in Seq(Step) /\ c \in Seq(Step) /\ f \in Seq(Step)
    BY <1>3, <2>1, SeqMore
  <2> QED
    BY <1>3, <2>2, <2>3
<1>5. Takes(d, Device, Step)
  BY TakeFromType
<1>6. /\ v1 \in Device /\ v2 \in Device /\ v3 \in Device /\ v4 \in Device /\ v5 \in Device
      /\ TakeFrom(d, v, whole) = v5
  <2>1. v1 \in Device
    BY <1>4, TakeFromType
  <2>2. v2 \in Device
    BY <1>4, <2>1, TakeFromType
  <2>3. v3 \in Device
    BY <1>4, <2>2, TakeFromType
  <2>4. v4 \in Device
    BY <1>4, <2>3, TakeFromType
  <2>5. v5 \in Device
    BY <1>4, <2>4, TakeFromType
  <2> DEFINE ab == a \o b
             abc == ab \o c
             abce == abc \o e
  <2>6. ab \in Seq(Step) /\ TakeFrom(d, v, ab) = v2
    BY <1>4, TakeFromTwo
  <2>7. abc \in Seq(Step) /\ TakeFrom(d, v, abc) = v3
    <3> HIDE DEF ab, v2
    <3> QED
      BY <1>4, <2>6, TakeFromTwo
  <2>8. abce \in Seq(Step) /\ TakeFrom(d, v, abce) = v4
    <3> HIDE DEF abc, v3
    <3> QED
      BY <1>4, <2>7, TakeFromTwo
  <2>9. TakeFrom(d, v, abce \o f) = v5
    <3> HIDE DEF abce, v4
    <3> QED
      BY <1>4, <2>8, TakeFromTwo
  <2>10. whole = abce \o f
    BY <1>3
  <2> HIDE DEF abce, v1, v2, v3, v4, v5
  <2> QED
    BY <2>1, <2>2, <2>3, <2>4, <2>5, <2>9, <2>10
<1>7. \A x \in Device : TakeFrom(d, x, <<>>) = x
  BY <1>5, TakeFromShort
<1>8. v4 = v3
  BY <1>3, <1>6, <1>7
<1>9. v1.live = entity
  BY <1>4, LosingSteps DEF entity
<1>10. CASE a = <<>> /\ c = <<>> /\ f = <<>>
  <2>1. v1 = v
    BY <1>7, <1>10
  <2>2. InStep(v2)
    BY <1>4, <2>1, ShownSteps
  <2>3. v5 = v2
    BY <1>6, <1>7, <1>8, <1>10
  <2> QED
    BY <1>6, <2>2, <2>3 DEF whole, entity
<1>11. CASE ~(a = <<>> /\ c = <<>> /\ f = <<>>)
  <2>1. PICK w \in Seq(Sent), X \in Entity :
          /\ f = Steps(w, "remote") /\ c \in Seq(Puts(X)) /\ c # <<>>
          /\ X = entity \/ (OnlyUpdates(w) /\ X = ApplyAll(entity, w))
          /\ \/ b = <<>> /\ \A s \in ToSet(c) : s.how = "keep"
             \/ \E s \in ToSet(c) : s.how = "apply"
    BY <1>2, <1>11 DEF WholeParts
  <2>2. Replay(v3.log) = X /\ ((\E s \in ToSet(c) : s.how = "apply") => v3.live = X)
    BY <1>6, <2>1, PuttingSteps
  <2>3. v3.live \in {X, entity}
    <3>1. CASE b = <<>> /\ \A s \in ToSet(c) : s.how = "keep"
      <4>1. v2 = v1
        BY <1>6, <1>7, <3>1
      <4>2. \A i \in 1..Len(c) : c[i] \in Step /\ c[i] \in ToSet(c)
        BY <1>4, SeqElements
      <4>3. \A i \in 1..Len(c) : c[i] \in Hows({"lose", "keep"})
        BY <3>1, <4>2 DEF Hows
      <4>4. c \in Seq(Hows({"lose", "keep"}))
        BY <1>4, <4>3, SeqInto
      <4>5. v3.live = v2.live
        BY <1>6, <4>4, LosingSteps
      <4> QED
        BY <1>9, <4>1, <4>5
    <3>2. CASE \E s \in ToSet(c) : s.how = "apply"
      BY <2>2, <3>2
    <3> QED
      BY <2>1, <3>1, <3>2
  <2>4. v5.live = ApplyAll(v3.live, w) /\ Replay(v5.log) = ApplyAll(X, w)
    <3>1. v5 = TakeFrom(d, v3, Steps(w, "remote"))
      BY <1>8, <2>1
    <3> HIDE DEF v3, v5
    <3> QED
      BY <1>6, <2>2, <3>1, RemoteSteps
  <2>5. ApplyAll(v3.live, w) = ApplyAll(X, w)
    <3>1. CASE v3.live = X
      BY <3>1
    <3>2. CASE v3.live = entity /\ X # entity
      <4>1. OnlyUpdates(w) /\ X = ApplyAll(entity, w) /\ w \in Seq(Op)
        BY <2>1, <3>2, SentSeq
      <4>2. ApplyAll(X, w) = ApplyAll(entity, w)
        BY <1>1, <4>1, Idempotent
      <4> QED
        BY <3>2, <4>2
    <3> QED
      BY <2>3, <3>1, <3>2
  <2>6. InStep(v5)
    BY <2>4, <2>5 DEF InStep
  <2> QED
    BY <1>6, <2>6 DEF whole, entity
<1> QED
  BY <1>10, <1>11

\* Both kinds of resolution consist of steps.
LEMMA ResolutionType ==
  ASSUME NEW d \in Client, NEW entity \in Entity, NEW mine \in Seq(Sent), NEW remote \in Seq(Sent)
  PROVE  /\ WholeSteps(d, entity, mine, remote) \in Seq(Step)
         /\ PatchSteps(d, mine, remote) \in Seq(Hows({"remote", "apply"}))
<1>0. \A S : Hows(S) \subseteq Step
  BY DEF Hows
<1>1. WholeSteps(d, entity, mine, remote) \in Seq(Step)
  <2>1. PICK a, b, c, e, f : WholeParts(entity, WholeSteps(d, entity, mine, remote), a, b, c, e, f)
    BY WholeStepsParts
  <2>2. a \in Seq(Step) /\ b \in Seq(Step) /\ c \in Seq(Step) /\ e \in Seq(Step) /\ f \in Seq(Step)
    BY <1>0, <2>1, SeqMore DEF WholeParts
  <2>3. a \o b \o c \o e \o f \in Seq(Step)
    BY <2>2
  <2> QED
    BY <2>1, <2>3 DEF WholeParts
<1>2. PatchSteps(d, mine, remote) \in Seq(Hows({"remote", "apply"}))
  <2> DEFINE s == Steps(remote, "remote")
             t == Steps(Resends(d, mine, remote), "apply")
  <2>1. mine \in Seq(Op) /\ remote \in Seq(Op)
    BY SentSeq
  <2>2. s \in Seq(Hows({"remote"}))
    BY <2>1, StepsHow
  <2>3. t \in Seq(Hows({"apply"}))
    <3> DEFINE r == Resends(d, mine, remote)
    <3>1. r \in Seq(Op)
      BY <2>1, ResendsType
    <3> HIDE DEF r
    <3>2. Steps(r, "apply") \in Seq(Hows({"apply"}))
      BY <3>1, StepsHow
    <3> QED
      BY <3>2 DEF r
  <2>4. /\ Hows({"remote"}) \subseteq Hows({"remote", "apply"})
        /\ Hows({"apply"}) \subseteq Hows({"remote", "apply"})
    BY DEF Hows
  <2> HIDE DEF s, t
  <2>5. s \in Seq(Hows({"remote", "apply"})) /\ t \in Seq(Hows({"remote", "apply"}))
    BY <2>2, <2>3, <2>4, SeqMore
  <2>6. s \o t \in Seq(Hows({"remote", "apply"}))
    BY <2>5
  <2> QED
    BY <2>6 DEF PatchSteps, s, t
<1> QED
  BY <1>1, <1>2

-----------------------------------------------------------------------------
(* Processing a batch *)

\* The device as it is, if its variables have their types.
LEMMA StateType ==
  ASSUME NEW d \in Client, log[d] \in Seq(Row), live[d] \in Entity, clock[d] \in Clock
  PROVE  /\ State(d) \in Device /\ State(d).log = log[d] /\ State(d).live = live[d]
         /\ State(d).clock = clock[d]
  BY DEF State, Device

\* A resolution, and the clocks of what was applied.
LEMMA TakeAllOf ==
  ASSUME NEW d \in Client, State(d) \in Device, NEW s \in Seq(Step)
  PROVE  /\ TakeAll(d, s) \in Device
         /\ InStep(TakeFrom(d, State(d), s)) => InStep(TakeAll(d, s))
<1> DEFINE applied == Kept(s, {x \in ToSet(s) : x.how = "remote"})
           t == TakeFrom(d, State(d), s)
           ops == OpsOf(applied)
           c == MergeAll(t.clock, ops)
<1>1. t \in Device
  BY TakeFromType
<1>2. ops \in Seq(Op)
  <2>1. applied \in Seq(Step)
    BY KeptSet
  <2>2. \A x \in Step : x.op \in Op
    BY DEF Step
  <2> HIDE DEF applied
  <2> QED
    BY <2>1, <2>2, OpsOfType
<1>3. c \in Clock
  <2> HIDE DEF ops, t
  <2> QED
    BY <1>1, <1>2, OpMerges DEF Device
<1>4. TakeAll(d, s) = [t EXCEPT !.clock = c]
  <2>1. TakeAll(d, s) = [t EXCEPT !.clock = MergeAll(@, ops)]
    BY DEF TakeAll
  <2> HIDE DEF t, ops
  <2> QED
    BY <1>1, <2>1 DEF Device
<1> HIDE DEF t, c
<1>5. [t EXCEPT !.clock = c] \in Device /\ [t EXCEPT !.clock = c].log = t.log
      /\ [t EXCEPT !.clock = c].live = t.live
  BY <1>1, <1>3 DEF Device
<1> QED
  BY <1>4, <1>5 DEF InStep, t

\* The downloaded operations of one verdict.
LEMMA OfVerdictType ==
  ASSUME NEW d, NEW news \in Seq(Sent), NEW verdict
  PROVE  OfVerdict(d, news, verdict) \in Seq(Sent)
  BY KeptSet DEF OfVerdict

\* Up to the last append: the device stays one, and without deletions in step with its log.
LEMMA StoredOf ==
  ASSUME NEW d \in Client, log[d] \in Seq(Row), live[d] \in Entity, clock[d] \in Clock,
         NEW news \in Seq(Sent)
  PROVE  /\ Stored(d, news) \in Device
         /\ NoDeletes /\ InStep(State(d)) => InStep(Stored(d, news))
<1> DEFINE mine == Pending(log[d])
           remote == OfVerdict(d, news, "conflict")
           plain == OfVerdict(d, news, "apply")
           patched == Patchable(live[d], mine, remote)
           steps == IF remote = <<>> THEN <<>>
                    ELSE IF patched THEN PatchSteps(d, mine, remote)
                    ELSE WholeSteps(d, live[d], mine, remote)
           rest == Steps(plain, "remote")
           v == State(d)
<1>1. v \in Device /\ v.log = log[d] /\ v.live = live[d] /\ v.clock = clock[d]
  BY StateType
<1>2. mine \in Seq(Sent) /\ remote \in Seq(Sent) /\ plain \in Seq(Sent)
  BY LogOps, OfVerdictType
<1>3. Stored(d, news) = TakeAll(d, steps \o rest)
  BY DEF Stored
<1> HIDE DEF mine, remote, plain, patched, v
<1>4. /\ WholeSteps(d, live[d], mine, remote) \in Seq(Step)
      /\ PatchSteps(d, mine, remote) \in Seq(Hows({"remote", "apply"}))
  BY <1>2, ResolutionType
<1>5. Hows({"remote", "apply"}) \subseteq Step /\ Hows({"remote"}) \subseteq Hows({"remote", "apply"})
  BY DEF Hows
<1>6. PatchSteps(d, mine, remote) \in Seq(Step)
  BY <1>4, <1>5, SeqMore
<1>7. steps \in Seq(Step)
  BY <1>4, <1>6
<1>8. rest \in Seq(Hows({"remote", "apply"})) /\ rest \in Seq(Step)
  <2>1. rest \in Seq(Hows({"remote"}))
    BY <1>2, SentSeq, StepsHow
  <2> HIDE DEF rest
  <2> QED
    BY <1>5, <2>1, SeqMore
<1>9. InStep(v) /\ NoDeletes => InStep(TakeFrom(d, v, steps))
  <2> SUFFICES ASSUME InStep(v), NoDeletes PROVE InStep(TakeFrom(d, v, steps))
    OBVIOUS
  <2>1. CASE remote = <<>>
    <3>1. TakeFrom(d, v, <<>>) = v
      BY <1>1, TakeFromType, TakeFromShort
    <3> QED
      BY <2>1, <3>1
  <2>2. CASE remote # <<>> /\ patched
    <3>1. InStep(TakeFrom(d, v, PatchSteps(d, mine, remote)))
      BY <1>1, <1>4, ShownSteps
    <3> QED
      BY <2>2, <3>1
  <2>3. CASE remote # <<>> /\ ~patched
    <3>1. InStep(TakeFrom(d, v, WholeSteps(d, v.live, mine, remote)))
      BY <1>1, <1>2, WholeInStep
    <3> QED
      BY <1>1, <2>3, <3>1
  <2> QED
    BY <2>1, <2>2, <2>3
<1> HIDE DEF steps, rest
<1>10. steps \o rest \in Seq(Step) /\ TakeFrom(d, v, steps \o rest) = TakeFrom(d, TakeFrom(d, v, steps), rest)
  BY <1>1, <1>7, <1>8, TakeFromTwo
<1>11. TakeFrom(d, v, steps) \in Device
  BY <1>1, <1>7, TakeFromType
<1>12. InStep(v) /\ NoDeletes => InStep(TakeFrom(d, v, steps \o rest))
  BY <1>8, <1>9, <1>10, <1>11, ShownSteps
<1> QED
  BY <1>1, <1>3, <1>10, <1>12, TakeAllOf DEF v

\* Rows with another status.
LEMMA StatusType ==
  ASSUME NEW rows \in Seq(Row), NEW more \in [DOMAIN rows -> Row],
         \A i \in DOMAIN rows : more[i].op = rows[i].op
  PROVE  more \in Seq(Row) /\ Replay(more) = Replay(rows)
<1>1. DOMAIN rows = 1..Len(rows) /\ Len(rows) \in Nat
  BY SeqElements
<1>2. more \in Seq(Row)
  BY <1>1
<1>3. Replay(more) = Replay(rows)
  BY ReplaySame
<1> QED
  BY <1>2, <1>3

\* A row with another status.
LEMMA RowWith ==
  ASSUME NEW r \in Row, NEW st \in {"pending", "synced", "rejected", "remote"}
  PROVE  [r EXCEPT !.st = st] \in Row /\ [r EXCEPT !.st = st].op = r.op
  BY DEF Row

\* The end of a resolution.
LEMMA FinalizeOf ==
  ASSUME NEW d \in Client, NEW v \in Device, NEW mine \in Seq(Sent), NEW remote \in Seq(Sent)
  PROVE  /\ Finalize(d, v, mine, remote) \in Device
         /\ InStep(v) => InStep(Finalize(d, v, mine, remote))
<1> DEFINE whole == ~Patchable(live[d], mine, remote)
           lost == Kept(remote, {r \in ToSet(remote) : whole /\ ~LocalWins(mine, r)})
           beaten == {r \in ToSet(remote) : /\ whole /\ LocalWins(mine, r)
                                            /\ ~AppliesLoser(d, live[d], mine, r)}
           ids == IdsOf(mine) \cup {r.id : r \in beaten}
           rows == [i \in DOMAIN v.log |-> IF v.log[i].op.id \in ids
                                           THEN [v.log[i] EXCEPT !.st = "rejected"] ELSE v.log[i]]
           again == IF lost = <<>> THEN <<>> ELSE Surviving(d, v.live, mine, lost[1])
           w == [v EXCEPT !.log = rows]
<1>1. Finalize(d, v, mine, remote) = AppendAny(d, w, again)
  BY DEF Finalize
<1>2. v.log \in Seq(Row) /\ v.live \in Entity
  BY DEF Device
<1> HIDE DEF ids
<1>3. rows \in Seq(Row) /\ Replay(rows) = Replay(v.log)
  <2>1. \A i \in DOMAIN v.log : v.log[i] \in Row
    BY <1>2, SeqElements
  <2>2. rows \in [DOMAIN v.log -> Row] /\ \A i \in DOMAIN v.log : rows[i].op = v.log[i].op
    BY <2>1, RowWith
  <2> HIDE DEF rows
  <2> QED
    BY <1>2, <2>2, StatusType
<1> HIDE DEF rows
<1>4. w \in Device /\ w.live = v.live /\ w.log = rows
  BY <1>3 DEF Device
<1>5. again \in Seq(Op) /\ (again # <<>> => Restates(again[1], v.live))
  <2>1. lost \in Seq(Op)
    BY KeptSet, SentSeq
  <2>2. mine \in Seq(Op)
    BY SentSeq
  <2> HIDE DEF lost
  <2>3. CASE lost = <<>>
    BY <2>3
  <2>4. CASE lost # <<>>
    <3>1. lost[1] \in Op
      BY <2>1, <2>4, SeqElements
    <3> QED
      BY <1>2, <2>2, <2>4, <3>1, SurvivingType
  <2> QED
    BY <2>3, <2>4
<1> HIDE DEF w, again
<1> QED
  BY <1>1, <1>3, <1>4, <1>5, AppendAnyOf DEF InStep

\* The whole of it.
LEMMA ProcessedOf ==
  ASSUME NEW d \in Client, log[d] \in Seq(Row), live[d] \in Entity, clock[d] \in Clock,
         NEW news \in Seq(Sent)
  PROVE  /\ Processed(d, news) \in Device
         /\ NoDeletes /\ InStep(State(d)) => InStep(Processed(d, news))
<1>1. Stored(d, news) \in Device /\ (NoDeletes /\ InStep(State(d)) => InStep(Stored(d, news)))
  BY StoredOf
<1>2. Pending(log[d]) \in Seq(Sent) /\ OfVerdict(d, news, "conflict") \in Seq(Sent)
  BY LogOps, OfVerdictType
<1> QED
  BY <1>1, <1>2, FinalizeOf DEF Processed

-----------------------------------------------------------------------------
(* The inductive invariant *)

Id == Client \X Nat
Refusal == [op : Sent, clock : Clock]
Answer == [step : {"idle", "sent", "processed", "refused", "fetched"}, taken : SUBSET Id,
           known : SUBSET Id, refused : Seq(Refusal), upto : Nat, seen : Clock]
Plan == Seq({F \in SUBSET Field : NoDeletes => F # {}})

\* A device's rows are operations, and without deletions there is always a task.
DevicesTyped ==
  /\ log \in [Client -> Seq(Row)] /\ live \in [Client -> Entity] /\ clock \in [Client -> Clock]

\* Nothing refers to rows the server does not have.
SyncTyped ==
  /\ shared \in Seq(Sent)
  /\ cursor \in [Client -> Nat] /\ \A d \in Client : cursor[d] <= Len(shared)
  /\ answer \in [Client -> Answer] /\ \A d \in Client : answer[d].upto <= Len(shared)

CountsTyped ==
  /\ attempts \in [Client -> 0..MaxAttempts] /\ time \in [Client -> 0..MaxTime]
  /\ todo \in [Client -> Plan] /\ faults \in 0..MaxFaults

ConflictInv == DevicesTyped /\ SyncTyped /\ CountsTyped

\* What a step has to keep.
Preserved == ConflictInv' /\ (NoDeletes /\ LiveIsReplay => LiveIsReplay')

\* It implies the types.
LEMMA InvTypes == ASSUME ConflictInv PROVE TypeOK
<1>1. \A d \in Client : live[d] = Gone \/ DOMAIN live[d] = Field
  BY DEF ConflictInv, DevicesTyped, Entity, Task
<1>2. ASSUME NEW d \in Client, NEW i \in DOMAIN log[d]
      PROVE  /\ log[d][i].op.id \in Client \X (Nat \ {0})
             /\ log[d][i].st \in {"pending", "synced", "rejected", "remote"}
  <2>1. log[d] \in Seq(Row)
    BY DEF ConflictInv, DevicesTyped
  <2> DEFINE r == log[d][i]
  <2>2. r \in Row
    BY <2>1, SeqElements
  <2> HIDE DEF r
  <2>3. r.op \in Sent /\ r.st \in {"pending", "synced", "rejected", "remote"}
    BY <2>2 DEF Row
  <2>4. r.op.id \in Client \X Nat /\ r.op.id[2] # 0
    BY <2>3, SentSeq, OpFields DEF Sent
  <2> QED
    BY <2>3, <2>4 DEF r
<1>3. cursor \in [Client -> 0..End]
  BY DEF ConflictInv, SyncTyped, End
<1>4. todo \in [Client -> Seq(SUBSET Field)]
  <2>1. {F \in SUBSET Field : NoDeletes => F # {}} \subseteq SUBSET Field
    OBVIOUS
  <2>2. ASSUME NEW d \in Client PROVE todo[d] \in Seq(SUBSET Field)
    BY <2>1, SeqMore DEF ConflictInv, CountsTyped, Plan
  <2> QED
    BY <2>2 DEF ConflictInv, CountsTyped
<1> QED
  BY <1>1, <1>2, <1>3, <1>4 DEF ConflictInv, DevicesTyped, CountsTyped, TypeOK

\* A device that has become v.
LEMMA BecomesOf ==
  ASSUME DevicesTyped, NEW d \in Client, NEW v \in Device, Becomes(d, v)
  PROVE  DevicesTyped' /\ (LiveIsReplay /\ InStep(v) => LiveIsReplay')
<1>1. v.log \in Seq(Row) /\ v.live \in Entity /\ v.clock \in Clock
  BY DEF Device
<1>2. /\ log' = [log EXCEPT ![d] = v.log] /\ live' = [live EXCEPT ![d] = v.live]
      /\ clock' = [clock EXCEPT ![d] = v.clock]
  BY DEF Becomes
<1>3. DevicesTyped'
  BY <1>1, <1>2 DEF DevicesTyped
<1>4. \A e \in Client : log'[e] = (IF e = d THEN v.log ELSE log[e]) /\ live'[e] = (IF e = d THEN v.live ELSE live[e])
  BY <1>2 DEF DevicesTyped
<1>5. LiveIsReplay /\ InStep(v) => LiveIsReplay'
  BY <1>4 DEF LiveIsReplay, InStep
<1> QED
  BY <1>3, <1>5

\* A device as it is.
LEMMA DeviceState ==
  ASSUME DevicesTyped, NEW d \in Client
  PROVE  /\ log[d] \in Seq(Row) /\ live[d] \in Entity /\ clock[d] \in Clock
         /\ State(d) \in Device /\ State(d).log = log[d] /\ State(d).live = live[d]
         /\ State(d).clock = clock[d]
         /\ LiveIsReplay => InStep(State(d))
<1>1. log[d] \in Seq(Row) /\ live[d] \in Entity /\ clock[d] \in Clock
  BY DEF DevicesTyped
<1> QED
  BY <1>1, StateType DEF InStep, LiveIsReplay

\* Downloaded rows are operations.
LEMMA NewsType ==
  ASSUME SyncTyped, NEW d \in Client, NEW upto \in Nat, upto <= Len(shared)
  PROVE  News(d, upto) \in Seq(Sent)
<1> DEFINE s == SubSeq(shared, cursor[d] + 1, upto)
<1>1. s \in Seq(Sent)
  <2>1. shared \in Seq(Sent) /\ cursor[d] \in Nat /\ Len(shared) \in Nat
    BY DEF SyncTyped
  <2>2. \A i \in (cursor[d] + 1)..upto : shared[i] \in Sent
    BY <2>1
  <2> QED
    BY <2>1, <2>2
<1> QED
  BY <1>1, KeptSet DEF News

\* Ids of operations.
LEMMA IdsType ==
  ASSUME NEW s \in Seq(Op) PROVE IdsOf(s) \subseteq Id
<1>1. \A o \in ToSet(s) : o.id \in Id
  BY ToSetOf, OpFields DEF Id
<1> QED
  BY <1>1 DEF IdsOf

\* Nobody waits for an answer.
LEMMA IdleType == Idle \in Answer /\ Idle.upto = 0
<1>1. EmptyClock \in Clock /\ <<>> \in Seq(Refusal)
  BY DEF EmptyClock, Clock
<1> QED
  BY <1>1 DEF Idle, Answer

\* The server's answer to an upload.
LEMMA ServedOf ==
  ASSUME NEW rows \in Seq(Sent), NEW ops \in Seq(Sent)
  PROVE  /\ Served(rows, ops).rows \in Seq(Sent) /\ Served(rows, ops).refused \in Seq(Refusal)
         /\ Len(Served(rows, ops).rows) >= Len(rows)
<1> DEFINE E == {a \in [rows : Seq(Sent), refused : Seq(Refusal)] : Len(a.rows) >= Len(rows)}
           e == [rows |-> rows, refused |-> <<>>]
<1>1. e \in E
  OBVIOUS
<1>2. ASSUME NEW a \in E, NEW o \in Sent PROVE Serve(a, o) \in E
  <2>1. a.rows \in Seq(Sent) /\ a.refused \in Seq(Refusal) /\ Len(a.rows) >= Len(rows)
        /\ Len(a.rows) \in Nat /\ Len(rows) \in Nat
        /\ a \in [rows : Seq(Sent), refused : Seq(Refusal)]
    OBVIOUS
  <2> HIDE DEF E
  <2>2. CASE o.id \in IdsOf(a.rows)
    BY <2>2 DEF Serve
  <2>3. CASE o.id \notin IdsOf(a.rows) /\ Accepts(a.rows, o)
    <3> DEFINE l == Append(a.rows, o)
    <3>1. l \in Seq(Sent) /\ Len(l) >= Len(rows)
      BY <2>1
    <3>2. Serve(a, o) = [a EXCEPT !.rows = l]
      BY <2>3 DEF Serve
    <3> HIDE DEF l
    <3>3. [a EXCEPT !.rows = l] \in [rows : Seq(Sent), refused : Seq(Refusal)] /\ [a EXCEPT !.rows = l].rows = l
      BY <2>1, <3>1
    <3> QED
      BY <3>1, <3>2, <3>3 DEF E
  <2>4. CASE o.id \notin IdsOf(a.rows) /\ ~Accepts(a.rows, o)
    <3> DEFINE x == [op |-> o, clock |-> a.rows[Len(a.rows)].clock]
               l == Append(a.refused, x)
    <3>1. a.rows # <<>>
      BY <2>4 DEF Accepts
    <3>2. a.rows[Len(a.rows)] \in Sent
      BY <2>1, <3>1
    <3>3. a.rows[Len(a.rows)].clock \in Clock
      BY <3>2, SentSeq, OpFields
    <3>4. x \in Refusal
      BY <3>3 DEF Refusal
    <3>5. Serve(a, o) = [a EXCEPT !.refused = l]
      BY <2>4 DEF Serve
    <3> HIDE DEF x
    <3>6. l \in Seq(Refusal)
      BY <2>1, <3>4
    <3> HIDE DEF l
    <3>7. [a EXCEPT !.refused = l] \in [rows : Seq(Sent), refused : Seq(Refusal)]
          /\ [a EXCEPT !.refused = l].rows = a.rows
      BY <2>1, <3>6
    <3> QED
      BY <2>1, <3>5, <3>7 DEF E
  <2> QED
    BY <2>2, <2>3, <2>4
<1>3. Serves(E, Sent)
  BY <1>2 DEF Serves
<1> HIDE DEF E
<1>4. PICK f : ServedBy(f, E, e, rows, ops)
  BY <1>1, <1>3, ServedSteps
<1>5. Len(ops) \in Nat
  OBVIOUS
<1>6. Served(rows, ops) \in E
  BY <1>4, <1>5 DEF ServedBy
<1> QED
  BY <1>6 DEF E

-----------------------------------------------------------------------------
(* The actions *)

\* An action of the user.
LEMMA ActStep ==
  ASSUME ConflictInv, NEW d \in Client, NEW o \in Op, o.ts \in 0..MaxTime, todo[d] # <<>>, Act(d, o)
  PROVE  Preserved
<1> DEFINE v == AppendLocal(d, State(d), o)
           w == [v EXCEPT !.live = ApplyOp(live[d], o)]
<1>1. DevicesTyped /\ SyncTyped /\ CountsTyped
  BY DEF ConflictInv
<1>2. State(d) \in Device /\ State(d).live = live[d] /\ live[d] \in Entity
      /\ State(d).log \in Seq(Row) /\ (LiveIsReplay => InStep(State(d)))
  BY <1>1, DeviceState DEF Device
<1>3. PICK r \in Row : /\ v \in Device /\ v.log = Append(State(d).log, r)
                       /\ r.op.kind = o.kind /\ r.op.vals = o.vals
  BY <1>2, AppendLocalOf
<1>4. ApplyOp(live[d], o) \in Entity
  BY <1>2, ApplyOpType DEF Applies
<1> HIDE DEF v
<1>5. w \in Device /\ w.log = v.log /\ w.clock = v.clock /\ w.live = ApplyOp(live[d], o)
  BY <1>3, <1>4 DEF Device
<1>6. LiveIsReplay => InStep(w)
  <2>1. Replay(v.log) = ApplyOp(Replay(State(d).log), r.op)
    BY <1>2, <1>3, ReplayOf
  <2>2. ApplyOp(Replay(State(d).log), r.op) = ApplyOp(Replay(State(d).log), o)
    BY <1>3, ApplySame
  <2> HIDE DEF w
  <2> QED
    BY <1>2, <1>5, <2>1, <2>2 DEF InStep
<1>7. Becomes(d, w)
  <2>1. live' = [live EXCEPT ![d] = ApplyOp(live[d], o)] /\ log' = [log EXCEPT ![d] = v.log]
        /\ clock' = [clock EXCEPT ![d] = v.clock]
    BY DEF Act, v
  <2> HIDE DEF w
  <2> QED
    BY <1>5, <2>1 DEF Becomes
<1> HIDE DEF w
<1>8. DevicesTyped' /\ (LiveIsReplay => LiveIsReplay')
  BY <1>1, <1>5, <1>6, <1>7, BecomesOf
<1>9. SyncTyped'
  BY <1>1 DEF SyncTyped, Act
<1>10. CountsTyped'
  <2>1. Tail(todo[d]) \in Plan
    <3>1. todo[d] \in Plan
      BY <1>1 DEF CountsTyped
    <3> QED
      BY <3>1 DEF Plan
  <2>2. time' = [time EXCEPT ![d] = o.ts] /\ todo' = [todo EXCEPT ![d] = Tail(todo[d])]
        /\ UNCHANGED <<attempts, faults>>
    BY DEF Act
  <2> QED
    BY <1>1, <2>1, <2>2 DEF CountsTyped
<1> QED
  BY <1>8, <1>9, <1>10 DEF Preserved, ConflictInv

\* The user edits.
LEMMA EditStep ==
  ASSUME ConflictInv, NEW d \in Client, Edit(d)
  PROVE  Preserved
<1> DEFINE F == Head(todo[d])
           g == [f \in F |-> <<d, clock[d][d] + 1>>]
           v == Increment(clock[d], d)
<1>1. F \in SUBSET Field /\ todo[d] # <<>>
  <2>1. todo[d] \in Plan /\ todo[d] # <<>>
    BY DEF ConflictInv, CountsTyped, Edit
  <2> QED
    BY <2>1 DEF Plan
<1>2. clock[d] \in Clock /\ time[d] \in 0..MaxTime
  BY DEF ConflictInv, DevicesTyped, CountsTyped
<1>3. v \in Clock
  BY <1>2, ClockOps
<1>4. g \in Vals
  <2>1. <<d, clock[d][d] + 1>> \in Stamp
    BY <1>2 DEF Stamp, Clock
  <2> HIDE DEF F
  <2>2. g \in [F -> Stamp]
    BY <2>1
  <2> QED
    BY <1>1, <2>2, TaskVals
<1>5. PICK ts \in (time[d] + 1)..MaxTime : Act(d, NewOp(d, "update", g, ts, FALSE, v))
  BY DEF Edit
<1>6. ts \in Nat /\ ts \in 0..MaxTime
  BY <1>2, ConflictAssumption
<1> HIDE DEF F, g, v
<1> DEFINE o == NewOp(d, "update", g, ts, FALSE, v)
<1>7. o \in Op
  BY <1>3, <1>4, <1>6, NewOpType DEF Kinds
<1>8. o.ts = ts
  BY DEF NewOp
<1>9. Act(d, o)
  BY <1>5
<1> HIDE DEF o
<1> QED
  BY <1>1, <1>6, <1>7, <1>8, <1>9, ActStep

\* The user deletes the task.
LEMMA DeleteStep ==
  ASSUME ConflictInv, NEW d \in Client, Delete(d)
  PROVE  Preserved
<1> DEFINE v == Increment(clock[d], d)
<1>1. ~NoDeletes /\ todo[d] # <<>>
  <2>1. todo[d] \in Plan /\ todo[d] # <<>> /\ Head(todo[d]) = {}
    BY DEF ConflictInv, CountsTyped, Delete
  <2>2. NoDeletes => Head(todo[d]) # {}
    BY <2>1 DEF Plan
  <2> QED
    BY <2>1, <2>2
<1>2. clock[d] \in Clock /\ time[d] \in 0..MaxTime /\ live[d] \in Entity /\ live[d] # Gone
  BY DEF ConflictInv, DevicesTyped, CountsTyped, Delete
<1>3. v \in Clock
  BY <1>2, ClockOps
<1>4. live[d] \in Task /\ live[d] \in Vals
  BY <1>2, TaskVals DEF Entity
<1>5. PICK ts \in (time[d] + 1)..MaxTime : Act(d, NewOp(d, "delete", live[d], ts, FALSE, v))
  BY DEF Delete
<1>6. ts \in Nat /\ ts \in 0..MaxTime
  BY <1>2, ConflictAssumption
<1> HIDE DEF v
<1> DEFINE o == NewOp(d, "delete", live[d], ts, FALSE, v)
<1>7. o \in Op
  BY <1>1, <1>3, <1>4, <1>6, NewOpType DEF Kinds
<1>8. o.ts = ts
  BY DEF NewOp
<1>9. Act(d, o)
  BY <1>5
<1> HIDE DEF o
<1> QED
  BY <1>1, <1>6, <1>7, <1>8, <1>9, ActStep

\* A download.
LEMMA DownloadStep ==
  ASSUME ConflictInv, NEW d \in Client, Download(d)
  PROVE  Preserved
<1>1. DevicesTyped /\ SyncTyped /\ CountsTyped
  BY DEF ConflictInv
<1>2. End \in Nat /\ End = Len(shared)
  BY <1>1 DEF SyncTyped, End
<1>3. News(d, End) \in Seq(Sent)
  BY <1>1, <1>2, NewsType
<1>4. /\ Processed(d, News(d, End)) \in Device
      /\ NoDeletes /\ LiveIsReplay => InStep(Processed(d, News(d, End)))
  BY <1>1, <1>3, DeviceState, ProcessedOf
<1>5. DevicesTyped' /\ (NoDeletes /\ LiveIsReplay => LiveIsReplay')
  BY <1>1, <1>4, BecomesOf DEF Download
<1>6. SyncTyped'
  BY <1>1, <1>2 DEF SyncTyped, Download
<1>7. CountsTyped'
  BY <1>1 DEF CountsTyped, Download
<1> QED
  BY <1>5, <1>6, <1>7 DEF Preserved, ConflictInv

\* If nothing on the devices changes, the screens stay what they are.
LEMMA ScreensStay ==
  ASSUME ConflictInv, UNCHANGED <<log, live>>
  PROVE  LiveIsReplay => LiveIsReplay'
  BY DEF LiveIsReplay

\* An upload.
LEMMA UploadStep ==
  ASSUME ConflictInv, NEW d \in Client, Upload(d)
  PROVE  Preserved
<1> DEFINE ops == Pending(log[d])
           acc == Served(shared, ops)
           a == [Idle EXCEPT !.step = "sent", !.taken = IdsOf(acc.rows) \ IdsOf(shared),
                             !.known = Known(ops), !.refused = acc.refused, !.upto = Len(acc.rows)]
<1>1. DevicesTyped /\ SyncTyped /\ CountsTyped
  BY DEF ConflictInv
<1>2. ops \in Seq(Sent) /\ shared \in Seq(Sent)
  BY <1>1, DeviceState, LogOps DEF SyncTyped
<1>3. shared' = acc.rows /\ answer' = [answer EXCEPT ![d] = a]
  BY DEF Upload
<1> HIDE DEF ops
<1>4. acc.rows \in Seq(Sent) /\ acc.refused \in Seq(Refusal) /\ Len(acc.rows) >= Len(shared)
  BY <1>2, ServedOf
<1> DEFINE taken == IdsOf(acc.rows) \ IdsOf(shared)
           known == Known(ops)
           refused == acc.refused
           upto == Len(acc.rows)
<1>5. taken \in SUBSET Id /\ known \in SUBSET Id /\ refused \in Seq(Refusal) /\ upto \in Nat
  <2>1. IdsOf(acc.rows) \subseteq Id /\ IdsOf(shared) \subseteq Id /\ IdsOf(ops) \subseteq Id
    BY <1>2, <1>4, SentSeq, IdsType
  <2> QED
    BY <1>4, <2>1 DEF Known
<1>6. a \in Answer /\ a.upto = Len(acc.rows)
  <2>1. a = [Idle EXCEPT !.step = "sent", !.taken = taken, !.known = known,
                         !.refused = refused, !.upto = upto]
    OBVIOUS
  <2> HIDE DEF taken, known, refused, a
  <2>2. a \in Answer /\ a.upto = upto
    <3> HIDE DEF upto
    <3> QED
      BY <1>5, <2>1, IdleType DEF Answer
  <2> QED
    BY <2>2
<1> HIDE DEF a, acc, taken, known, refused, upto
<1>7. SyncTyped'
  <2> DEFINE rows == acc.rows
  <2>1. rows \in Seq(Sent) /\ Len(rows) \in Nat /\ Len(shared) \in Nat /\ Len(rows) >= Len(shared)
        /\ shared' = rows /\ answer' = [answer EXCEPT ![d] = a] /\ a \in Answer /\ a.upto = Len(rows)
    BY <1>2, <1>3, <1>4, <1>6
  <2> HIDE DEF rows
  <2>2. cursor' \in [Client -> Nat] /\ \A e \in Client : cursor'[e] <= Len(shared')
    BY <1>1, <2>1 DEF SyncTyped, Upload
  <2>3. answer' \in [Client -> Answer]
    BY <1>1, <2>1 DEF SyncTyped
  <2>4. ASSUME NEW e \in Client PROVE answer'[e].upto <= Len(shared')
    <3>1. answer[e].upto <= Len(shared) /\ answer[e] \in Answer
      BY <1>1 DEF SyncTyped
    <3>2. answer[e].upto \in Nat
      BY <3>1 DEF Answer
    <3>3. answer'[e] = IF e = d THEN a ELSE answer[e]
      BY <1>1, <2>1 DEF SyncTyped
    <3> QED
      BY <2>1, <3>1, <3>2, <3>3
  <2> QED
    BY <2>1, <2>2, <2>3, <2>4 DEF SyncTyped
<1>8. DevicesTyped' /\ CountsTyped'
  BY <1>1 DEF DevicesTyped, CountsTyped, Upload
<1> QED
  BY <1>7, <1>8, ScreensStay DEF Preserved, ConflictInv, Upload

\* An answer that is further along.
LEMMA AnswerWith ==
  ASSUME NEW a \in Answer, NEW step \in {"idle", "sent", "processed", "refused", "fetched"}, NEW v \in Clock
  PROVE  /\ [a EXCEPT !.step = step] \in Answer /\ [a EXCEPT !.step = step].upto = a.upto
         /\ [a EXCEPT !.step = step, !.seen = v] \in Answer
         /\ [a EXCEPT !.step = step, !.seen = v].upto = a.upto
  BY DEF Answer

\* The rows do not change, and cursors and answers stay within them.
LEMMA SyncStays ==
  ASSUME SyncTyped, shared' = shared, NEW d \in Client, NEW n \in Nat, n <= Len(shared),
         NEW a \in Answer, a.upto <= Len(shared),
         cursor' = [cursor EXCEPT ![d] = n] \/ cursor' = cursor,
         answer' = [answer EXCEPT ![d] = a] \/ answer' = answer
  PROVE  SyncTyped'
<1>1. /\ cursor' \in [Client -> Nat]
      /\ \A e \in Client : cursor'[e] <= Len(shared')
  BY DEF SyncTyped
<1>2. /\ answer' \in [Client -> Answer]
      /\ \A e \in Client : answer'[e].upto <= Len(shared')
  BY DEF SyncTyped
<1> QED
  BY <1>1, <1>2 DEF SyncTyped

\* The answer's parts.
LEMMA AnswerOf ==
  ASSUME SyncTyped, NEW d \in Client
  PROVE  /\ answer[d] \in Answer /\ answer[d].upto \in Nat /\ answer[d].upto <= Len(shared)
         /\ answer[d].refused \in Seq(Refusal) /\ answer[d].seen \in Clock
         /\ Len(shared) \in Nat /\ Idle \in Answer /\ Idle.upto <= Len(shared)
         /\ cursor[d] \in Nat /\ cursor[d] <= Len(shared)
         /\ Open(d) \in Seq(Refusal) /\ Refused(d) \in Seq(Op) /\ OpsOf(Open(d)) \in Seq(Op)
         /\ Len(OpsOf(Open(d))) = Len(Open(d))
<1>1. answer[d] \in Answer /\ answer[d].upto <= Len(shared) /\ shared \in Seq(Sent)
      /\ cursor[d] \in Nat /\ cursor[d] <= Len(shared)
  BY DEF SyncTyped
<1>2. answer[d].refused \in Seq(Refusal) /\ answer[d].seen \in Clock /\ answer[d].upto \in Nat
  BY <1>1 DEF Answer
<1>3. Open(d) \in Seq(Refusal)
  BY <1>2, KeptSet DEF Open
<1>4. \A x \in Refusal : x.op \in Op
  BY SentSeq DEF Refusal
<1>5. Refused(d) \in Seq(Op) /\ OpsOf(Open(d)) \in Seq(Op) /\ Len(OpsOf(Open(d))) = Len(Open(d))
  BY <1>2, <1>3, <1>4, OpsOfType DEF Refused
<1> QED
  BY <1>1, <1>2, <1>3, <1>5, IdleType

\* Rows that are acknowledged or rejected.
LEMMA StatusOf ==
  ASSUME NEW rows \in Seq(Row), NEW ids
  PROVE  /\ Synced(rows, ids) \in Seq(Row) /\ Replay(Synced(rows, ids)) = Replay(rows)
         /\ Reject(rows, ids) \in Seq(Row) /\ Replay(Reject(rows, ids)) = Replay(rows)
<1>1. \A i \in DOMAIN rows : rows[i] \in Row
  BY SeqElements
<1>2. Synced(rows, ids) \in [DOMAIN rows -> Row] /\ \A i \in DOMAIN rows : Synced(rows, ids)[i].op = rows[i].op
  BY <1>1, RowWith DEF Synced
<1>3. Reject(rows, ids) \in [DOMAIN rows -> Row] /\ \A i \in DOMAIN rows : Reject(rows, ids)[i].op = rows[i].op
  BY <1>1, RowWith DEF Reject
<1> QED
  BY <1>2, <1>3, StatusType

\* A device's log with other statuses.
LEMMA LogStatus ==
  ASSUME DevicesTyped, NEW d \in Client, NEW rows \in Seq(Row), Replay(rows) = Replay(log[d]),
         log' = [log EXCEPT ![d] = rows], UNCHANGED <<live, clock>>
  PROVE  DevicesTyped' /\ (LiveIsReplay => LiveIsReplay')
<1>1. DevicesTyped'
  BY DEF DevicesTyped
<1>2. \A e \in Client : log'[e] = IF e = d THEN rows ELSE log[e]
  BY DEF DevicesTyped
<1>3. LiveIsReplay => LiveIsReplay'
  BY <1>2 DEF LiveIsReplay
<1> QED
  BY <1>1, <1>3

\* The rows an upload brought with it.
LEMMA ProcessPiggybackStep ==
  ASSUME ConflictInv, NEW d \in Client, ProcessPiggyback(d)
  PROVE  Preserved
<1> DEFINE n == answer[d].upto
           m == Larger(cursor[d], n)
           a == [answer[d] EXCEPT !.step = "processed"]
<1>1. DevicesTyped /\ SyncTyped /\ CountsTyped
  BY DEF ConflictInv
<1>2. /\ answer[d] \in Answer /\ n \in Nat /\ n <= Len(shared) /\ Len(shared) \in Nat
      /\ cursor[d] \in Nat /\ cursor[d] <= Len(shared) /\ EmptyClock \in Clock
  BY <1>1, AnswerOf DEF EmptyClock, Clock
<1>3. m \in Nat /\ m <= Len(shared)
  BY <1>2 DEF Larger
<1>4. a \in Answer /\ a.upto <= Len(shared)
  BY <1>2, AnswerWith
<1>5. News(d, n) \in Seq(Sent)
  BY <1>1, <1>2, NewsType
<1>6. /\ Processed(d, News(d, n)) \in Device
      /\ NoDeletes /\ LiveIsReplay => InStep(Processed(d, News(d, n)))
  BY <1>1, <1>5, DeviceState, ProcessedOf
<1>7. DevicesTyped' /\ (NoDeletes /\ LiveIsReplay => LiveIsReplay')
  BY <1>1, <1>6, BecomesOf DEF ProcessPiggyback
<1>8. shared' = shared /\ cursor' = [cursor EXCEPT ![d] = m] /\ answer' = [answer EXCEPT ![d] = a]
  BY DEF ProcessPiggyback
<1> HIDE DEF m, a
<1>9. SyncTyped'
  BY <1>1, <1>3, <1>4, <1>8, SyncStays
<1>10. CountsTyped'
  BY <1>1 DEF CountsTyped, ProcessPiggyback
<1> QED
  BY <1>7, <1>9, <1>10 DEF Preserved, ConflictInv

\* An acknowledgement.
LEMMA AcknowledgeStep ==
  ASSUME ConflictInv, NEW d \in Client, Acknowledge(d)
  PROVE  Preserved
<1> DEFINE rows == Synced(log[d], Acknowledged(answer[d]))
           a == IF answer[d].refused = <<>> THEN Idle ELSE [answer[d] EXCEPT !.step = "refused"]
<1>1. DevicesTyped /\ SyncTyped /\ CountsTyped
  BY DEF ConflictInv
<1>2. rows \in Seq(Row) /\ Replay(rows) = Replay(log[d])
  BY <1>1, DeviceState, StatusOf
<1>3. log' = [log EXCEPT ![d] = rows] /\ UNCHANGED <<live, clock>>
  BY DEF Acknowledge
<1> HIDE DEF rows
<1>4. DevicesTyped' /\ (LiveIsReplay => LiveIsReplay')
  BY <1>1, <1>2, <1>3, LogStatus
<1>5. a \in Answer /\ a.upto <= Len(shared)
  <2>1. EmptyClock \in Clock
    BY DEF EmptyClock, Clock
  <2> QED
    BY <1>1, <2>1, AnswerOf, AnswerWith
<1>6. shared' = shared /\ cursor' = cursor /\ answer' = [answer EXCEPT ![d] = a]
  BY DEF Acknowledge
<1> HIDE DEF a
<1>7. SyncTyped'
  BY <1>1, <1>5, <1>6, AnswerOf, SyncStays
<1>8. CountsTyped'
  BY <1>1, ConflictAssumption DEF CountsTyped, Acknowledge
<1> QED
  BY <1>4, <1>7, <1>8 DEF Preserved, ConflictInv

\* Nothing is left to do, or the answer is lost.
LEMMA ForgetStep ==
  ASSUME ConflictInv, NEW d \in Client, NothingOpen(d) \/ LoseAnswer(d)
  PROVE  Preserved
<1>1. DevicesTyped /\ SyncTyped /\ CountsTyped
  BY DEF ConflictInv
<1>2. UNCHANGED <<shared, log, live, clock, cursor, attempts, time, todo>> /\ answer' = [answer EXCEPT ![d] = Idle]
  BY DEF NothingOpen, LoseAnswer
<1>3. SyncTyped'
  BY <1>1, <1>2, AnswerOf, SyncStays
<1>4. DevicesTyped'
  BY <1>1, <1>2 DEF DevicesTyped
<1>5. faults' \in 0..MaxFaults
  BY <1>1, ConflictAssumption DEF CountsTyped, NothingOpen, LoseAnswer
<1>6. CountsTyped'
  BY <1>1, <1>2, <1>5 DEF CountsTyped
<1> QED
  BY <1>2, <1>3, <1>4, <1>6, ScreensStay DEF Preserved, ConflictInv

\* What the server and the rows name is a clock.
LEMMA SeenType ==
  ASSUME SyncTyped, NEW d \in Client
  PROVE  Seen(d) \in Clock
<1>1. Open(d) \in Seq(Refusal) /\ \A x \in Refusal : x.clock \in Clock
  BY AnswerOf DEF Refusal
<1>2. EmptyClock \in Clock
  BY DEF EmptyClock, Clock
<1>3. MergeAll(EmptyClock, Open(d)) \in Clock
  BY <1>1, <1>2, Merges
<1>4. shared \in Seq(Op)
  BY SentSeq DEF SyncTyped
<1>5. MergeAll(MergeAll(EmptyClock, Open(d)), shared) \in Clock
  BY <1>3, <1>4, OpMerges
<1> QED
  BY <1>3, <1>5 DEF Seen

\* The rows that explain a refusal, or giving up.
LEMMA RefetchStep ==
  ASSUME ConflictInv, NEW d \in Client, Refetch(d)
  PROVE  Preserved
<1>1. DevicesTyped /\ SyncTyped /\ CountsTyped
  BY DEF ConflictInv
<1>2. End = Len(shared) /\ End \in Nat
  BY <1>1, AnswerOf DEF End
<1>3. attempts[d] \in Nat /\ attempts[d] <= MaxAttempts /\ MaxAttempts \in Nat /\ MaxAttempts # 0
  BY <1>1, ConflictAssumption DEF CountsTyped
<1>4. CASE attempts[d] < MaxAttempts
  <2> DEFINE v == Seen(d)
             a == [answer[d] EXCEPT !.step = "fetched", !.seen = v]
  <2>1. Becomes(d, Processed(d, News(d, End))) /\ cursor' = [cursor EXCEPT ![d] = End]
        /\ attempts' = [attempts EXCEPT ![d] = @ + 1] /\ UNCHANGED <<shared, time, todo, faults>>
    BY <1>4 DEF Refetch
  <2>2. News(d, End) \in Seq(Sent)
    BY <1>1, <1>2, NewsType
  <2>3. /\ Processed(d, News(d, End)) \in Device
        /\ NoDeletes /\ LiveIsReplay => InStep(Processed(d, News(d, End)))
    BY <1>1, <2>2, DeviceState, ProcessedOf
  <2>4. DevicesTyped' /\ (NoDeletes /\ LiveIsReplay => LiveIsReplay')
    BY <1>1, <2>1, <2>3, BecomesOf
  <2>5. v \in Clock
    BY <1>1, SeenType
  <2>6. answer' = [answer EXCEPT ![d] = a]
    <3>1. answer' = [answer EXCEPT ![d].step = "fetched", ![d].seen = v]
      BY <1>4 DEF Refetch
    <3>2. answer \in [Client -> Answer]
      BY <1>1 DEF SyncTyped
    <3> HIDE DEF v
    <3> QED
      BY <3>1, <3>2
  <2> HIDE DEF v
  <2>7. a \in Answer /\ a.upto <= Len(shared)
    <3>1. answer[d] \in Answer /\ answer[d].upto <= Len(shared)
      BY <1>1, AnswerOf
    <3>2. [answer[d] EXCEPT !.step = "fetched", !.seen = v] \in Answer
      BY <2>5, <3>1 DEF Answer
    <3>3. a.upto = answer[d].upto
      BY <3>1 DEF Answer
    <3> QED
      BY <3>1, <3>2, <3>3
  <2> HIDE DEF a
  <2>8. SyncTyped'
    <3>1. End <= Len(shared) /\ shared' = shared
      BY <1>2, <2>1
    <3> QED
      BY <1>1, <1>2, <2>1, <2>6, <2>7, <3>1, SyncStays
  <2>9. CountsTyped'
    BY <1>1, <1>3, <1>4, <2>1 DEF CountsTyped
  <2> QED
    BY <2>4, <2>8, <2>9 DEF Preserved, ConflictInv
<1>5. CASE ~(attempts[d] < MaxAttempts)
  <2> DEFINE rows == Reject(log[d], IdsOf(Refused(d)))
  <2>1. /\ log' = [log EXCEPT ![d] = rows] /\ answer' = [answer EXCEPT ![d] = Idle]
        /\ attempts' = [attempts EXCEPT ![d] = 0]
        /\ UNCHANGED <<live, clock, cursor, shared, time, todo, faults>>
    BY <1>5 DEF Refetch
  <2>2. rows \in Seq(Row) /\ Replay(rows) = Replay(log[d])
    BY <1>1, DeviceState, StatusOf
  <2> HIDE DEF rows
  <2>3. DevicesTyped' /\ (LiveIsReplay => LiveIsReplay')
    BY <1>1, <2>1, <2>2, LogStatus
  <2>4. SyncTyped'
    BY <1>1, <2>1, AnswerOf, SyncStays
  <2>5. CountsTyped'
    BY <1>1, <1>3, <2>1 DEF CountsTyped
  <2> QED
    BY <2>3, <2>4, <2>5 DEF Preserved, ConflictInv
<1> QED
  BY <1>4, <1>5

\* A replacement.
LEMMA SupersedeStep ==
  ASSUME ConflictInv, NEW d \in Client, Supersede(d)
  PROVE  Preserved
<1> DEFINE ops == OpsOf(Open(d))
           rows == Reject(log[d], IdsOf(ops))
           v == [State(d) EXCEPT !.log = rows]
           r == Replacement(d, ops)
<1>1. DevicesTyped /\ SyncTyped /\ CountsTyped
  BY DEF ConflictInv
<1>2. ops \in Seq(Op) /\ ops # <<>>
  BY <1>1, AnswerOf DEF Supersede
<1>3. Becomes(d, AppendAny(d, v, r)) /\ answer' = [answer EXCEPT ![d] = Idle]
      /\ UNCHANGED <<shared, cursor, attempts, time, todo, faults>>
  <2>1. [State(d) EXCEPT !.log = Reject(@, IdsOf(ops))] = v
    BY <1>1, DeviceState DEF Device
  <2> QED
    BY <2>1 DEF Supersede
<1> HIDE DEF ops
<1>4. rows \in Seq(Row) /\ Replay(rows) = Replay(log[d])
  BY <1>1, DeviceState, StatusOf
<1>5. r \in Seq(Op) /\ (NoDeletes /\ r # <<>> => Restates(r[1], live[d]))
  BY <1>1, <1>2, DeviceState, AnswerOf, ReplacementType
<1> HIDE DEF rows, r
<1>6. v \in Device /\ v.log = rows /\ v.live = live[d]
  BY <1>1, <1>4, DeviceState DEF Device
<1> HIDE DEF v
<1>7. LiveIsReplay => InStep(v)
  BY <1>4, <1>6 DEF InStep, LiveIsReplay
<1>8. AppendAny(d, v, r) \in Device /\ (NoDeletes /\ LiveIsReplay => InStep(AppendAny(d, v, r)))
  BY <1>5, <1>6, <1>7, AppendAnyOf
<1>9. DevicesTyped' /\ (NoDeletes /\ LiveIsReplay => LiveIsReplay')
  BY <1>1, <1>3, <1>8, BecomesOf
<1>10. SyncTyped'
  BY <1>1, <1>3, AnswerOf, SyncStays
<1>11. CountsTyped'
  BY <1>1, <1>3 DEF CountsTyped
<1> QED
  BY <1>9, <1>10, <1>11 DEF Preserved, ConflictInv

\* A crash within a resolution.
LEMMA CrashMidwayStep ==
  ASSUME ConflictInv, NEW d \in Client, CrashMidway(d)
  PROVE  Preserved
<1> DEFINE v == Stored(d, News(d, End))
           e == Replay(v.log)
           w == [v EXCEPT !.live = e]
<1>1. DevicesTyped /\ SyncTyped /\ CountsTyped
  BY DEF ConflictInv
<1>2. End = Len(shared) /\ End \in Nat
  BY <1>1, AnswerOf DEF End
<1>3. News(d, End) \in Seq(Sent)
  BY <1>1, <1>2, NewsType
<1>4. v \in Device
  BY <1>1, <1>3, DeviceState, StoredOf
<1>5. Becomes(d, w) /\ faults' = faults + 1 /\ faults < MaxFaults
      /\ attempts' = [attempts EXCEPT ![d] = 0] /\ UNCHANGED <<shared, cursor, answer, time, todo>>
  BY DEF CrashMidway
<1> HIDE DEF v
<1>6. e \in Entity
  BY <1>4, ReplayOf DEF Device
<1>7. w \in Device /\ w.log = v.log /\ w.live = Replay(v.log)
  <2> HIDE DEF e
  <2>1. w \in Device /\ w.log = v.log /\ w.live = e
    BY <1>4, <1>6 DEF Device
  <2> QED
    BY <2>1 DEF e
<1> HIDE DEF w
<1>8. InStep(w)
  BY <1>7 DEF InStep
<1>9. DevicesTyped' /\ (LiveIsReplay => LiveIsReplay')
  BY <1>1, <1>5, <1>7, <1>8, BecomesOf
<1>10. SyncTyped'
  BY <1>1, <1>5 DEF SyncTyped
<1>11. CountsTyped'
  BY <1>1, <1>5, ConflictAssumption DEF CountsTyped
<1> QED
  BY <1>9, <1>10, <1>11 DEF Preserved, ConflictInv

\* Where the system starts.
LEMMA InitInv == ASSUME Init PROVE ConflictInv /\ LiveIsReplay
<1>1. DevicesTyped
  BY FirstTasks DEF Init, DevicesTyped, EmptyClock, Clock
<1>2. SyncTyped
  BY IdleType DEF Init, SyncTyped
<1>3. todo \in [Client -> Plan]
  <2>1. todo \in Plans /\ todo \in [Client -> Seq(SUBSET Field)]
    BY ConflictAssumption DEF Init
  <2>2. ASSUME NEW d \in Client PROVE todo[d] \in Plan
    <3>1. todo[d] \in Seq(SUBSET Field)
      BY <2>1
    <3>2. \A i \in 1..Len(todo[d]) : todo[d][i] \in SUBSET Field /\ (NoDeletes => todo[d][i] # {})
      BY <2>1, <3>1, SeqElements DEF NoDeletes
    <3>3. \A i \in 1..Len(todo[d]) : todo[d][i] \in {F \in SUBSET Field : NoDeletes => F # {}}
      BY <3>2
    <3> QED
      BY <3>1, <3>3, SeqInto DEF Plan
  <2> QED
    BY <2>1, <2>2
<1>4. CountsTyped
  BY <1>3, ConflictAssumption DEF Init, CountsTyped
<1>5. LiveIsReplay
  <2>1. Replay(<<>>) = Original
    <3>1. OpsOf(<<>>) = <<>>
      BY DEF OpsOf
    <3>2. ApplyAll(Original, <<>>) = Original
      BY FirstTasks, ApplyOpType, ApplyAllShort
    <3> QED
      BY <3>1, <3>2 DEF Replay
  <2> QED
    BY <2>1 DEF Init, LiveIsReplay
<1> QED
  BY <1>1, <1>2, <1>4, <1>5 DEF ConflictInv

\* Every step.
LEMMA NextStep == ASSUME ConflictInv, [Next]_vars PROVE Preserved
<1>1. CASE UNCHANGED vars
  <2>1. UNCHANGED <<shared, log, live, clock, cursor, answer, attempts, time, todo, faults>>
    BY <1>1 DEF vars
  <2>2. ConflictInv'
    BY <2>1 DEF ConflictInv, DevicesTyped, SyncTyped, CountsTyped
  <2> QED
    BY <2>1, <2>2, ScreensStay DEF Preserved
<1>2. ASSUME NEW d \in Client, User(d) \/ Download(d) \/ Upload(d) \/ Answered(d) \/ Fault(d)
      PROVE  Preserved
  BY <1>2, EditStep, DeleteStep, DownloadStep, UploadStep, ProcessPiggybackStep, AcknowledgeStep,
     ForgetStep, RefetchStep, SupersedeStep, CrashMidwayStep DEF User, Answered, Fault
<1> QED
  BY <1>1, <1>2 DEF Next, Finished

\* Every variable of every device has its type, whatever the users do: what detection,
\* resolution and replacement write are operations that fit the task, and the task is whole
\* or missing.
THEOREM ConflictTypes == Spec => []TypeOK
<1>1. Init => ConflictInv
  BY InitInv
<1>2. ConflictInv /\ [Next]_vars => ConflictInv'
  BY NextStep DEF Preserved
<1>3. ConflictInv => TypeOK
  BY InvTypes
<1> QED
  BY <1>1, <1>2, <1>3, PTL DEF Spec

\* A start rebuilds what is on screen, if nobody deletes the task: however a conflict was
\* resolved, replaying the rows, the rejected ones too, leads to the screen.
THEOREM ReplayedIsShown == ASSUME NoDeletes PROVE Spec => []LiveIsReplay
<1>1. Init => ConflictInv /\ LiveIsReplay
  BY InitInv
<1>2. ConflictInv /\ LiveIsReplay /\ [Next]_vars => (ConflictInv /\ LiveIsReplay)'
  BY NextStep DEF Preserved
<1> QED
  BY <1>1, <1>2, PTL DEF Spec

===============================================================================
