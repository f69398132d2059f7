---------------------- MODULE RemoteApplyStateProofs ----------------------
(***************************************************************************)
(* What the log, the snapshot and the screen of a tab hold: the safety      *)
(* properties of RemoteApply that speak of the state of the application.    *)
(*                                                                          *)
(* The screen is the log, replayed, at every stage of an apply, but for     *)
(* what that stage says (LiveInv); the snapshot is the log up to some place *)
(* not before its own sequence number (SnapInv); what was downloaded is in  *)
(* the log behind the snapshot or in the snapshot's clock (CoveredInv); and *)
(* a compaction never takes a replacing operation and leaves what it        *)
(* replaced (TailInv).  Regular names the instances those theorems are about.*)
(* What a new operation knows (KnowsInv) needs no more than Imports = {}.   *)
(***************************************************************************)
EXTENDS RemoteApplyProofs

-----------------------------------------------------------------------------
(* Sequences, in their order *)

\* r takes its elements from the first n of s, in the order of s.
OrderOf(r, s, n) ==
  \A k, l \in 1..Len(r) : k < l => \E i, j \in 1..n : i < j /\ s[i] = r[k] /\ s[j] = r[l]

\* One more element keeps the order.
LEMMA OrderMore ==
  ASSUME NEW X, NEW s \in Seq(X), NEW T, NEW n \in Nat, n + 1 <= Len(s), s[n + 1] \in T,
         NEW r, KeepsOf(r, s, X, T, n), OrderOf(r, s, n)
  PROVE  OrderOf(Append(r, s[n + 1]), s, n + 1)
<1> DEFINE m == Len(r)
           a == Append(r, s[n + 1])
<1>1. s[n + 1] \in X /\ r \in Seq(X) /\ m \in Nat /\ m <= n /\ Len(s) \in Nat
  BY DEF KeepsOf
<1>2. /\ Len(a) = m + 1 /\ a[m + 1] = s[n + 1]
      /\ \A k \in 1..m : a[k] = r[k]
  BY <1>1
<1>3. \A k \in 1..m : \E i \in 1..n : s[i] = r[k]
  BY DEF KeepsOf
<1>4. \A k \in 1..(m + 1) : k = m + 1 \/ k \in 1..m
  BY <1>1
<1>5. \A k, l \in 1..m : k < l => \E i, j \in 1..n : i < j /\ s[i] = r[k] /\ s[j] = r[l]
  BY DEF OrderOf
<1> HIDE DEF m, a
<1>6. ASSUME NEW k \in 1..Len(a), NEW l \in 1..Len(a), k < l
      PROVE  \E i, j \in 1..(n + 1) : i < j /\ s[i] = a[k] /\ s[j] = a[l]
  <2>1. k \in 1..m
    BY <1>1, <1>2, <1>6
  <2>2. CASE l = m + 1
    <3>1. PICK i \in 1..n : s[i] = r[k]
      BY <1>3, <2>1
    <3>2. i < n + 1 /\ i \in 1..(n + 1) /\ n + 1 \in 1..(n + 1)
      OBVIOUS
    <3> QED
      BY <1>2, <2>1, <2>2, <3>1, <3>2
  <2>3. CASE l \in 1..m
    <3>1. PICK i \in 1..n, j \in 1..n : i < j /\ s[i] = r[k] /\ s[j] = r[l]
      BY <1>5, <1>6, <2>1, <2>3
    <3>2. i \in 1..(n + 1) /\ j \in 1..(n + 1)
      OBVIOUS
    <3> QED
      BY <1>2, <2>1, <2>3, <3>1, <3>2
  <2> QED
    BY <1>2, <1>4, <2>2, <2>3
<1>7. OrderOf(a, s, n + 1)
  BY <1>6 DEF OrderOf
<1> QED
  BY <1>7 DEF a

\* An element outside T changes nothing.
LEMMA KeepsSkip ==
  ASSUME NEW X, NEW s, NEW T, NEW n \in Nat, s[n + 1] \notin T, NEW r, KeepsOf(r, s, X, T, n)
  PROVE  KeepsOf(r, s, X, T, n + 1)
<1>1. /\ r \in Seq(X) /\ Len(r) <= n
      /\ \A k \in 1..Len(r) : r[k] \in T /\ \E i \in 1..n : s[i] = r[k]
      /\ \A i \in 1..n : s[i] \in T => \E k \in 1..Len(r) : r[k] = s[i]
      /\ (\A i, j \in 1..Len(s) : s[i] = s[j] => i = j)
           => \A k, l \in 1..Len(r) : r[k] = r[l] => k = l
  BY DEF KeepsOf
<1>2. Len(r) <= n + 1
  <2>1. Len(r) \in Nat
    BY <1>1
  <2> QED
    BY <1>1, <2>1
<1>3. \A i \in 1..n : i \in 1..(n + 1)
  OBVIOUS
<1>4. \A k \in 1..Len(r) : r[k] \in T /\ \E i \in 1..(n + 1) : s[i] = r[k]
  BY <1>1, <1>3
<1>5. \A i \in 1..(n + 1) : i = n + 1 \/ i \in 1..n
  OBVIOUS
<1>6. \A i \in 1..(n + 1) : s[i] \in T => \E k \in 1..Len(r) : r[k] = s[i]
  BY <1>1, <1>5
<1> QED
  BY <1>1, <1>2, <1>4, <1>6 DEF KeepsOf

\* Kept(s, T) keeps the order of s.
LEMMA KeptOrder ==
  ASSUME NEW X, NEW s \in Seq(X), NEW T
  PROVE  OrderOf(Kept(s, T), s, Len(s))
<1>1. PICK f : KeptUpTo(f, s, T, Len(s)) /\ Kept(s, T) = f[Len(s)]
  BY KeptRecursion
<1> DEFINE S == {n \in Nat : n <= Len(s) => KeepsOf(f[n], s, X, T, n) /\ OrderOf(f[n], s, n)}
<1>2. 0 \in S
  <2>1. f[0] = <<>>
    BY <1>1 DEF KeptUpTo
  <2>2. KeepsOf(<<>>, s, X, T, 0) /\ OrderOf(<<>>, s, 0)
    BY DEF KeepsOf, OrderOf
  <2> QED
    BY <2>1, <2>2
<1>3. ASSUME NEW n \in S PROVE n + 1 \in S
  <2> SUFFICES ASSUME n + 1 <= Len(s)
               PROVE  KeepsOf(f[n + 1], s, X, T, n + 1) /\ OrderOf(f[n + 1], s, n + 1)
    OBVIOUS
  <2>1. n \in Nat /\ Len(s) \in Nat
    OBVIOUS
  <2>2. KeepsOf(f[n], s, X, T, n)
    BY <2>1
  <2>6. OrderOf(f[n], s, n)
    BY <2>1
  <2> HIDE DEF S
  <2>3. f[n + 1] = IF s[n + 1] \in T THEN Append(f[n], s[n + 1]) ELSE f[n]
    <3>1. n + 1 \in 0..Len(s) /\ n + 1 # 0 /\ (n + 1) - 1 = n
      BY <2>1
    <3>2. \A i \in 0..Len(s) :
            f[i] = IF i = 0 THEN <<>>
                   ELSE IF s[i] \in T THEN Append(f[i - 1], s[i]) ELSE f[i - 1]
      BY <1>1 DEF KeptUpTo
    <3> QED
      BY <3>1, <3>2
  <2>4. CASE s[n + 1] \notin T
    <3>1. \A i \in 1..(n + 1) : s[i] \in T => i \in 1..n
      BY <2>1, <2>4
    <3>2. \A i \in 1..n : i \in 1..(n + 1)
      BY <2>1
    <3>3. KeepsOf(f[n], s, X, T, n + 1)
      BY <2>1, <2>2, <2>4, KeepsSkip
    <3>4. OrderOf(f[n], s, n + 1)
      BY <2>6, <3>2 DEF OrderOf
    <3> QED
      BY <2>3, <2>4, <3>3, <3>4
  <2>5. CASE s[n + 1] \in T
    BY <2>6, <2>1, <2>2, <2>3, <2>5, KeepsMore, OrderMore
  <2> QED
    BY <2>4, <2>5
<1>4. OrderOf(f[Len(s)], s, Len(s))
  <2>1. S \in SUBSET Nat
    OBVIOUS
  <2> HIDE DEF S
  <2>2. \A n \in Nat : n \in S
    BY <1>2, <1>3, <2>1, Induction
  <2>3. Len(s) \in S /\ Len(s) <= Len(s)
    BY <2>2
  <2> QED
    BY <2>3 DEF S
<1> QED
  BY <1>1, <1>4

\* The sequence numbers in S rise.
LEMMA InOrderRises ==
  ASSUME nextSeq \in Nat \ {0}, NEW S \in SUBSET (1..(nextSeq - 1))
  PROVE  \A k, l \in 1..Len(InOrder(S)) : k < l => InOrder(S)[k] < InOrder(S)[l]
<1> DEFINE s == [i \in 1..nextSeq |-> i]
<1>1. s \in Seq(Nat) /\ Len(s) = nextSeq /\ \A i \in 1..nextSeq : s[i] = i
  OBVIOUS
<1>2. InOrder(S) = Kept(s, S)
  BY DEF InOrder
<1> HIDE DEF s
<1>3. OrderOf(InOrder(S), s, Len(s))
  BY <1>1, <1>2, KeptOrder
<1> QED
  BY <1>1, <1>3 DEF OrderOf

-----------------------------------------------------------------------------
(* What the reducers make of operations that come once each *)

\* An operation that comes once, from the last full-state operation on, counts once.
LEMMA ReduceOnce ==
  ASSUME NEW st \in [Op -> Nat], NEW s \in Seq(Op), \A i, j \in 1..Len(s) : s[i] = s[j] => i = j,
         NEW o \in Op
  PROVE  Reduce(st, s)[o] =
           (IF LastImport(s) = 0 THEN st[o] ELSE 0)
             + (IF o \notin Broken /\ \E i \in 1..Len(s) : s[i] = o /\ i >= LastImport(s)
                THEN 1 ELSE 0)
<1> DEFINE C(p) == {i \in DOMAIN s : s[i] = p /\ i >= LastImport(s)}
           N(p) == Cardinality(C(p))
           R(p) == IF p \in Broken THEN 0 ELSE N(p)
           E == \E i \in 1..Len(s) : s[i] = o /\ i >= LastImport(s)
<1>1. Reduce(st, s) = IF LastImport(s) = 0 THEN [p \in Op |-> st[p] + R(p)] ELSE [p \in Op |-> R(p)]
  BY Zenon DEF Reduce
<1>2. N(o) = IF E THEN 1 ELSE 0
  <2>1. DOMAIN s = 1..Len(s)
    OBVIOUS
  <2>2. CASE E
    <3>1. PICK i \in 1..Len(s) : s[i] = o /\ i >= LastImport(s)
      BY <2>2
    <3>2. C(o) = {i}
      BY <2>1, <3>1
    <3>3. Cardinality({i}) = 1
      BY FS_Singleton, Zenon
    <3> QED
      BY <2>2, <3>2, <3>3
  <2>3. CASE ~E
    <3>1. C(o) = {}
      BY <2>1, <2>3
    <3> QED
      BY <2>3, <3>1, FS_EmptySet
  <2> QED
    BY <2>2, <2>3
<1> HIDE DEF N, E
<1>3. R(o) = IF o \notin Broken /\ E THEN 1 ELSE 0
  BY <1>2
<1> HIDE DEF R
<1>4. Reduce(st, s)[o] = (IF LastImport(s) = 0 THEN st[o] ELSE 0) + (IF o \notin Broken /\ E THEN 1 ELSE 0)
  <2>1. st[o] \in Nat /\ R(o) \in Nat
    BY <1>3
  <2> QED
    BY <1>1, <1>3, <2>1
<1> QED
  BY <1>4 DEF E

-----------------------------------------------------------------------------
(***************************************************************************)
(* The invariant, on top of Inv of RemoteApplyProofs.                      *)
(***************************************************************************)

\* Actions whose write is still to come, and the rows being applied.
Among(s) == {s[i] : i \in DOMAIN s}
Distinct(s) == \A i, j \in DOMAIN s : s[i] = s[j] => i = j
Waiting == Among(captured) \cup Among(deferred)
Batch == {work[i] : i \in DOMAIN work}

\* A row is where its operation was last written.
OnceInv == \A s \in DOMAIN rows : logged[rows[s].op] = s

\* Only what was written is known or has its archive work; only what is served was written.
LearnInv == clock \cup cache.clock \cup archived \subseteq DOMAIN logged
FeedInv == \A i \in DOMAIN Feed : Feed[i] \in DOMAIN logged => i <= served

\* An action is dispatched once and waits in one place, until it is written.
OwnInv ==
  /\ \A o \in OwnOps \cap (DOMAIN logged \cup Waiting) : o <= nextOwn
  /\ Waiting \cap DOMAIN logged = {}
  /\ Distinct(captured) /\ Distinct(deferred) /\ Among(captured) \cap Among(deferred) = {}
  /\ mode = "start" => Waiting = {} /\ ~lost

\* No row waits for its reducers behind the checkpoint of an apply.
PendInv == stage \in {"settled", "effects", "mark", "clear", "quarantine"} => Pending = {}

\* Before the first fault nothing is left unfinished.
FaultInv == faults = 0 =>
  /\ mode # "gate" /\ ~failed
  /\ mode = "start" => DOMAIN rows = {}
  /\ stage = "mark" => done = Len(work)
  /\ stage \notin ApplyStages \/ stage \in {"clear", "quarantine", "drain"} => Unfinished = {}

\* A download begins with an empty buffer, where a full-state operation may come.
BufferInv == Imports # {} /\ stage \in {"fetched", "paging", "flushed"} => deferred = <<>>

\* A batch is in the order of the log, behind every full-state operation before it.
BatchInv ==
  /\ stage \in {"stored", "informed", "reduced"} =>
       \A i, j \in 1..Len(work) : i < j => work[i] < work[j]
  /\ mode = "download" /\ stage \in ApplyStages \ {"drain"} =>
       \A s \in Batch, t \in DOMAIN rows \ Batch : rows[t].op \in Imports => t < s

\* A tab that started behind a snapshot knows how far its state goes, and no snapshot
\* goes back.
FrontInv == Anchored > 0 =>
  /\ cache.anchor > 0
  /\ stage \notin {"off", "loaded", "replayed"} => frontier >= cache.anchor

TabInv == "tab" \notin Events => TabOps \cap DOMAIN logged = {}

BaseInv ==
  /\ OnceInv /\ LearnInv /\ FeedInv /\ OwnInv /\ PendInv
  /\ FaultInv /\ BufferInv /\ BatchInv /\ FrontInv /\ TabInv

-----------------------------------------------------------------------------
(* The state that rows rebuild *)

\* o has an effect when the rows of S are replayed.
Effective(o, S) ==
  /\ o \notin Broken
  /\ \E s \in S : rows[s].op = o /\ \A t \in S : rows[t].op \in Imports => t <= s

\* What an operation is to the log up to a, and to all of it: in effect or not.
InEffect(o, a) ==
  /\ o \in DOMAIN logged \ Broken /\ logged[o] <= a
  /\ \A i \in Imports \cap DOMAIN logged : logged[i] <= a => logged[i] <= logged[o]
Holds(o) ==
  /\ o \in DOMAIN logged \ Broken
  /\ \A i \in Imports \cap DOMAIN logged : logged[i] <= logged[o]

\* The snapshot is the state after the log up to a, and the rows behind a are there.
SnapAt(a) ==
  /\ \A o \in Op : cache.state[o] = IF InEffect(o, a) THEN 1 ELSE 0
  /\ \A s \in DOMAIN rows : s <= cache.anchor \/ s > a
  /\ \A o \in Op : Holds(o) /\ logged[o] > a => logged[o] \in DOMAIN rows /\ rows[logged[o]].op = o
  /\ Anchored > 0 => a = cache.anchor
SnapInv == \E a \in cache.anchor..(nextSeq - 1) : SnapAt(a)

\* What rows, replayed in the order of the log, make of one operation.
LEMMA ReduceRows ==
  ASSUME LogType, OnceInv, NEW w \in Seq(Nat), \A i \in 1..Len(w) : w[i] \in DOMAIN rows,
         \A i, j \in 1..Len(w) : i < j => w[i] < w[j],
         NEW st \in [Op -> Nat], NEW o \in Op,
         NEW S \in SUBSET Nat, \A i \in 1..Len(w) : w[i] \in S, \A x \in S : \E i \in 1..Len(w) : w[i] = x
  PROVE  Reduce(st, OpsAt(w))[o] =
           (IF \E t \in S : rows[t].op \in Imports THEN 0 ELSE st[o])
             + (IF Effective(o, S) THEN 1 ELSE 0)
<1> DEFINE s == OpsAt(w)
           n == LastImport(s)
<1>1. /\ s \in Seq(Ids) /\ Len(s) = Len(w)
      /\ \A i \in 1..Len(w) : s[i] = rows[w[i]].op
  BY OpsAtOf
<1>2. s \in Seq(Op)
  BY <1>1, IdsOf
<1>3. DOMAIN w = 1..Len(w) /\ Len(w) \in Nat /\ \A i \in 1..Len(w) : w[i] \in Nat
  OBVIOUS
<1>4. \A i, j \in 1..Len(s) : s[i] = s[j] => i = j
  <2> SUFFICES ASSUME NEW i \in 1..Len(w), NEW j \in 1..Len(w), s[i] = s[j] PROVE i = j
    BY <1>1
  <2>1. w[i] = w[j]
    <3>1. w[i] \in DOMAIN rows /\ w[j] \in DOMAIN rows
      OBVIOUS
    <3>2. rows[w[i]].op = rows[w[j]].op
      BY <1>1
    <3> DEFINE a == w[i]
               b == w[j]
    <3> HIDE DEF a, b
    <3>3. a \in DOMAIN rows /\ b \in DOMAIN rows /\ rows[a].op = rows[b].op
      BY <3>1, <3>2 DEF a, b
    <3>4. a = b
      BY <3>3 DEF OnceInv
    <3> QED
      BY <3>4 DEF a, b
  <2>2. w[i] \in Nat /\ w[j] \in Nat
    BY <1>3
  <2> QED
    BY <1>3, <2>1, <2>2
<1> HIDE DEF s
<1>5. /\ n \in 0..Len(s)
      /\ \A i \in 1..Len(s) : s[i] \in Imports => i <= n
      /\ n # 0 => s[n] \in Imports
  BY <1>2, LastImportOf
<1> DEFINE E == \E i \in 1..Len(s) : s[i] = o /\ i >= LastImport(s)
<1>6. Reduce(st, s)[o] = (IF n = 0 THEN st[o] ELSE 0) + (IF o \notin Broken /\ E THEN 1 ELSE 0)
  BY <1>2, <1>4, ReduceOnce
<1> HIDE DEF n
<1>7. n # 0 <=> \E t \in S : rows[t].op \in Imports
  <2>1. ASSUME n # 0 PROVE \E t \in S : rows[t].op \in Imports
    <3>1. n \in 1..Len(w) /\ s[n] \in Imports
      BY <1>1, <1>5, <2>1
    <3>2. w[n] \in S /\ rows[w[n]].op = s[n]
      BY <1>1, <1>3, <3>1
    <3> QED
      BY <3>1, <3>2
  <2>2. ASSUME NEW t \in S, rows[t].op \in Imports PROVE n # 0
    <3>1. PICK i \in 1..Len(w) : t = w[i]
      BY <1>3
    <3>2. s[i] \in Imports /\ i \in 1..Len(s)
      BY <1>1, <2>2, <3>1
    <3> QED
      BY <1>5, <3>2
  <2> QED
    BY <2>1, <2>2
<1>8. E <=> \E q \in S : rows[q].op = o /\ \A t \in S : rows[t].op \in Imports => t <= q
  <2>1. ASSUME NEW i \in 1..Len(s), s[i] = o, i >= n
        PROVE  \E q \in S : rows[q].op = o /\ \A t \in S : rows[t].op \in Imports => t <= q
    <3>1. w[i] \in S /\ rows[w[i]].op = o
      BY <1>1, <1>3, <2>1
    <3>2. ASSUME NEW t \in S, rows[t].op \in Imports PROVE t <= w[i]
      <4>1. PICK j \in 1..Len(w) : t = w[j]
        BY <1>3
      <4>2. j <= n
        BY <1>1, <1>5, <3>2, <4>1
      <4>3. j <= i /\ w[i] \in Nat /\ w[j] \in Nat
        BY <1>1, <1>3, <1>5, <2>1, <4>2
      <4>4. j = i \/ j < i
        BY <4>3
      <4> QED
        BY <1>1, <4>1, <4>3, <4>4
    <3> QED
      BY <3>1, <3>2
  <2>2. ASSUME NEW q \in S, rows[q].op = o, \A t \in S : rows[t].op \in Imports => t <= q
        PROVE  \E i \in 1..Len(s) : s[i] = o /\ i >= n
    <3>1. PICK i \in 1..Len(w) : q = w[i]
      BY <1>3
    <3>2. CASE n = 0
      BY <1>1, <2>2, <3>1, <3>2
    <3>3. CASE n # 0
      <4>1. n \in 1..Len(w) /\ rows[w[n]].op \in Imports
        BY <1>1, <1>5, <3>3
      <4>2. w[n] <= w[i]
        BY <1>3, <2>2, <3>1, <4>1
      <4>3. ~(i < n)
        BY <1>3, <4>1, <4>2
      <4> QED
        BY <1>1, <1>3, <2>2, <3>1, <4>1, <4>3
    <3> QED
      BY <3>2, <3>3
  <2> QED
    BY <2>1, <2>2 DEF n
<1> HIDE DEF E
<1>9. Reduce(st, s)[o] =
        (IF \E t \in S : rows[t].op \in Imports THEN 0 ELSE st[o])
          + (IF Effective(o, S) THEN 1 ELSE 0)
  BY <1>6, <1>7, <1>8 DEF Effective
<1> QED
  BY <1>9 DEF s

\* The last full-state operation in the log is in effect.
LEMMA LastHolds ==
  ASSUME LogType, NEW i \in Imports \cap DOMAIN logged
  PROVE  \E g \in Imports \cap DOMAIN logged : Holds(g) /\ logged[i] <= logged[g]
<1> DEFINE S == {logged[g] : g \in Imports \cap DOMAIN logged}
<1>1. nextSeq - 1 \in Nat /\ S \in SUBSET (0..(nextSeq - 1)) /\ S # {}
  BY DEF LogType
<1>2. \E m \in S : \A j \in S : j <= m
  <2> HIDE DEF S
  <2> QED
    BY <1>1, Greatest
<1>3. PICK g \in Imports \cap DOMAIN logged : \A j \in S : j <= logged[g]
  BY <1>2
<1>4. \A j \in Imports \cap DOMAIN logged : logged[j] <= logged[g]
  BY <1>3
<1>5. g \notin Broken
  BY ReducerAssumption
<1> QED
  BY <1>4, <1>5 DEF Holds

\* The rows that a start replays.
Replayed == {s \in DOMAIN rows : s > cache.anchor /\ ~rows[s].rejected}

\* A start replays every row behind the snapshot that is not rejected, in order.
LEMMA ReplayableOf ==
  ASSUME LogType
  PROVE  /\ Replayable \in Seq(Nat) /\ Replayable \in Seq(1..(nextSeq - 1))
         /\ \A i \in 1..Len(Replayable) : Replayable[i] \in DOMAIN rows
         /\ \A i, j \in 1..Len(Replayable) : i < j => Replayable[i] < Replayable[j]
         /\ Replayed \in SUBSET Nat /\ \A i \in 1..Len(Replayable) : Replayable[i] \in Replayed
         /\ \A x \in Replayed : \E i \in 1..Len(Replayable) : Replayable[i] = x
<1>1. nextSeq \in Nat \ {0} /\ Replayed \in SUBSET (1..(nextSeq - 1)) /\ Replayable = InOrder(Replayed)
  BY DEF LogType, Replayed, Replayable
<1> DEFINE w == Replayable
<1>2. /\ w \in Seq(1..(nextSeq - 1))
      /\ \A i \in 1..Len(w) : w[i] \in Replayed
      /\ \A x \in Replayed : \E i \in 1..Len(w) : w[i] = x
  BY <1>1, InOrderOf
<1>3. \A i, j \in 1..Len(w) : i < j => w[i] < w[j]
  BY <1>1, InOrderRises
<1> HIDE DEF w
<1>4. w \in Seq(Nat) /\ DOMAIN w = 1..Len(w)
  BY <1>1, <1>2
<1>5. \A i \in 1..Len(w) : w[i] \in DOMAIN rows
  BY <1>2 DEF Replayed
<1>6. Replayed \in SUBSET Nat
  BY <1>1
<1> QED
  BY <1>2, <1>3, <1>4, <1>5, <1>6 DEF w

\* What the next start rebuilds is what the log holds.
LEMMA RebuiltOf ==
  ASSUME LogType, KnowType, LogInv, OnceInv, SnapInv, NEW o \in Op
  PROVE  Rebuilt[o] = IF Holds(o) THEN 1 ELSE 0
<1>1. PICK a \in cache.anchor..(nextSeq - 1) : SnapAt(a)
  BY DEF SnapInv
<1>2. /\ nextSeq \in Nat /\ cache.anchor \in Nat /\ cache.state \in [Op -> Nat] /\ a \in Nat
      /\ cache.anchor <= a
  BY <1>1 DEF LogType, KnowType, Snapshot
<1>3. Rebuilt[o] = (IF \E t \in Replayed : rows[t].op \in Imports THEN 0 ELSE cache.state[o])
                     + (IF Effective(o, Replayed) THEN 1 ELSE 0)
  <2> DEFINE w == Replayable
  <2>1. /\ w \in Seq(Nat) /\ \A i \in 1..Len(w) : w[i] \in DOMAIN rows
        /\ \A i, j \in 1..Len(w) : i < j => w[i] < w[j]
        /\ Replayed \in SUBSET Nat /\ \A i \in 1..Len(w) : w[i] \in Replayed
        /\ \A x \in Replayed : \E i \in 1..Len(w) : w[i] = x
    BY ReplayableOf
  <2>2. Rebuilt = Reduce(cache.state, OpsAt(w))
    BY DEF Rebuilt
  <2> DEFINE st == cache.state
             S == Replayed
  <2>3. st \in [Op -> Nat]
    BY <1>2
  <2> HIDE DEF w, st, S
  <2>4. /\ S \in SUBSET Nat /\ \A i \in 1..Len(w) : w[i] \in S
        /\ \A x \in S : \E i \in 1..Len(w) : w[i] = x
    BY <2>1 DEF S
  <2>5. Reduce(st, OpsAt(w))[o] = (IF \E t \in S : rows[t].op \in Imports THEN 0 ELSE st[o])
                                   + (IF Effective(o, S) THEN 1 ELSE 0)
    BY <2>1, <2>3, <2>4, ReduceRows
  <2> QED
    BY <2>2, <2>5 DEF st, S
<1>4. cache.state[o] = IF InEffect(o, a) THEN 1 ELSE 0
  BY <1>1 DEF SnapAt
<1>5. /\ \A p \in DOMAIN logged : logged[p] \in 1..(nextSeq - 1) /\ p \in Op
      /\ DOMAIN rows \subseteq 1..(nextSeq - 1)
      /\ \A s \in DOMAIN rows : rows[s].op \in DOMAIN logged /\ logged[rows[s].op] = s
  BY DEF LogType, LogInv, OnceInv
<1>6. \A s \in Replayed : s \in DOMAIN rows /\ s > a /\ s \in Nat
  BY <1>1, <1>2, <1>5 DEF SnapAt, Replayed
<1>7. ASSUME NEW p \in Op, Holds(p), logged[p] > a
      PROVE  logged[p] \in Replayed /\ rows[logged[p]].op = p
  <2>1. logged[p] \in DOMAIN rows /\ rows[logged[p]].op = p
    BY <1>1, <1>7 DEF SnapAt
  <2>2. p \notin Broken
    BY <1>7 DEF Holds
  <2>3. ~rows[logged[p]].rejected
    BY <2>1, <2>2 DEF LogInv
  <2>4. logged[p] > cache.anchor
    BY <1>2, <1>5, <1>7, <2>1
  <2> QED
    BY <2>1, <2>3, <2>4 DEF Replayed
<1>8. CASE Holds(o) /\ logged[o] <= a
  <2>1. InEffect(o, a)
    BY <1>8 DEF Holds, InEffect
  <2>2. \A t \in Replayed : rows[t].op \notin Imports
    <3> SUFFICES ASSUME NEW t \in Replayed, rows[t].op \in Imports PROVE FALSE
      OBVIOUS
    <3>1. t <= logged[o]
      BY <1>5, <1>6, <1>8 DEF Holds
    <3>2. t > a /\ o \in DOMAIN logged
      BY <1>6, <1>8 DEF Holds
    <3> QED
      BY <1>2, <1>5, <1>6, <1>8, <3>1, <3>2
  <2>3. ~Effective(o, Replayed)
    <3> SUFFICES ASSUME NEW s \in Replayed, rows[s].op = o PROVE FALSE
      BY DEF Effective
    <3>1. logged[o] = s /\ s > a
      BY <1>5, <1>6
    <3> QED
      BY <1>2, <1>6, <1>8, <3>1
  <2> QED
    BY <1>3, <1>4, <1>8, <2>1, <2>2, <2>3
<1>9. CASE Holds(o) /\ ~(logged[o] <= a)
  <2>1. logged[o] > a /\ o \in DOMAIN logged /\ o \notin Broken
    BY <1>2, <1>5, <1>9 DEF Holds
  <2>2. logged[o] \in Replayed /\ rows[logged[o]].op = o
    BY <1>7, <1>9, <2>1
  <2>3. \A t \in Replayed : rows[t].op \in Imports => t <= logged[o]
    BY <1>5, <1>6, <1>9 DEF Holds
  <2>4. Effective(o, Replayed)
    BY <2>1, <2>2, <2>3 DEF Effective
  <2>5. ~InEffect(o, a)
    BY <1>9 DEF InEffect
  <2> QED
    BY <1>3, <1>4, <1>9, <2>4, <2>5
<1>10. CASE ~Holds(o)
  <2>1. CASE o \notin DOMAIN logged \ Broken
    <3>1. ~InEffect(o, a)
      BY <2>1 DEF InEffect
    <3>2. ~Effective(o, Replayed)
      BY <1>5, <1>6, <2>1 DEF Effective
    <3> QED
      BY <1>3, <1>4, <1>10, <3>1, <3>2
  <2>2. CASE o \in DOMAIN logged \ Broken
    <3>1. PICK i \in Imports \cap DOMAIN logged : ~(logged[i] <= logged[o])
      BY <1>10, <2>2 DEF Holds
    <3>2. PICK g \in Imports \cap DOMAIN logged : Holds(g) /\ logged[i] <= logged[g]
      BY <3>1, LastHolds
    <3>3. logged[g] > logged[o] /\ logged[g] \in Nat /\ logged[o] \in Nat /\ g \in Op
      BY <1>5, <2>2, <3>1, <3>2
    <3>4. ~(logged[g] <= logged[o])
      BY <3>3
    <3>5. CASE logged[g] > a
      <4>1. logged[g] \in Replayed /\ rows[logged[g]].op \in Imports
        BY <1>7, <3>2, <3>3, <3>5
      <4>2. ~Effective(o, Replayed)
        <5> SUFFICES ASSUME NEW s \in Replayed, rows[s].op = o, logged[g] <= s PROVE FALSE
          BY <4>1 DEF Effective
        <5>1. logged[o] = s
          BY <1>5, <1>6
        <5> QED
          BY <3>4, <5>1
      <4> QED
        BY <1>3, <1>10, <4>1, <4>2
    <3>6. CASE ~(logged[g] > a)
      <4>1. logged[g] <= a /\ logged[o] <= a
        BY <1>2, <3>3, <3>6
      <4>2. ~InEffect(o, a)
        BY <3>2, <3>4, <4>1 DEF InEffect
      <4>3. ~Effective(o, Replayed)
        <5> SUFFICES ASSUME NEW s \in Replayed, rows[s].op = o PROVE FALSE
          BY DEF Effective
        <5>1. logged[o] = s /\ s > a
          BY <1>5, <1>6
        <5> QED
          BY <1>2, <3>3, <4>1, <5>1
      <4> QED
        BY <1>3, <1>4, <1>10, <4>2, <4>3
    <3> QED
      BY <3>5, <3>6
  <2> QED
    BY <2>1, <2>2
<1> QED
  BY <1>8, <1>9, <1>10

-----------------------------------------------------------------------------
(* What a step does to the log *)

\* Where the operations of s are, once they are written.
LEMMA LoggedOf ==
  ASSUME LogType, NEW s \in Seq(Op), \A i, j \in 1..Len(s) : s[i] = s[j] => i = j,
         NEW st, NEW sy, Stored(s, st, sy)
  PROVE  /\ \A i \in 1..Len(s) : logged'[s[i]] = nextSeq + i - 1
         /\ \A o \in DOMAIN logged : (\A i \in 1..Len(s) : s[i] # o) => logged'[o] = logged[o]
<1> DEFINE new == nextSeq..(nextSeq + Len(s) - 1)
           at(n) == s[n - nextSeq + 1]
<1>1. nextSeq \in Nat \ {0} /\ Len(s) \in Nat
  BY DEF LogType
<1>2. logged' = [o \in DOMAIN logged \cup {at(n) : n \in new} |->
                   IF \E n \in new : at(n) = o THEN CHOOSE n \in new : at(n) = o
                   ELSE logged[o]]
  BY DEF Stored
<1>3. ASSUME NEW n \in new PROVE n \in Nat /\ n - nextSeq + 1 \in 1..Len(s)
  <2>1. n \in Nat /\ nextSeq <= n /\ n <= nextSeq + Len(s) - 1
    BY <1>1
  <2> QED
    BY <1>1, <2>1
<1>4. ASSUME NEW i \in 1..Len(s) PROVE nextSeq + i - 1 \in new /\ at(nextSeq + i - 1) = s[i]
  <2>1. nextSeq + i - 1 \in new /\ (nextSeq + i - 1) - nextSeq + 1 = i
    BY <1>1
  <2> QED
    BY <2>1
<1>5. \A n, m \in new : at(n) = at(m) => n = m
  <2> SUFFICES ASSUME NEW n \in new, NEW m \in new, at(n) = at(m) PROVE n = m
    OBVIOUS
  <2> DEFINE i == n - nextSeq + 1
             j == m - nextSeq + 1
  <2>1. i \in 1..Len(s) /\ j \in 1..Len(s) /\ s[i] = s[j] /\ n \in Nat /\ m \in Nat
    BY <1>3
  <2>2. i = j
    <3> HIDE DEF i, j
    <3> QED
      BY <2>1
  <2> QED
    BY <1>1, <2>1, <2>2
<1>6. \A n \in new : \E i \in 1..Len(s) : at(n) = s[i]
  BY <1>3
<1> HIDE DEF new, at
<1>7. ASSUME NEW i \in 1..Len(s) PROVE logged'[s[i]] = nextSeq + i - 1
  <2> DEFINE n == nextSeq + i - 1
  <2>1. n \in new /\ at(n) = s[i]
    BY <1>4
  <2> HIDE DEF n
  <2>2. logged'[s[i]] = CHOOSE m \in new : at(m) = s[i]
    BY <1>2, <2>1
  <2>3. (CHOOSE m \in new : at(m) = s[i]) = n
    BY <1>5, <2>1
  <2> QED
    BY <2>2, <2>3 DEF n
<1>8. ASSUME NEW o \in DOMAIN logged, \A i \in 1..Len(s) : s[i] # o PROVE logged'[o] = logged[o]
  BY <1>2, <1>6, <1>8
<1> QED
  BY <1>7, <1>8

\* The operations of s are behind the log.
Appends(s) ==
  /\ nextSeq' = nextSeq + Len(s)
  /\ DOMAIN rows' = DOMAIN rows \cup nextSeq..(nextSeq + Len(s) - 1)
  /\ \A n \in DOMAIN rows : rows'[n] = rows[n]
  /\ \A i \in 1..Len(s) : rows'[nextSeq + i - 1].op = s[i] /\ logged'[s[i]] = nextSeq + i - 1
  /\ DOMAIN logged' = DOMAIN logged \cup {s[i] : i \in 1..Len(s)}
  /\ \A o \in DOMAIN logged : (\A i \in 1..Len(s) : s[i] # o) => logged'[o] = logged[o]

\* A transaction that stores operations appends them.
LEMMA AppendsOf ==
  ASSUME LogType, NEW s \in Seq(Op), \A i, j \in 1..Len(s) : s[i] = s[j] => i = j,
         NEW st \in Statuses, NEW sy \in BOOLEAN, Stored(s, st, sy)
  PROVE  Appends(s)
<1>1. /\ nextSeq' = nextSeq + Len(s)
      /\ DOMAIN rows' = DOMAIN rows \cup nextSeq..(nextSeq + Len(s) - 1)
      /\ \A n \in DOMAIN rows : rows'[n] = rows[n]
      /\ \A i \in 1..Len(s) :
           rows'[nextSeq + i - 1] = [op |-> s[i], status |-> st, synced |-> sy, rejected |-> FALSE]
      /\ DOMAIN logged' = DOMAIN logged \cup {s[i] : i \in 1..Len(s)}
  BY StoredOf, ZenonT(30)
<1>2. /\ \A i \in 1..Len(s) : logged'[s[i]] = nextSeq + i - 1
      /\ \A o \in DOMAIN logged : (\A i \in 1..Len(s) : s[i] # o) => logged'[o] = logged[o]
  BY LoggedOf
<1>3. ASSUME NEW i \in 1..Len(s) PROVE rows'[nextSeq + i - 1].op = s[i]
  <2> DEFINE r == [op |-> s[i], status |-> st, synced |-> sy, rejected |-> FALSE]
  <2>1. rows'[nextSeq + i - 1] = r
    BY <1>1
  <2>2. r.op = s[i]
    OBVIOUS
  <2> HIDE DEF r
  <2> QED
    BY <2>1, <2>2
<1> QED
  BY <1>1, <1>2, <1>3 DEF Appends

\* One local operation o is written: what Appends(<<o>>) says of it.
Writes(o) ==
  /\ nextSeq' = nextSeq + 1
  /\ DOMAIN rows' = DOMAIN rows \cup {nextSeq}
  /\ \A n \in DOMAIN rows : rows'[n] = rows[n]
  /\ rows'[nextSeq].op = o /\ logged'[o] = nextSeq
  /\ DOMAIN logged' = DOMAIN logged \cup {o}
  /\ \A p \in DOMAIN logged : p # o => logged'[p] = logged[p]
  /\ Pending' = Pending /\ Unfinished' = Unfinished
  /\ cache' = cache /\ archived' = archived /\ clock' = clock \cup {o}

\* The write of a local operation appends it and teaches it to the clock.
LEMMA WritesOf ==
  ASSUME LogType, LogInv, NEW o \in Local, WriteLocal(o)
  PROVE  Writes(o)
<1>1. o \in Op
  BY DEF Op
<1>2. <<o>> \in Seq(Op) /\ Len(<<o>>) = 1 /\ <<o>>[1] = o /\ "local" \in Statuses
  BY <1>1 DEF Statuses
<1>3. \A i, j \in 1..Len(<<o>>) : <<o>>[i] = <<o>>[j] => i = j
  BY <1>2
<1> DEFINE s == <<o>>
<1>4. s \in Seq(Op) /\ Len(s) = 1 /\ s[1] = o /\ \A i, j \in 1..Len(s) : s[i] = s[j] => i = j
  BY <1>2, <1>3
<1>5. Stored(s, "local", FALSE)
  BY DEF WriteLocal
<1> HIDE DEF s
<1>6. Appends(s)
  BY <1>2, <1>4, <1>5, AppendsOf
<1>7. nextSeq \in Nat
  BY DEF LogType
<1>8. /\ nextSeq' = nextSeq + 1 /\ DOMAIN rows' = DOMAIN rows \cup {nextSeq}
      /\ rows'[nextSeq].op = o /\ logged'[o] = nextSeq
  <2>1. nextSeq + 1 - 1 = nextSeq /\ 1 \in 1..Len(s)
    BY <1>4, <1>7
  <2>2. rows'[nextSeq + 1 - 1].op = s[1] /\ logged'[s[1]] = nextSeq + 1 - 1
    BY <1>6, <2>1 DEF Appends
  <2>3. nextSeq..nextSeq = {nextSeq}
    BY <1>7
  <2> QED
    BY <1>4, <1>6, <2>1, <2>2, <2>3 DEF Appends
<1>9. /\ \A n \in DOMAIN rows : rows'[n] = rows[n]
      /\ DOMAIN logged' = DOMAIN logged \cup {o}
      /\ \A p \in DOMAIN logged : p # o => logged'[p] = logged[p]
  <2>1. {s[i] : i \in 1..Len(s)} = {o}
    BY <1>4
  <2>2. \A i \in 1..Len(s) : s[i] = o
    BY <1>4
  <2> QED
    BY <1>6, <2>1, <2>2 DEF Appends
<1>10. Pending' = Pending /\ Unfinished' = Unfinished
  BY WriteLocalOf
<1>11. cache' = cache /\ archived' = archived /\ clock' = clock \cup {o}
  BY DEF WriteLocal
<1> QED
  BY <1>8, <1>9, <1>10, <1>11 DEF Writes

\* No row comes or goes, and no operation.
KeepsRows ==
  /\ nextSeq' = nextSeq /\ logged' = logged /\ DOMAIN rows' = DOMAIN rows
  /\ \A s \in DOMAIN rows : rows'[s].op = rows[s].op

\* Rows go, and nothing else.
Deletes(S) ==
  /\ nextSeq' = nextSeq /\ logged' = logged /\ cache' = cache
  /\ DOMAIN rows' = DOMAIN rows \ S
  /\ \A s \in DOMAIN rows' : rows'[s] = rows[s]

\* The rows of full-state operations that an apply supersedes.
Older == {s \in DOMAIN rows \ Batch : rows[s].op \in Imports}

\* Clearing full-state operations deletes the older ones, or nothing.
LEMMA ClearOlderOf ==
  ASSUME LogType, ClearOlder
  PROVE  \/ KeepsRows /\ cache' = cache /\ rows' = rows
         \/ /\ Deletes(Older) /\ mode = "download"
            /\ \E s \in Finished : rows[s].op \in Imports
<1>1. nextSeq' = nextSeq /\ logged' = logged /\ cache' = cache
  BY DEF ClearOlder
<1>2. rows' = IF mode = "download" /\ \E s \in Finished : rows[s].op \in Imports
              THEN [s \in DOMAIN rows \ Older |-> rows[s]] ELSE rows
  BY DEF ClearOlder, Older, Batch
<1> QED
  BY <1>1, <1>2 DEF KeepsRows, Deletes

\* A compaction deletes what the snapshot holds and is through, nothing else.
LEMMA DeleteOldOf ==
  ASSUME LogType, KnowType, DeleteOld
  PROVE  \E S \in SUBSET (DOMAIN rows) :
           /\ Deletes(S)
           /\ \A s \in S : /\ s <= cache.anchor /\ s \notin Pending \cup Unfinished
                           /\ "stall" \in Events \/ \A i \in (cursor + 1)..Len(Feed) : Feed[i] # rows[s].op
<1>1. PICK age \in 0..cache.anchor :
        rows' = [s \in {t \in DOMAIN rows : ~(t \in Old(age) /\ Deletable(t))} |-> rows[s]]
  BY DEF DeleteOld
<1> DEFINE S == {t \in DOMAIN rows : t \in Old(age) /\ Deletable(t)}
<1>2. DOMAIN rows \ S = {t \in DOMAIN rows : ~(t \in Old(age) /\ Deletable(t))}
  OBVIOUS
<1>3. ASSUME NEW s \in S
      PROVE  /\ s <= cache.anchor /\ s \notin Pending \cup Unfinished
             /\ "stall" \in Events \/ \A i \in (cursor + 1)..Len(Feed) : Feed[i] # rows[s].op
  <2>1. s \in Nat /\ age \in Nat /\ age <= cache.anchor /\ cache.anchor \in Nat
    BY <1>3 DEF LogType, KnowType, Snapshot
  <2>2. s \notin Pending \cup Unfinished
    BY <1>3 DEF Deletable, Pending, Unfinished
  <2> QED
    BY <1>3, <2>1, <2>2 DEF Old
<1>4. nextSeq' = nextSeq /\ logged' = logged /\ cache' = cache
  BY DEF DeleteOld
<1>5. S \in SUBSET (DOMAIN rows)
  OBVIOUS
<1> HIDE DEF S
<1>6. Deletes(S)
  BY <1>1, <1>2, <1>4 DEF Deletes
<1> QED
  BY <1>3, <1>5, <1>6

\* The checkpoint of the reducers leaves every row where it is.
LEMMA CheckpointKeeps ==
  ASSUME LogType, NEW S, Checkpoint(S), nextSeq' = nextSeq, logged' = logged
  PROVE  KeepsRows
<1>1. DOMAIN rows' = DOMAIN rows
  BY DEF Checkpoint
<1>2. ASSUME NEW s \in DOMAIN rows PROVE rows'[s].op = rows[s].op
  <2>1. rows[s] \in Row
    BY DEF LogType
  <2>2. \/ rows'[s] = rows[s]
        \/ rows'[s] = [rows[s] EXCEPT !.rejected = TRUE]
        \/ rows'[s] = [rows[s] EXCEPT !.status = "archive_pending"]
    BY DEF Checkpoint
  <2> QED
    BY <2>1, <2>2 DEF Row
<1> QED
  BY <1>1, <1>2 DEF KeepsRows

\* So does a mark.
LEMMA MarkedKeeps ==
  ASSUME LogType, NEW S, NEW st, rows' = Marked(S, st), nextSeq' = nextSeq, logged' = logged
  PROVE  KeepsRows
<1>1. DOMAIN rows' = DOMAIN rows
  BY DEF Marked
<1>2. ASSUME NEW s \in DOMAIN rows PROVE rows'[s].op = rows[s].op
  <2>1. rows[s] \in Row
    BY DEF LogType
  <2>2. rows'[s] = rows[s] \/ rows'[s] = [rows[s] EXCEPT !.status = st]
    BY DEF Marked
  <2> QED
    BY <2>1, <2>2 DEF Row
<1> QED
  BY <1>1, <1>2 DEF KeepsRows

\* An upload touches no status.
LEMMA UploadKeeps ==
  ASSUME LogType, Upload
  PROVE  /\ KeepsRows
         /\ \A s \in DOMAIN rows : rows'[s].status = rows[s].status /\ rows'[s].rejected = rows[s].rejected
<1>1. /\ nextSeq' = nextSeq /\ logged' = logged
      /\ rows' = rows \/ rows' = [s \in DOMAIN rows |-> [rows[s] EXCEPT !.synced = TRUE]]
  BY DEF Upload
<1>2. DOMAIN rows' = DOMAIN rows
  BY <1>1
<1>3. ASSUME NEW s \in DOMAIN rows
      PROVE  /\ rows'[s].op = rows[s].op /\ rows'[s].status = rows[s].status
             /\ rows'[s].rejected = rows[s].rejected
  <2>1. rows[s] \in Row
    BY DEF LogType
  <2>2. rows'[s] = rows[s] \/ rows'[s] = [rows[s] EXCEPT !.synced = TRUE]
    BY <1>1
  <2> QED
    BY <2>1, <2>2 DEF Row
<1> QED
  BY <1>1, <1>2, <1>3 DEF KeepsRows

\* An action that waits is the user's and not written yet.
LEMMA WaitingOf ==
  ASSUME UiType, OwnInv
  PROVE  /\ captured # <<>> => /\ Head(captured) \in OwnOps /\ Head(captured) \in Waiting
                               /\ Head(captured) \notin DOMAIN logged /\ Head(captured) \in Local
         /\ deferred # <<>> => /\ Head(deferred) \in OwnOps /\ Head(deferred) \in Waiting
                               /\ Head(deferred) \notin DOMAIN logged /\ Head(deferred) \in Local
<1>1. captured \in Seq(OwnOps) /\ deferred \in Seq(OwnOps) /\ Waiting \cap DOMAIN logged = {}
  BY DEF UiType, OwnInv
<1>2. ASSUME captured # <<>> PROVE Head(captured) \in OwnOps /\ Head(captured) \in Waiting
  <2>1. 1 \in DOMAIN captured /\ Head(captured) = captured[1] /\ captured[1] \in OwnOps
    BY <1>1, <1>2
  <2> QED
    BY <2>1 DEF Waiting, Among
<1>3. ASSUME deferred # <<>> PROVE Head(deferred) \in OwnOps /\ Head(deferred) \in Waiting
  <2>1. 1 \in DOMAIN deferred /\ Head(deferred) = deferred[1] /\ deferred[1] \in OwnOps
    BY <1>1, <1>3
  <2> QED
    BY <2>1 DEF Waiting, Among
<1> QED
  BY <1>1, <1>2, <1>3 DEF Local

\* Nothing else writes, deletes or numbers rows.
LEMMA LogStep ==
  ASSUME LogType, LogInv, UiType, OwnInv, Next
  PROVE  \/ KeepsRows
         \/ ClearOlder /\ Deletes(Older) /\ mode = "download" /\ \E s \in Finished : rows[s].op \in Imports
         \/ DeleteOld
         \/ \E o \in OwnOps \ DOMAIN logged : Writes(o) /\ (WriteCaptured \/ WriteDeferred)
         \/ \E o \in TabOps \ DOMAIN logged : Writes(o) /\ WriteElsewhere(o)
         \/ StoreBatch /\ Applicable # <<>>
<1>1. CASE UNCHANGED <<rows, nextSeq, logged>>
  BY <1>1 DEF KeepsRows
<1>2. CASE Start
  <2>1. Load \/ Replay \/ EndStart => UNCHANGED <<rows, nextSeq, logged>>
    BY DEF Load, Replay, EndStart
  <2>2. ASSUME Settle PROVE KeepsRows
    <3>1. Checkpoint(Pending) /\ nextSeq' = nextSeq /\ logged' = logged
      BY <2>2 DEF Settle
    <3> QED
      BY <3>1, CheckpointKeeps
  <2> QED
    BY <1>1, <1>2, <2>1, <2>2 DEF Start
<1>3. CASE User
  <2>1. Dispatch \/ LoseCaptured => UNCHANGED <<rows, nextSeq, logged>>
    BY DEF Dispatch, LoseCaptured, disk
  <2>2. ASSUME WriteCaptured PROVE \E o \in OwnOps \ DOMAIN logged : Writes(o)
    <3>1. captured # <<>> /\ WriteLocal(Head(captured))
      BY <2>2 DEF WriteCaptured
    <3> QED
      BY <3>1, WaitingOf, WritesOf
  <2>3. ASSUME NEW o \in TabOps, WriteElsewhere(o) PROVE o \notin DOMAIN logged /\ Writes(o)
    <3>1. o \in Local /\ WriteLocal(o) /\ o \notin DOMAIN logged
      BY <2>3 DEF Local, WriteElsewhere
    <3> QED
      BY <3>1, WritesOf
  <2> QED
    BY <1>1, <1>3, <2>1, <2>2, <2>3 DEF User
<1>4. CASE Buffer
  <2>1. FailDeferred => UNCHANGED <<rows, nextSeq, logged>>
    BY DEF FailDeferred, disk
  <2>2. ASSUME WriteDeferred PROVE \E o \in OwnOps \ DOMAIN logged : Writes(o)
    <3>1. deferred # <<>> /\ WriteLocal(Head(deferred))
      BY <2>2 DEF WriteDeferred
    <3> QED
      BY <3>1, WaitingOf, WritesOf
  <2> QED
    BY <1>1, <1>4, <2>1, <2>2 DEF Buffer
<1>5. Publish \/ Crash => UNCHANGED <<rows, nextSeq, logged>>
  BY DEF Publish, Crash, disk
<1>6. CASE Fetch
  <2>1. Sync \/ Gate \/ FirstPage \/ LastPage \/ Refuse => UNCHANGED <<rows, nextSeq, logged>>
    BY DEF Sync, Gate, FirstPage, LastPage, Refuse, disk
  <2>2. StoreBatch /\ Applicable = <<>> => UNCHANGED <<rows, nextSeq, logged>>
    BY DEF StoreBatch
  <2> QED
    BY <1>1, <1>6, <2>1, <2>2 DEF Fetch
<1>7. CASE Stage
  <2>1. MergeClocks \/ RunReducers \/ Throw => UNCHANGED <<rows, nextSeq, logged>>
    BY DEF MergeClocks, RunReducers, Throw, disk
  <2>2. ASSUME CommitReducers PROVE KeepsRows
    <3> DEFINE S == {work[i] : i \in DOMAIN work}
    <3>1. Checkpoint(S) /\ nextSeq' = nextSeq /\ logged' = logged
      BY <2>2 DEF CommitReducers
    <3> HIDE DEF S
    <3> QED
      BY <3>1, CheckpointKeeps
  <2> QED
    BY <1>1, <1>7, <2>1, <2>2 DEF Stage
<1>8. CASE Effects
  <2>1. RunEffect \/ FailEffect \/ EndEffects => UNCHANGED <<rows, nextSeq, logged>>
    BY DEF RunEffect, FailEffect, EndEffects, disk
  <2> QED
    BY <1>1, <1>8, <2>1 DEF Effects
<1>9. CASE Finish
  <2>1. EndDrain \/ Advance => UNCHANGED <<rows, nextSeq, logged>>
    BY DEF EndDrain, Advance, disk
  <2>2. ASSUME MarkApplied PROVE KeepsRows
    <3>1. rows' = Marked(Finished, "applied") /\ nextSeq' = nextSeq /\ logged' = logged
      BY <2>2 DEF MarkApplied
    <3> QED
      BY <3>1, MarkedKeeps
  <2>3. ASSUME MarkFailed PROVE KeepsRows
    <3> DEFINE S == {work[done + 1]}
    <3>1. (rows' = rows \/ rows' = Marked(S, "failed")) /\ nextSeq' = nextSeq /\ logged' = logged
      BY <2>3 DEF MarkFailed
    <3> HIDE DEF S
    <3> QED
      BY <1>1, <3>1, MarkedKeeps DEF KeepsRows
  <2>4. ASSUME ClearOlder
        PROVE  \/ KeepsRows
               \/ Deletes(Older) /\ mode = "download" /\ \E s \in Finished : rows[s].op \in Imports
    BY <2>4, ClearOlderOf
  <2>5. Upload => KeepsRows
    BY UploadKeeps
  <2> QED
    BY <1>1, <1>9, <2>1, <2>2, <2>3, <2>4, <2>5 DEF Finish
<1>10. CASE Compact
  <2>1. SaveSnapshot => UNCHANGED <<rows, nextSeq, logged>>
    BY DEF SaveSnapshot
  <2> QED
    BY <1>1, <1>10, <2>1 DEF Compact
<1> QED
  BY <1>1, <1>2, <1>3, <1>4, <1>5, <1>6, <1>7, <1>8, <1>9, <1>10 DEF Next

\* Who touches the state on the screen and what waits for its write.
LEMMA UiStep ==
  ASSUME Next
  PROVE  \/ UNCHANGED <<captured, deferred, lost, nextOwn>>
         \/ Dispatch \/ WriteCaptured \/ LoseCaptured \/ WriteDeferred \/ Crash
<1>1. CASE Start
  BY <1>1 DEF Start, Load, Replay, Settle, EndStart, ui, world
<1>2. CASE User
  BY <1>2 DEF User, WriteElsewhere, ui, world
<1>3. CASE Buffer
  BY <1>3 DEF Buffer, FailDeferred, ui
<1>4. CASE Publish
  BY <1>4 DEF Publish, ui
<1>5. CASE Fetch
  BY <1>5 DEF Fetch, Sync, Gate, FirstPage, LastPage, Refuse, StoreBatch, ui, world
<1>6. CASE Stage
  BY <1>6 DEF Stage, MergeClocks, RunReducers, CommitReducers, Throw, ui, world
<1>7. CASE Effects
  BY <1>7 DEF Effects, RunEffect, FailEffect, EndEffects, ui, world
<1>8. CASE Finish
  BY <1>8 DEF Finish, MarkApplied, ClearOlder, MarkFailed, EndDrain, Advance, Upload, ui, world
<1>9. CASE Compact
  BY <1>9 DEF Compact, SaveSnapshot, DeleteOld, ui, world
<1> QED
  BY <1>1, <1>2, <1>3, <1>4, <1>5, <1>6, <1>7, <1>8, <1>9 DEF Next

\* Who changes the screen.
LEMMA LiveStep ==
  ASSUME Next
  PROVE  live' = live \/ Dispatch \/ Load \/ Replay \/ RunReducers \/ Crash
<1>1. CASE Start
  BY <1>1 DEF Start, Settle, EndStart, ui
<1>2. CASE User
  BY <1>2 DEF User, WriteCaptured, LoseCaptured, WriteElsewhere, ui
<1>3. CASE Buffer
  BY <1>3 DEF Buffer, WriteDeferred, FailDeferred, ui
<1>4. CASE Publish
  BY <1>4 DEF Publish, ui
<1>5. CASE Fetch
  BY <1>5 DEF Fetch, Sync, Gate, FirstPage, LastPage, Refuse, StoreBatch, ui
<1>6. CASE Stage
  BY <1>6 DEF Stage, MergeClocks, CommitReducers, Throw, ui
<1>7. CASE Effects
  BY <1>7 DEF Effects, RunEffect, FailEffect, EndEffects, ui
<1>8. CASE Finish
  BY <1>8 DEF Finish, MarkApplied, ClearOlder, MarkFailed, EndDrain, Advance, Upload, ui
<1>9. CASE Compact
  BY <1>9 DEF Compact, SaveSnapshot, DeleteOld, ui
<1> QED
  BY <1>1, <1>2, <1>3, <1>4, <1>5, <1>6, <1>7, <1>8, <1>9 DEF Next

\* Who moves the frontier.
LEMMA FrontStep ==
  ASSUME Next
  PROVE  UNCHANGED <<frontier, foreign>> \/ WriteCaptured \/ WriteDeferred \/ StoreBatch \/ Settle \/ Crash
<1>1. CASE Start
  BY <1>1 DEF Start, Load, Replay, EndStart, tab
<1>2. CASE User
  BY <1>2 DEF User, Dispatch, LoseCaptured, WriteElsewhere, tab
<1>3. CASE Buffer
  BY <1>3 DEF Buffer, FailDeferred, tab
<1>4. CASE Publish
  BY <1>4 DEF Publish, tab
<1>5. CASE Fetch
  BY <1>5 DEF Fetch, Sync, Gate, FirstPage, LastPage, Refuse, tab
<1>6. CASE Stage
  BY <1>6 DEF Stage, MergeClocks, RunReducers, CommitReducers, Throw, tab
<1>7. CASE Effects
  BY <1>7 DEF Effects, RunEffect, FailEffect, EndEffects, tab
<1>8. CASE Finish
  BY <1>8 DEF Finish, MarkApplied, ClearOlder, MarkFailed, EndDrain, Advance, Upload, tab
<1>9. CASE Compact
  BY <1>9 DEF Compact, SaveSnapshot, DeleteOld, tab
<1> QED
  BY <1>1, <1>2, <1>3, <1>4, <1>5, <1>6, <1>7, <1>8, <1>9 DEF Next

\* Who takes a snapshot, and of what.
LEMMA CacheStep ==
  ASSUME PendInv, Next
  PROVE  \/ cache' = cache
         \/ /\ EndStart \/ SaveSnapshot
            /\ Snap /\ SaveSafe(LastSeq) /\ ~PhantomRisk /\ Pending = {}
            /\ UNCHANGED <<rows, nextSeq, clock, archived, cursor, live, captured, deferred, lost,
                           frontier, foreign, logged>>
            /\ stage \notin {"off", "loaded", "replayed"}
<1>1. CASE Start
  <2>1. Load \/ Replay \/ Settle => cache' = cache
    BY DEF Load, Replay, Settle
  <2>2. ASSUME EndStart
        PROVE  cache' = cache \/ (Snap /\ SaveSafe(LastSeq) /\ ~PhantomRisk /\ Pending = {})
    BY <2>2 DEF EndStart, PendInv
  <2>3. EndStart => /\ UNCHANGED <<rows, nextSeq, clock, archived, cursor, live, captured, deferred, lost,
                                   frontier, foreign, logged>>
                    /\ stage = "settled"
    BY DEF EndStart, ui, tab
  <2> QED
    BY <1>1, <2>1, <2>2, <2>3 DEF Start
<1>2. CASE User
  BY <1>2 DEF User, Dispatch, WriteCaptured, LoseCaptured, WriteElsewhere, WriteLocal, disk
<1>3. CASE Buffer
  BY <1>3 DEF Buffer, WriteDeferred, WriteLocal, FailDeferred, disk
<1>4. CASE Publish
  BY <1>4 DEF Publish, disk
<1>5. CASE Fetch
  BY <1>5 DEF Fetch, Sync, Gate, FirstPage, LastPage, Refuse, StoreBatch, disk
<1>6. CASE Stage
  BY <1>6 DEF Stage, MergeClocks, RunReducers, CommitReducers, Throw, disk
<1>7. CASE Effects
  BY <1>7 DEF Effects, RunEffect, FailEffect, EndEffects, disk
<1>8. CASE Finish
  BY <1>8 DEF Finish, MarkApplied, ClearOlder, MarkFailed, EndDrain, Advance, Upload, disk
<1>9. CASE Compact
  <2>1. DeleteOld => cache' = cache
    BY DEF DeleteOld
  <2>2. SaveSnapshot => /\ Snap /\ SaveSafe(LastSeq) /\ ~PhantomRisk /\ Pending = {}
                        /\ UNCHANGED <<rows, nextSeq, clock, archived, cursor, live, captured, deferred, lost,
                                       frontier, foreign, logged>>
                        /\ stage \notin {"off", "loaded", "replayed"}
    BY DEF SaveSnapshot, Compactable, Running, BootStages, ui, tab
  <2> QED
    BY <1>9, <2>1, <2>2 DEF Compact
<1>10. CASE Crash
  BY <1>10 DEF Crash, disk
<1> QED
  BY <1>1, <1>2, <1>3, <1>4, <1>5, <1>6, <1>7, <1>8, <1>9, <1>10 DEF Next

\* Which rows wait for their reducers changes with a batch and its checkpoint.
LEMMA PendStep ==
  ASSUME Inv, OwnInv, PendInv, Next
  PROVE  /\ Pending' = Pending \/ Settle \/ CommitReducers \/ (StoreBatch /\ Applicable # <<>>)
         /\ Settle \/ CommitReducers => Pending' = {} /\ KeepsRows
<1>1. LogType /\ KnowType /\ UiType /\ WorkType /\ LogInv /\ WorkInv /\ GateInv /\ KnownInv
  BY DEF Inv
<1>2. rows' = rows => Pending' = Pending
  BY DEF Pending
<1>3. ASSUME NEW S \in SUBSET Pending, \A s \in Pending : s \in S, Checkpoint(S),
             nextSeq' = nextSeq, logged' = logged, archived' = archived
      PROVE  Pending' = {} /\ KeepsRows
  <2>1. /\ DOMAIN rows' = DOMAIN rows
        /\ \A s \in DOMAIN rows \ S : rows'[s] = rows[s]
        /\ \A s \in S : IF rows[s].op \in Broken THEN rows'[s].rejected
                        ELSE rows'[s].status = "archive_pending" /\ ~rows'[s].rejected
    BY <1>1, <1>3, CheckpointOf DEF KnowType
  <2>2. Pending' = {}
    BY <1>3, <2>1 DEF Pending
  <2> QED
    BY <1>1, <1>3, <2>2, CheckpointKeeps
<1>4. Settle => Pending' = {} /\ KeepsRows
  <2>1. Settle => Checkpoint(Pending) /\ nextSeq' = nextSeq /\ logged' = logged /\ archived' = archived
    BY DEF Settle
  <2> QED
    BY <1>3, <2>1
<1>5. ASSUME CommitReducers PROVE Pending' = {} /\ KeepsRows
  <2> DEFINE S == {work[i] : i \in DOMAIN work}
  <2>1. Checkpoint(S) /\ nextSeq' = nextSeq /\ logged' = logged /\ archived' = archived /\ stage = "reduced"
    BY <1>5 DEF CommitReducers, Go
  <2>2. mode = "download" /\ DOMAIN work = 1..Len(work)
    BY <1>1, <2>1 DEF Inv, StageInv, WorkType
  <2>3. S \in SUBSET Pending
    BY <1>1, <2>1, <2>2 DEF WorkInv
  <2>4. \A s \in Pending : s \in S
    BY <1>1, <2>1, <2>2 DEF GateInv, ApplyStages
  <2> HIDE DEF S
  <2> QED
    BY <1>3, <2>1, <2>3, <2>4
<1>6. ASSUME NEW S, Deletes(S), S \cap Pending = {} PROVE Pending' = Pending
  BY <1>6 DEF Deletes, Pending
<1>7. DeleteOld => Pending' = Pending
  BY <1>1, <1>6, DeleteOldOf
<1>8. ASSUME ClearOlder PROVE Pending' = Pending
  <2>1. stage = "clear"
    BY <1>8 DEF ClearOlder, Go
  <2>2. mode = "download" => Older \cap Pending = {}
    <3>1. DOMAIN work = 1..Len(work)
      BY <1>1 DEF WorkType
    <3> QED
      BY <1>1, <2>1, <3>1 DEF GateInv, ApplyStages, Older, Batch
  <2> QED
    BY <1>1, <1>2, <1>6, <1>8, <2>2, ClearOlderOf
<1>9. ASSUME NEW S, NEW st \in {"applied", "failed"}, rows' = Marked(S, st), S \cap Pending = {}
      PROVE  Pending' = Pending
  <2>1. DOMAIN rows' = DOMAIN rows
    BY <1>9 DEF Marked
  <2>2. ASSUME NEW s \in DOMAIN rows PROVE s \in Pending' <=> s \in Pending
    <3>1. rows[s] \in Row
      BY <1>1 DEF LogType
    <3>2. rows'[s] = IF s \in S THEN [rows[s] EXCEPT !.status = st] ELSE rows[s]
      BY <1>9 DEF Marked
    <3>3. s \in S => rows'[s].status = st
      BY <3>1, <3>2 DEF Row
    <3>4. st # "pending"
      OBVIOUS
    <3> QED
      BY <1>9, <2>1, <3>2, <3>3, <3>4 DEF Pending
  <2>3. \A s \in Pending' : s \in DOMAIN rows'
    BY DEF Pending
  <2>4. \A s \in Pending : s \in DOMAIN rows
    BY DEF Pending
  <2> QED
    BY <2>1, <2>2, <2>3, <2>4
<1>10. ASSUME MarkApplied PROVE Pending' = Pending
  <2>1. stage = "mark" /\ rows' = Marked(Finished, "applied")
    BY <1>10 DEF MarkApplied, Go
  <2>2. Finished \cap Pending = {}
    <3>1. \A i \in 1..Len(work) : work[i] \in Unfinished
      BY <1>1, <2>1 DEF WorkInv
    <3>2. \A i \in 1..done : i \in 1..Len(work)
      BY <1>1 DEF WorkType
    <3> QED
      BY <3>1, <3>2 DEF Finished, Unfinished, Pending
  <2> QED
    BY <1>9, <2>1, <2>2
<1>11. ASSUME MarkFailed PROVE Pending' = Pending
  <2> DEFINE S == {work[done + 1]}
  <2>1. stage = "quarantine" /\ (rows' = rows \/ rows' = Marked(S, "failed"))
    BY <1>11 DEF MarkFailed, Go
  <2>2. Pending = {}
    BY <2>1 DEF PendInv
  <2> HIDE DEF S
  <2> QED
    BY <1>2, <1>9, <2>1, <2>2
<1>12. ASSUME Upload PROVE Pending' = Pending
  BY <1>1, <1>12, UploadKeeps DEF KeepsRows, Pending
<1>13. ASSUME NEW o, Writes(o) PROVE Pending' = Pending
  BY <1>13 DEF Writes
<1> SUFFICES Pending' = Pending \/ Settle \/ CommitReducers \/ (StoreBatch /\ Applicable # <<>>)
  BY <1>4, <1>5
<1>14. CASE Start
  <2>1. Load \/ Replay \/ EndStart => rows' = rows
    BY DEF Load, Replay, EndStart
  <2> QED
    BY <1>2, <1>4, <1>14, <2>1 DEF Start
<1>15. CASE User
  <2>1. Dispatch \/ LoseCaptured => rows' = rows
    BY DEF Dispatch, LoseCaptured, disk
  <2>2. WriteCaptured => Pending' = Pending
    BY <1>1, WaitingOf, WritesOf, <1>13 DEF WriteCaptured
  <2>3. \A o \in TabOps : WriteElsewhere(o) => Pending' = Pending
    BY <1>1, WritesOf, <1>13 DEF WriteElsewhere, Local
  <2> QED
    BY <1>2, <1>15, <2>1, <2>2, <2>3 DEF User
<1>16. CASE Buffer
  <2>1. FailDeferred => rows' = rows
    BY DEF FailDeferred, disk
  <2>2. WriteDeferred => Pending' = Pending
    BY <1>1, WaitingOf, WritesOf, <1>13 DEF WriteDeferred
  <2> QED
    BY <1>2, <1>16, <2>1, <2>2 DEF Buffer
<1>17. Publish \/ Crash => rows' = rows
  BY DEF Publish, Crash, disk
<1>18. CASE Fetch
  <2>1. Sync \/ Gate \/ FirstPage \/ LastPage \/ Refuse \/ (StoreBatch /\ Applicable = <<>>) => rows' = rows
    BY DEF Sync, Gate, FirstPage, LastPage, Refuse, StoreBatch, disk
  <2> QED
    BY <1>2, <1>18, <2>1 DEF Fetch
<1>19. CASE Stage
  <2>1. MergeClocks \/ RunReducers \/ Throw => rows' = rows
    BY DEF MergeClocks, RunReducers, Throw, disk
  <2> QED
    BY <1>2, <1>5, <1>19, <2>1 DEF Stage
<1>20. CASE Effects
  <2>1. RunEffect \/ FailEffect \/ EndEffects => rows' = rows
    BY DEF RunEffect, FailEffect, EndEffects, disk
  <2> QED
    BY <1>2, <1>20, <2>1 DEF Effects
<1>21. CASE Finish
  <2>1. EndDrain \/ Advance => rows' = rows
    BY DEF EndDrain, Advance, disk
  <2> QED
    BY <1>2, <1>8, <1>10, <1>11, <1>12, <1>21, <2>1 DEF Finish
<1>22. CASE Compact
  <2>1. SaveSnapshot => rows' = rows
    BY DEF SaveSnapshot
  <2> QED
    BY <1>2, <1>7, <1>22, <2>1 DEF Compact
<1> QED
  BY <1>2, <1>4, <1>5, <1>14, <1>15, <1>16, <1>17, <1>18, <1>19, <1>20, <1>21, <1>22 DEF Next

-----------------------------------------------------------------------------
(* The parts of the invariant about single rows, operations and queues *)

\* What StoreBatch does when there is something to store.
LEMMA BatchFacts ==
  ASSUME Inv, StoreBatch, Applicable # <<>>
  PROVE  /\ Appends(Applicable) /\ Fresh(Applicable) /\ Applicable \in Seq(Op) /\ Len(Applicable) \in Nat \ {0}
         /\ Pending = {} /\ Unfinished = {} /\ Pending' = nextSeq..(nextSeq + Len(Applicable) - 1)
         /\ stage = "flushed" /\ stage' = "stored" /\ mode = "download" /\ mode' = "download"
         /\ Unfinished' = {}
         /\ Len(work') = Len(Applicable) /\ \A i \in 1..Len(Applicable) : work'[i] = nextSeq + i - 1
         /\ first \in Nat \ {0} /\ target \in 0..Len(Feed) /\ target <= served /\ served' = served
<1>1. /\ LogType /\ FeedType /\ LogInv /\ StageInv /\ GateInv
  BY DEF Inv
<1>2. stage = "flushed" /\ mode' = mode /\ archived' = archived /\ served' = served
  BY DEF StoreBatch, world
<1>3. mode = "download" /\ Pending = {} /\ Unfinished = {}
  BY <1>1, <1>2 DEF StageInv, GateInv, BootStages, ApplyStages
<1>4. first \in Nat \ {0} /\ target \in 0..Len(Feed) /\ target <= served
  BY <1>1, OpsAssumption DEF FeedType
<1> DEFINE s == Applicable
<1>5. Fresh(s)
  BY <1>4, ApplicableOf
<1>6. /\ stage' = "stored" /\ Stored(s, "pending", TRUE) /\ work' = [i \in DOMAIN s |-> nextSeq + i - 1]
      /\ s # <<>>
  BY DEF StoreBatch
<1> HIDE DEF s
<1>7. s \in Seq(Op) /\ Len(s) \in Nat \ {0} /\ \A i, j \in 1..Len(s) : s[i] = s[j] => i = j
  BY <1>5, <1>6 DEF Fresh, Op
<1>8. "pending" \in Statuses /\ TRUE \in BOOLEAN
  BY DEF Statuses
<1>9. Appends(s)
  BY <1>1, <1>6, <1>7, <1>8, AppendsOf
<1>10. Pending' = nextSeq..(nextSeq + Len(s) - 1) /\ Unfinished' = {}
  BY <1>1, <1>2, <1>3, <1>5, <1>6, BatchOf
<1>11. Len(work') = Len(s) /\ \A i \in 1..Len(s) : work'[i] = nextSeq + i - 1
  BY <1>6, <1>7
<1> QED
  BY <1>2, <1>3, <1>4, <1>5, <1>6, <1>7, <1>9, <1>10, <1>11 DEF s

\* An operation is not written where it has a row: OnceInv is inductive.
LEMMA OnceStep ==
  ASSUME Inv, BaseInv, Next
  PROVE  OnceInv'
<1>1. LogType /\ LogInv /\ UiType /\ KnowType /\ OwnInv /\ OnceInv
  BY DEF Inv, BaseInv
<1>2. nextSeq \in Nat /\ DOMAIN rows \subseteq 1..(nextSeq - 1) /\ \A s \in DOMAIN rows : rows[s].op \in DOMAIN logged
  BY <1>1 DEF LogType, LogInv
<1>3. CASE KeepsRows
  BY <1>1, <1>3 DEF KeepsRows, OnceInv
<1>4. ASSUME NEW S, Deletes(S) PROVE OnceInv'
  BY <1>1, <1>4 DEF Deletes, OnceInv
<1>5. ASSUME NEW o, o \notin DOMAIN logged, Writes(o) PROVE OnceInv'
  <2>1. ASSUME NEW s \in DOMAIN rows' PROVE logged'[rows'[s].op] = s
    <3>1. CASE s = nextSeq
      BY <1>5, <3>1 DEF Writes
    <3>2. CASE s \in DOMAIN rows
      <4>1. rows'[s] = rows[s] /\ rows[s].op \in DOMAIN logged /\ rows[s].op # o
        BY <1>2, <1>5, <3>2 DEF Writes
      <4> QED
        BY <1>1, <1>5, <3>2, <4>1 DEF Writes, OnceInv
    <3> QED
      BY <1>5, <3>1, <3>2 DEF Writes
  <2> QED
    BY <2>1 DEF OnceInv
<1>6. ASSUME StoreBatch, Applicable # <<>> PROVE OnceInv'
  <2> DEFINE a == Applicable
  <2>1. Appends(a) /\ Fresh(a) /\ Len(a) \in Nat
    BY <1>6, BatchFacts
  <2> HIDE DEF a
  <2>2. ASSUME NEW s \in DOMAIN rows' PROVE logged'[rows'[s].op] = s
    <3>1. CASE s \in DOMAIN rows
      <4>1. rows'[s] = rows[s] /\ rows[s].op \in DOMAIN logged /\ rows[s].op \in Ids
        BY <1>2, <2>1, <3>1 DEF Appends, Ids
      <4>2. \A i \in 1..Len(a) : a[i] # rows[s].op
        BY <2>1, <4>1 DEF Fresh
      <4> QED
        BY <1>1, <2>1, <3>1, <4>1, <4>2 DEF Appends, OnceInv
    <3>2. CASE s \in nextSeq..(nextSeq + Len(a) - 1)
      <4> DEFINE i == s - nextSeq + 1
      <4>1. i \in 1..Len(a) /\ nextSeq + i - 1 = s
        BY <1>2, <2>1, <3>2
      <4> HIDE DEF i
      <4>2. rows'[nextSeq + i - 1].op = a[i] /\ logged'[a[i]] = nextSeq + i - 1
        BY <2>1, <4>1 DEF Appends
      <4> QED
        BY <4>1, <4>2
    <3> QED
      BY <2>1, <3>1, <3>2 DEF Appends
  <2> QED
    BY <2>2 DEF OnceInv
<1>7. DeleteOld => OnceInv'
  BY <1>1, <1>4, DeleteOldOf
<1> QED
  BY <1>1, <1>3, <1>4, <1>5, <1>6, <1>7, LogStep

\* What is written stays written, and what is written anew is local or news.
LEMMA LoggedGrows ==
  ASSUME Inv, OwnInv, Next
  PROVE  /\ DOMAIN logged \subseteq DOMAIN logged'
         /\ \A o \in DOMAIN logged' \ DOMAIN logged :
              \/ o \in Local /\ Writes(o) /\ (o \in TabOps => WriteElsewhere(o))
              \/ StoreBatch /\ o \in Remote /\ \E k \in 1..Len(Applicable) : Applicable[k] = o
<1>1. LogType /\ LogInv /\ UiType /\ KnowType
  BY DEF Inv
<1>2. CASE KeepsRows
  BY <1>2 DEF KeepsRows
<1>3. ASSUME NEW S, Deletes(S) PROVE logged' = logged
  BY <1>3 DEF Deletes
<1>4. DeleteOld => logged' = logged
  BY <1>1, <1>3, DeleteOldOf
<1>5. ASSUME NEW o \in OwnOps \ DOMAIN logged, Writes(o)
      PROVE  DOMAIN logged' = DOMAIN logged \cup {o} /\ o \in Local /\ o \notin TabOps
  BY <1>5, OpsAssumption DEF Writes, Local
<1>6. ASSUME NEW o \in TabOps \ DOMAIN logged, Writes(o)
      PROVE  DOMAIN logged' = DOMAIN logged \cup {o} /\ o \in Local
  BY <1>6 DEF Writes, Local
<1>7. ASSUME StoreBatch, Applicable # <<>>
      PROVE  /\ DOMAIN logged' = DOMAIN logged \cup {Applicable[k] : k \in 1..Len(Applicable)}
             /\ \A k \in 1..Len(Applicable) : Applicable[k] \in Remote
  <2> DEFINE a == Applicable
  <2>1. Appends(a) /\ Fresh(a)
    BY <1>7, BatchFacts
  <2> HIDE DEF a
  <2>2. /\ DOMAIN logged' = DOMAIN logged \cup {a[k] : k \in 1..Len(a)}
        /\ \A k \in 1..Len(a) : a[k] \in Remote
    BY <2>1 DEF Appends, Fresh
  <2> QED
    BY <2>2 DEF a
<1>8. CASE \E o \in OwnOps \ DOMAIN logged : Writes(o) /\ (WriteCaptured \/ WriteDeferred)
  BY <1>5, <1>8
<1>9. CASE \E o \in TabOps \ DOMAIN logged : Writes(o) /\ WriteElsewhere(o)
  BY <1>6, <1>9
<1>10. CASE StoreBatch /\ Applicable # <<>>
  BY <1>7, <1>10
<1>11. CASE logged' = logged
  BY <1>11
<1>12. \/ logged' = logged
       \/ \E o \in OwnOps \ DOMAIN logged : Writes(o) /\ (WriteCaptured \/ WriteDeferred)
       \/ \E o \in TabOps \ DOMAIN logged : Writes(o) /\ WriteElsewhere(o)
       \/ StoreBatch /\ Applicable # <<>>
  BY <1>1, <1>2, <1>3, <1>4, LogStep DEF KeepsRows
<1> QED
  BY <1>8, <1>9, <1>10, <1>11, <1>12, Zenon

\* The server keeps what it has.
LEMMA ServedGrows == ASSUME Inv, Next PROVE served <= served' /\ served \in Nat
<1>0. served \in Nat
  BY OpsAssumption DEF Inv, FeedType
<1>1. Start => served' = served
  BY DEF Start, Load, Replay, Settle, EndStart, world
<1>2. User => served' = served
  BY DEF User, Dispatch, WriteCaptured, LoseCaptured, WriteElsewhere, world
<1>3. Buffer => served' = served
  BY DEF Buffer, WriteDeferred, FailDeferred, world
<1>4. CASE Publish
  BY <1>0, <1>4 DEF Publish
<1>5. Fetch => served' = served
  BY DEF Fetch, Sync, Gate, FirstPage, LastPage, Refuse, StoreBatch, world
<1>6. Stage => served' = served
  BY DEF Stage, MergeClocks, RunReducers, CommitReducers, Throw, world
<1>7. Effects => served' = served
  BY DEF Effects, RunEffect, FailEffect, EndEffects, world
<1>8. Finish => served' = served
  BY DEF Finish, MarkApplied, ClearOlder, MarkFailed, EndDrain, Advance, Upload, world
<1>9. Compact => served' = served
  BY DEF Compact, SaveSnapshot, DeleteOld, world
<1>10. Crash => served' = served
  BY DEF Crash
<1> QED
  BY <1>0, <1>1, <1>2, <1>3, <1>4, <1>5, <1>6, <1>7, <1>8, <1>9, <1>10 DEF Next

\* A batch comes from the part of the feed that was asked for.
LEMMA BatchSource ==
  ASSUME Inv, NEW k \in 1..Len(Applicable)
  PROVE  \E i \in first..target : i \in DOMAIN Feed /\ Feed[i] = Applicable[k]
<1>1. first \in Nat \ {0} /\ target \in 0..Len(Feed) /\ DOMAIN Feed = 1..Len(Feed) /\ Len(Feed) \in Nat
  BY OpsAssumption DEF Inv, FeedType
<1>2. PICK j \in 1..Len(News(target)) : News(target)[j] = Applicable[k]
  BY <1>1, ApplicableOf
<1>3. PICK i \in first..target : News(target)[j] = Feed[i]
  BY <1>1, NewsOf
<1> QED
  BY <1>1, <1>2, <1>3

\* A download writes what is served.
LEMMA FeedStep == ASSUME Inv, BaseInv, Next PROVE FeedInv'
<1>1. OwnInv /\ FeedInv
  BY DEF BaseInv
<1>2. served <= served' /\ served \in Nat /\ served' \in Nat
  <2>1. Inv'
    BY NextInv DEF vars
  <2>2. served' \in Nat
    BY <2>1, OpsAssumption DEF Inv, FeedType
  <2> QED
    BY <2>2, ServedGrows
<1>3. ASSUME NEW i \in DOMAIN Feed, Feed[i] \in DOMAIN logged' \ DOMAIN logged PROVE i <= served'
  <2>1. Feed[i] \notin Local
    BY OpsAssumption DEF Remote
  <2>2. StoreBatch /\ \E k \in 1..Len(Applicable) : Applicable[k] = Feed[i]
    BY <1>1, <1>3, <2>1, LoggedGrows
  <2>3. PICK k \in 1..Len(Applicable) : Applicable[k] = Feed[i]
    BY <2>2
  <2>4. PICK j \in first..target : j \in DOMAIN Feed /\ Feed[j] = Applicable[k]
    BY BatchSource
  <2>5. j = i
    BY <2>3, <2>4, OpsAssumption
  <2>6. target <= served /\ target \in Nat /\ first \in Nat
    BY OpsAssumption DEF Inv, FeedType
  <2> QED
    BY <1>2, <2>4, <2>5, <2>6
<1>4. ASSUME NEW i \in DOMAIN Feed, Feed[i] \in DOMAIN logged PROVE i <= served'
  <2>1. i <= served /\ i \in Nat
    BY <1>1, <1>4, OpsAssumption DEF FeedInv
  <2> QED
    BY <1>2, <2>1
<1> QED
  BY <1>3, <1>4 DEF FeedInv

\* No other tab writes, where there is none.
LEMMA TabStep == ASSUME Inv, BaseInv, Next PROVE TabInv'
<1>1. OwnInv /\ TabInv
  BY DEF BaseInv
<1>2. ASSUME NEW o \in TabOps, o \in DOMAIN logged', o \notin DOMAIN logged PROVE "tab" \in Events
  <2>1. o \notin Remote
    BY OpsAssumption DEF Local
  <2>2. WriteElsewhere(o)
    BY <1>1, <1>2, <2>1, LoggedGrows
  <2> QED
    BY <2>2 DEF WriteElsewhere
<1> QED
  BY <1>1, <1>2 DEF TabInv

\* The end of a sequence, as a sequence.
LEMMA LastOf ==
  ASSUME NEW S, NEW t \in Seq(S), t # <<>>
  PROVE  /\ SubSeq(t, Len(t), Len(t)) \in Seq(S) /\ Len(SubSeq(t, Len(t), Len(t))) = 1
         /\ SubSeq(t, Len(t), Len(t))[1] = t[Len(t)] /\ Len(t) \in Nat \ {0}
<1> DEFINE n == Len(t)
           l == SubSeq(t, n, n)
<1>1. n \in Nat \ {0}
  OBVIOUS
<1>2. \A i \in 1..n : t[i] \in S
  OBVIOUS
<1>3. n \in 1..n /\ t[n] \in S
  BY <1>1, <1>2
<1>4. l = [i \in 1..1 |-> t[n]]
  <2>1. l = [i \in 1..(n - n + 1) |-> t[n + i - 1]]
    OBVIOUS
  <2>2. n - n + 1 = 1 /\ \A i \in 1..1 : n + i - 1 = n
    BY <1>1
  <2> QED
    BY <2>1, <2>2
<1>5. l \in Seq(S)
  BY <1>3, <1>4
<1>6. Len(l) = 1 /\ l[1] = t[n]
  BY <1>4
<1> QED
  BY <1>1, <1>5, <1>6

\* The work is a sequence of sequence numbers.
LEMMA WorkSeq ==
  ASSUME LogType, WorkType
  PROVE  /\ work \in Seq(Nat) /\ DOMAIN work = 1..Len(work) /\ Len(work) \in Nat
         /\ \A i \in 1..Len(work) : work[i] \in 1..(nextSeq - 1)
<1> DEFINE S == 1..(nextSeq - 1)
<1>1. work \in Seq(S) /\ S \subseteq Nat
  BY DEF WorkType, LogType
<1> HIDE DEF S
<1>2. work \in Seq(Nat)
  BY <1>1, SeqGrows, Zenon
<1>3. DOMAIN work = 1..Len(work) /\ Len(work) \in Nat /\ \A i \in 1..Len(work) : work[i] \in S
  BY <1>1
<1> QED
  BY <1>2, <1>3 DEF S

\* A clock learns only from the log and the snapshot.
ClockGrows == \A o \in clock' : o \in clock \cup cache.clock \cup Ids \/ (Writes(o) /\ o \in Local)

\* A clock learns only what has a row or is written now.
LEMMA ClockStep == ASSUME Inv, OwnInv, Next PROVE ClockGrows
<1>1. /\ LogType /\ KnowType /\ UiType /\ WorkType /\ LogInv /\ WorkInv /\ GateInv /\ StageInv
      /\ clock \subseteq Op
  BY DEF Inv, KnowType
<1>2. clock' = clock => ClockGrows
  BY DEF ClockGrows
<1>3. ASSUME NEW o \in Local, WriteLocal(o) PROVE ClockGrows
  <2>1. Writes(o)
    BY <1>1, <1>3, WritesOf
  <2> QED
    BY <2>1, <1>3 DEF Writes, ClockGrows
<1>4. ASSUME NEW s \in Seq(Ids), clock' = Merge(clock, s) PROVE ClockGrows
  BY <1>1, <1>4, MergeOfLog DEF ClockGrows
<1>5. ASSUME NEW w \in Seq(Nat), \A i \in 1..Len(w) : w[i] \in DOMAIN rows, clock' = Merge(clock, OpsAt(w))
      PROVE  ClockGrows
  <2>1. OpsAt(w) \in Seq(Ids)
    BY <1>1, <1>5, OpsAtOf
  <2> QED
    BY <1>4, <1>5, <2>1
<1>6. ASSUME NEW S \in SUBSET Pending, Checkpoint(S), nextSeq' = nextSeq, logged' = logged, archived' = archived
      PROVE  ClockGrows
  <2>1. \A o \in clock' : o \in clock \/ o \in Ids
    BY <1>1, <1>6, CheckpointOf
  <2> QED
    BY <2>1 DEF ClockGrows
<1>7. work \in Seq(Nat) /\ DOMAIN work = 1..Len(work)
  BY <1>1, WorkSeq
<1>8. ASSUME Replay PROVE ClockGrows
  <2> DEFINE w == Replayable
             t == OpsAt(w)
             l == SubSeq(t, Len(t), Len(t))
  <2>1. w \in Seq(Nat) /\ \A i \in 1..Len(w) : w[i] \in DOMAIN rows
    BY <1>1, ReplayableOf
  <2> HIDE DEF w
  <2>2. t \in Seq(Ids)
    BY <1>1, <2>1, OpsAtOf
  <2>3. clock' = Merge(clock, t) \/ (t # <<>> /\ clock' = Merge(clock, l))
    BY <1>8 DEF Replay, w
  <2> HIDE DEF t
  <2>4. t # <<>> => l \in Seq(Ids)
    BY <2>2, LastOf
  <2> HIDE DEF l
  <2> QED
    BY <1>4, <2>2, <2>3, <2>4
<1>9. ASSUME MergeClocks PROVE ClockGrows
  <2>1. stage = "stored" /\ clock' = Merge(clock, OpsAt(work))
    BY <1>9 DEF MergeClocks, Go
  <2>2. \A i \in 1..Len(work) : work[i] \in DOMAIN rows
    BY <1>1, <2>1 DEF WorkInv, Pending
  <2> QED
    BY <1>5, <1>7, <2>1, <2>2
<1>10. ASSUME EndEffects PROVE ClockGrows
  <2> DEFINE w == SubSeq(work, 1, done)
  <2>1. stage = "effects" /\ (clock' = clock \/ clock' = Merge(clock, OpsAt(w)))
    BY <1>10 DEF EndEffects, Go
  <2>2. \A i \in 1..Len(work) : work[i] \in DOMAIN rows
    BY <1>1, <2>1 DEF WorkInv, Unfinished
  <2>3. done \in 0..Len(work) /\ Len(work) \in Nat
    BY <1>1 DEF WorkType
  <2>4. w \in Seq(Nat) /\ \A i \in 1..Len(w) : w[i] \in DOMAIN rows
    BY <1>7, <2>2, <2>3
  <2> HIDE DEF w
  <2> QED
    BY <1>2, <1>5, <2>1, <2>4
<1>11. ASSUME CommitReducers PROVE ClockGrows
  <2> DEFINE S == {work[i] : i \in DOMAIN work}
  <2>1. Checkpoint(S) /\ nextSeq' = nextSeq /\ logged' = logged /\ archived' = archived /\ stage = "reduced"
    BY <1>11 DEF CommitReducers, Go
  <2>2. S \in SUBSET Pending
    BY <1>1, <1>7, <2>1 DEF WorkInv
  <2> HIDE DEF S
  <2> QED
    BY <1>6, <2>1, <2>2
<1>12. ASSUME Settle PROVE ClockGrows
  <2>1. Checkpoint(Pending) /\ nextSeq' = nextSeq /\ logged' = logged /\ archived' = archived
    BY <1>12 DEF Settle
  <2> QED
    BY <1>6, <2>1
<1>13. ASSUME Load PROVE ClockGrows
  <2>1. clock' = clock \/ clock' = cache.clock
    BY <1>13 DEF Load
  <2> QED
    BY <2>1 DEF ClockGrows
<1>14. WriteCaptured => ClockGrows
  BY <1>1, <1>3, WaitingOf DEF WriteCaptured
<1>15. WriteDeferred => ClockGrows
  BY <1>1, <1>3, WaitingOf DEF WriteDeferred
<1>16. \A o \in TabOps : WriteElsewhere(o) => ClockGrows
  BY <1>3 DEF WriteElsewhere, Local
<1>17. CASE Start
  <2>1. EndStart => clock' = clock
    BY DEF EndStart
  <2> QED
    BY <1>2, <1>8, <1>12, <1>13, <1>17, <2>1 DEF Start
<1>18. CASE User
  <2>1. Dispatch \/ LoseCaptured => clock' = clock
    BY DEF Dispatch, LoseCaptured, disk
  <2> QED
    BY <1>2, <1>14, <1>16, <1>18, <2>1 DEF User
<1>19. CASE Buffer
  <2>1. FailDeferred => clock' = clock
    BY DEF FailDeferred, disk
  <2> QED
    BY <1>2, <1>15, <1>19, <2>1 DEF Buffer
<1>20. Publish \/ Crash => clock' = clock
  BY DEF Publish, Crash, disk
<1>21. Fetch => clock' = clock
  BY DEF Fetch, Sync, Gate, FirstPage, LastPage, Refuse, StoreBatch, disk
<1>22. CASE Stage
  <2>1. RunReducers \/ Throw => clock' = clock
    BY DEF RunReducers, Throw, disk
  <2> QED
    BY <1>2, <1>9, <1>11, <1>22, <2>1 DEF Stage
<1>23. CASE Effects
  <2>1. RunEffect \/ FailEffect => clock' = clock
    BY DEF RunEffect, FailEffect, disk
  <2> QED
    BY <1>2, <1>10, <1>23, <2>1 DEF Effects
<1>24. Finish \/ Compact => clock' = clock
  BY DEF Finish, MarkApplied, ClearOlder, MarkFailed, EndDrain, Advance, Upload, Compact,
         SaveSnapshot, DeleteOld, disk
<1> QED
  BY <1>2, <1>17, <1>18, <1>19, <1>20, <1>21, <1>22, <1>23, <1>24 DEF Next

\* Archive work is done only for what has a row.
LEMMA ArchivedStep ==
  ASSUME Inv, Next
  PROVE  \A o \in archived' : o \in archived \/ o \in Ids
<1>1. WorkType /\ WorkInv
  BY DEF Inv
<1>2. CASE Start
  BY <1>2 DEF Start, Load, Replay, Settle, EndStart
<1>3. CASE User
  BY <1>3 DEF User, Dispatch, WriteCaptured, LoseCaptured, WriteElsewhere, WriteLocal, disk
<1>4. CASE Buffer
  BY <1>4 DEF Buffer, WriteDeferred, FailDeferred, WriteLocal, disk
<1>5. CASE Publish \/ Crash
  BY <1>5 DEF Publish, Crash, disk
<1>6. CASE Fetch
  BY <1>6 DEF Fetch, Sync, Gate, FirstPage, LastPage, Refuse, StoreBatch, disk
<1>7. CASE Stage
  BY <1>7 DEF Stage, MergeClocks, RunReducers, CommitReducers, Throw, disk
<1>8. CASE Effects
  <2>1. FailEffect \/ EndEffects => archived' = archived
    BY DEF FailEffect, EndEffects, disk
  <2>2. ASSUME RunEffect PROVE \A o \in archived' : o \in archived \/ o \in Ids
    <3>1. stage = "effects" /\ done < Len(work) /\ archived' = archived \cup {rows[work[done + 1]].op}
      BY <2>2 DEF RunEffect
    <3>2. done + 1 \in 1..Len(work)
      BY <1>1, <3>1 DEF WorkType
    <3>3. work[done + 1] \in DOMAIN rows
      BY <1>1, <3>1, <3>2 DEF WorkInv, Unfinished
    <3> QED
      BY <3>1, <3>3 DEF Ids
  <2> QED
    BY <1>8, <2>1, <2>2 DEF Effects
<1>9. CASE Finish
  BY <1>9 DEF Finish, MarkApplied, ClearOlder, MarkFailed, EndDrain, Advance, Upload, disk
<1>10. CASE Compact
  BY <1>10 DEF Compact, SaveSnapshot, DeleteOld
<1> QED
  BY <1>2, <1>3, <1>4, <1>5, <1>6, <1>7, <1>8, <1>9, <1>10 DEF Next

\* So nothing is known or done that was never written.
LEMMA LearnStep == ASSUME Inv, BaseInv, Next PROVE LearnInv'
<1>1. LogInv /\ LearnInv /\ OwnInv /\ PendInv
  BY DEF Inv, BaseInv
<1>2. Ids \subseteq DOMAIN logged
  BY <1>1 DEF LogInv, Ids
<1>3. DOMAIN logged \subseteq DOMAIN logged'
  BY <1>1, LoggedGrows
<1>4. clock' \subseteq DOMAIN logged'
  <2>1. \A o : Writes(o) => o \in DOMAIN logged'
    BY DEF Writes
  <2> QED
    BY <1>1, <1>2, <1>3, <2>1, ClockStep DEF LearnInv, ClockGrows
<1>5. archived' \subseteq DOMAIN logged'
  BY <1>1, <1>2, <1>3, ArchivedStep DEF LearnInv
<1>6. cache'.clock \subseteq DOMAIN logged'
  <2>1. CASE cache' = cache
    BY <1>1, <1>3, <2>1 DEF LearnInv
  <2>2. CASE Snap
    BY <1>1, <1>3, <2>2 DEF LearnInv, Snap
  <2> QED
    BY <1>1, <2>1, <2>2, CacheStep
<1> QED
  BY <1>4, <1>5, <1>6 DEF LearnInv

\* Queues without repetitions: the first one leaves.
LEMMA TailOf ==
  ASSUME NEW S, NEW s \in Seq(S), s # <<>>, Distinct(s)
  PROVE  Among(Tail(s)) = Among(s) \ {Head(s)} /\ Distinct(Tail(s)) /\ Head(s) \in Among(s)
<1>1. DOMAIN s = 1..Len(s) /\ Len(s) \in Nat \ {0} /\ Head(s) = s[1]
  OBVIOUS
<1>2. /\ DOMAIN Tail(s) = 1..(Len(s) - 1)
      /\ \A i \in 1..(Len(s) - 1) : Tail(s)[i] = s[i + 1]
  OBVIOUS
<1>3. \A i \in 1..(Len(s) - 1) : i + 1 \in 1..Len(s) /\ i + 1 # 1
  BY <1>1
<1>4. \A i \in 1..Len(s) : i # 1 => i - 1 \in 1..(Len(s) - 1) /\ (i - 1) + 1 = i
  BY <1>1
<1>5. Among(Tail(s)) = Among(s) \ {Head(s)}
  <2>1. ASSUME NEW i \in 1..(Len(s) - 1) PROVE Tail(s)[i] \in Among(s) \ {Head(s)}
    <3>1. i + 1 \in 1..Len(s) /\ 1 \in 1..Len(s) /\ i + 1 # 1 /\ Tail(s)[i] = s[i + 1]
      BY <1>1, <1>2, <1>3
    <3> DEFINE j == i + 1
    <3> HIDE DEF j
    <3>2. s[j] # s[1] /\ s[j] \in Among(s)
      BY <1>1, <3>1 DEF Among, Distinct, j
    <3> QED
      BY <1>1, <3>1, <3>2 DEF j
  <2>2. ASSUME NEW i \in 1..Len(s), s[i] # Head(s) PROVE s[i] \in Among(Tail(s))
    BY <1>1, <1>2, <1>4, <2>2 DEF Among
  <2> QED
    BY <1>1, <1>2, <2>1, <2>2 DEF Among
<1>6. Distinct(Tail(s))
  <2> SUFFICES ASSUME NEW i \in 1..(Len(s) - 1), NEW j \in 1..(Len(s) - 1), Tail(s)[i] = Tail(s)[j]
               PROVE  i = j
    BY <1>2 DEF Distinct
  <2>1. i + 1 = j + 1
    BY <1>1, <1>2, <1>3 DEF Distinct
  <2> QED
    BY <1>1, <2>1
<1>7. Head(s) \in Among(s)
  <2>1. 1 \in DOMAIN s /\ Head(s) = s[1]
    BY <1>1
  <2> QED
    BY <2>1 DEF Among
<1> QED
  BY <1>5, <1>6, <1>7

\* Another one joins.
LEMMA AppendOf ==
  ASSUME NEW S, NEW s \in Seq(S), NEW e \in S, e \notin Among(s), Distinct(s)
  PROVE  Among(Append(s, e)) = Among(s) \cup {e} /\ Distinct(Append(s, e))
<1> DEFINE t == Append(s, e)
           n == Len(s)
<1>1. /\ DOMAIN s = 1..n /\ n \in Nat /\ DOMAIN t = 1..(n + 1)
      /\ \A i \in 1..n : t[i] = s[i]
      /\ t[n + 1] = e
  OBVIOUS
<1>2. \A i \in 1..(n + 1) : i \in 1..n \/ i = n + 1
  BY <1>1
<1>3. \A i \in 1..n : i \in 1..(n + 1) /\ i # n + 1
  BY <1>1
<1>4. n + 1 \in 1..(n + 1)
  BY <1>1
<1> HIDE DEF t
<1>5. Among(t) = Among(s) \cup {e}
  BY <1>1, <1>2, <1>3, <1>4 DEF Among
<1>6. Distinct(t)
  BY <1>1, <1>2, <1>3 DEF Among, Distinct
<1> QED
  BY <1>5, <1>6 DEF t

\* Nobody waits in an empty queue.
LEMMA EmptyOf == Among(<<>>) = {} /\ Distinct(<<>>)
BY DEF Among, Distinct

\* Only a crash takes the tab back to its start.
LEMMA ModeStep == ASSUME Inv, Next PROVE mode' = mode \/ mode' \in {"gate", "download"} \/ Crash
<1>1. StageInv
  BY DEF Inv
<1>2. CASE Start
  BY <1>1, <1>2 DEF Start, Load, Replay, Settle, EndStart, Begin, apply, StageInv, BootStages
<1>3. CASE User
  BY <1>3 DEF User, Dispatch, WriteCaptured, LoseCaptured, WriteElsewhere, apply
<1>4. CASE Buffer
  BY <1>4 DEF Buffer, WriteDeferred, FailDeferred, apply
<1>5. CASE Publish
  BY <1>5 DEF Publish, apply
<1>6. CASE Fetch
  BY <1>6 DEF Fetch, Sync, Gate, FirstPage, LastPage, Refuse, StoreBatch, Begin, apply
<1>7. CASE Stage
  BY <1>7 DEF Stage, MergeClocks, RunReducers, CommitReducers, Throw, apply
<1>8. CASE Effects
  BY <1>8 DEF Effects, RunEffect, FailEffect, EndEffects, apply
<1>9. CASE Finish
  BY <1>9 DEF Finish, MarkApplied, ClearOlder, MarkFailed, EndDrain, Advance, Upload, apply
<1>10. CASE Compact
  BY <1>10 DEF Compact, SaveSnapshot, DeleteOld, apply
<1> QED
  BY <1>2, <1>3, <1>4, <1>5, <1>6, <1>7, <1>8, <1>9, <1>10 DEF Next

\* An action moves from one queue to the log and to no other place.
LEMMA OwnStep == ASSUME Inv, BaseInv, Next PROVE OwnInv'
<1>1. /\ LogType /\ LogInv /\ UiType /\ OwnInv
  BY DEF Inv, BaseInv
<1>2. /\ captured \in Seq(OwnOps) /\ deferred \in Seq(OwnOps) /\ nextOwn \in Nat
      /\ OwnOps \subseteq Nat /\ OwnOps \cap TabOps = {} /\ OwnOps \cap Remote = {}
  BY <1>1, OpsAssumption DEF UiType, Op, Local
<1>3. /\ \A o \in OwnOps \cap (DOMAIN logged \cup Among(captured) \cup Among(deferred)) : o <= nextOwn
      /\ (Among(captured) \cup Among(deferred)) \cap DOMAIN logged = {}
      /\ Distinct(captured) /\ Distinct(deferred) /\ Among(captured) \cap Among(deferred) = {}
      /\ mode = "start" => Among(captured) \cup Among(deferred) = {} /\ ~lost
  BY <1>1 DEF OwnInv, Waiting
<1>4. Among(captured) \subseteq OwnOps /\ Among(deferred) \subseteq OwnOps
  BY <1>2 DEF Among
<1>5. \/ \A o \in DOMAIN logged' : o \in DOMAIN logged \/ o \notin OwnOps
      \/ WriteCaptured \/ WriteDeferred
  <2>1. CASE KeepsRows
    BY <2>1 DEF KeepsRows
  <2>2. ASSUME NEW S, Deletes(S) PROVE logged' = logged
    BY <2>2 DEF Deletes
  <2>3. DeleteOld => logged' = logged
    BY DEF DeleteOld
  <2>4. ASSUME NEW o \in TabOps, Writes(o) PROVE \A p \in DOMAIN logged' : p \in DOMAIN logged \/ p \notin OwnOps
    BY <1>2, <2>4 DEF Writes
  <2>5. ASSUME StoreBatch, Applicable # <<>>
        PROVE \A p \in DOMAIN logged' : p \in DOMAIN logged \/ p \notin OwnOps
    <3> DEFINE a == Applicable
    <3>1. Appends(a) /\ Fresh(a)
      BY <2>5, BatchFacts
    <3> HIDE DEF a
    <3> QED
      BY <1>2, <3>1 DEF Appends, Fresh
  <2> QED
    BY <1>1, <2>1, <2>2, <2>3, <2>4, <2>5, LogStep
<1>6. DOMAIN logged \subseteq DOMAIN logged'
  BY <1>1, LoggedGrows
<1>7. (mode' = "start" => mode = "start") \/ Crash
  BY ModeStep
\* The state as the invariant sees it: what waits in the one place, in the other.
<1>8. ASSUME NEW h \in OwnOps, Writes(h), UNCHANGED <<lost, nextOwn, mode>>, h \in Waiting,
             Among(captured') \cup Among(deferred') = Waiting \ {h},
             Distinct(captured'), Distinct(deferred'), Among(captured') \cap Among(deferred') = {}
      PROVE  OwnInv'
  <2>1. DOMAIN logged' = DOMAIN logged \cup {h}
    BY <1>8 DEF Writes
  <2> QED
    BY <1>3, <1>8, <2>1 DEF OwnInv, Waiting
<1>9. CASE WriteCaptured
  <2> DEFINE h == Head(captured)
  <2>1. captured # <<>> /\ captured' = Tail(captured) /\ UNCHANGED <<deferred, lost, nextOwn, mode>>
    BY <1>9 DEF WriteCaptured, world, apply
  <2>2. WriteLocal(h) /\ h \in OwnOps /\ h \in Local /\ h \in Waiting
    BY <1>1, <2>1, <1>9, WaitingOf DEF WriteCaptured
  <2>3. Writes(h)
    BY <1>1, <2>2, WritesOf
  <2>4. Among(captured') = Among(captured) \ {h} /\ Distinct(captured') /\ h \in Among(captured)
    BY <1>2, <1>3, <2>1, TailOf
  <2> HIDE DEF h
  <2>5. Among(captured') \cup Among(deferred') = Waiting \ {h} /\ Among(captured') \cap Among(deferred') = {}
    BY <1>3, <2>1, <2>4 DEF Waiting
  <2> QED
    BY <1>3, <1>8, <2>1, <2>2, <2>3, <2>4, <2>5
<1>10. CASE WriteDeferred
  <2> DEFINE h == Head(deferred)
  <2>1. deferred # <<>> /\ deferred' = Tail(deferred) /\ UNCHANGED <<captured, lost, nextOwn, mode>>
    BY <1>10 DEF WriteDeferred, world, apply
  <2>2. WriteLocal(h) /\ h \in OwnOps /\ h \in Local /\ h \in Waiting
    BY <1>1, <2>1, <1>10, WaitingOf DEF WriteDeferred
  <2>3. Writes(h)
    BY <1>1, <2>2, WritesOf
  <2>4. Among(deferred') = Among(deferred) \ {h} /\ Distinct(deferred') /\ h \in Among(deferred)
    BY <1>2, <1>3, <2>1, TailOf
  <2> HIDE DEF h
  <2>5. Among(captured') \cup Among(deferred') = Waiting \ {h} /\ Among(captured') \cap Among(deferred') = {}
    BY <1>3, <2>1, <2>4 DEF Waiting
  <2> QED
    BY <1>3, <1>8, <2>1, <2>2, <2>3, <2>4, <2>5
<1>11. CASE LoseCaptured
  <2>1. /\ captured # <<>> /\ captured' = Tail(captured) /\ UNCHANGED <<deferred, nextOwn, mode, logged>>
        /\ mode # "start"
    BY <1>11 DEF LoseCaptured, disk, apply, Running
  <2>2. Among(captured') \subseteq Among(captured) /\ Distinct(captured')
    BY <1>2, <1>3, <2>1, TailOf
  <2> QED
    BY <1>3, <2>1, <2>2 DEF OwnInv, Waiting
<1>12. CASE Dispatch
  <2> DEFINE o == nextOwn + 1
  <2>1. /\ o \in OwnOps /\ nextOwn' = o /\ UNCHANGED <<lost, mode, logged>> /\ mode # "start"
        /\ \/ deferred' = Append(deferred, o) /\ captured' = captured
           \/ captured' = Append(captured, o) /\ deferred' = deferred
    BY <1>12 DEF Dispatch, disk, apply, Running
  <2>2. o > nextOwn
    BY <1>2
  <2>3. ~(o <= nextOwn) /\ \A p \in OwnOps : p <= nextOwn => p <= o
    BY <1>2, <2>2
  <2> HIDE DEF o
  <2>4. o \notin DOMAIN logged \cup Among(captured) \cup Among(deferred) /\ o <= o
    BY <1>2, <1>3, <2>1, <2>3
  <2>5. /\ Among(captured') \cup Among(deferred') = Among(captured) \cup Among(deferred) \cup {o}
        /\ Among(captured') \cap Among(deferred') = {} /\ Distinct(captured') /\ Distinct(deferred')
    <3>1. CASE deferred' = Append(deferred, o) /\ captured' = captured
      <4>1. Among(deferred') = Among(deferred) \cup {o} /\ Distinct(deferred')
        BY <1>2, <1>3, <2>1, <2>4, <3>1, AppendOf
      <4> QED
        BY <1>3, <2>4, <3>1, <4>1
    <3>2. CASE captured' = Append(captured, o) /\ deferred' = deferred
      <4>1. Among(captured') = Among(captured) \cup {o} /\ Distinct(captured')
        BY <1>2, <1>3, <2>1, <2>4, <3>2, AppendOf
      <4> QED
        BY <1>3, <2>4, <3>2, <4>1
    <3> QED
      BY <2>1, <3>1, <3>2
  <2> QED
    BY <1>3, <2>1, <2>3, <2>4, <2>5 DEF OwnInv, Waiting
<1>13. CASE Crash
  <2>1. captured' = <<>> /\ deferred' = <<>> /\ lost' = FALSE /\ UNCHANGED <<nextOwn, logged>>
    BY <1>13 DEF Crash, disk
  <2> QED
    BY <1>3, <2>1, EmptyOf DEF OwnInv, Waiting
<1>14. CASE UNCHANGED <<captured, deferred, lost, nextOwn>> /\ ~WriteCaptured /\ ~WriteDeferred /\ ~Crash
  <2>1. \A o \in DOMAIN logged' : o \in DOMAIN logged \/ o \notin OwnOps
    BY <1>5, <1>14
  <2>2. mode' = "start" => mode = "start"
    BY <1>7, <1>14
  <2> QED
    BY <1>3, <1>4, <1>14, <2>1, <2>2 DEF OwnInv, Waiting
<1> QED
  BY <1>9, <1>10, <1>11, <1>12, <1>13, <1>14, UiStep

\* No apply goes past its checkpoint with rows pending.
LEMMA PendInvStep == ASSUME Inv, BaseInv, Next PROVE PendInv'
<1> DEFINE P == {"settled", "effects", "mark", "clear", "quarantine"}
<1>1. OwnInv /\ PendInv
  BY DEF BaseInv
<1>2. stage' \in P => stage \in P \/ Settle \/ CommitReducers \/ Pending = {}
  <2>1. CASE Start
    BY <2>1 DEF Start, Load, Replay, Settle, EndStart, Go
  <2>2. CASE User
    BY <2>2 DEF User, Dispatch, WriteCaptured, LoseCaptured, WriteElsewhere
  <2>3. CASE Buffer
    BY <2>3 DEF Buffer, WriteDeferred, FailDeferred
  <2>4. CASE Publish \/ Crash
    BY <2>4 DEF Publish, Crash
  <2>5. CASE Fetch
    BY <2>5 DEF Fetch, Sync, Gate, FirstPage, LastPage, Refuse, StoreBatch, Go
  <2>6. CASE Stage
    BY <2>6 DEF Stage, MergeClocks, RunReducers, Throw, Go
  <2>7. CASE Effects
    BY <2>7 DEF Effects, RunEffect, FailEffect, EndEffects, Go
  <2>8. CASE Finish
    BY <2>8 DEF Finish, MarkApplied, ClearOlder, MarkFailed, EndDrain, Advance, Upload, Go
  <2>9. CASE Compact
    BY <2>9 DEF Compact, SaveSnapshot, DeleteOld
  <2> QED
    BY <2>1, <2>2, <2>3, <2>4, <2>5, <2>6, <2>7, <2>8, <2>9 DEF Next
<1>3. StoreBatch /\ Applicable # <<>> => stage' = "stored"
  BY DEF StoreBatch
<1> QED
  BY <1>1, <1>2, <1>3, PendStep DEF PendInv

-----------------------------------------------------------------------------
(* Without faults *)

\* An empty log has nothing open.
LEMMA EmptyRows == DOMAIN rows = {} => Unfinished = {} /\ Pending = {}
BY DEF Unfinished, Pending

\* Unfinished archive work is new only behind a checkpoint, and with the failure of one.
LEMMA UnfinishedStep ==
  ASSUME Inv, OwnInv, Next
  PROVE  \/ Unfinished' \subseteq Unfinished \/ Settle \/ CommitReducers
         \/ MarkFailed /\ failed
<1>1. LogType /\ LogInv /\ UiType /\ KnowType /\ WorkType
  BY DEF Inv
<1>2. rows' = rows => Unfinished' \subseteq Unfinished
  BY DEF Unfinished
<1>3. ASSUME NEW S, Deletes(S) PROVE Unfinished' \subseteq Unfinished
  BY <1>3 DEF Deletes, Unfinished
<1>4. ASSUME NEW o, Writes(o) PROVE Unfinished' \subseteq Unfinished
  BY <1>4 DEF Writes
<1>5. StoreBatch /\ Applicable # <<>> => Unfinished' \subseteq Unfinished
  BY BatchFacts
<1>6. Upload => Unfinished' \subseteq Unfinished
  BY <1>1, UploadKeeps DEF KeepsRows, Unfinished
<1>7. ASSUME MarkApplied PROVE Unfinished' \subseteq Unfinished
  <2>1. /\ DOMAIN rows' = DOMAIN rows
        /\ \A s \in DOMAIN rows : rows'[s] = IF s \in Finished THEN [rows[s] EXCEPT !.status = "applied"] ELSE rows[s]
    BY <1>7 DEF MarkApplied, Marked
  <2>2. ASSUME NEW s \in DOMAIN rows, rows'[s].status \in {"archive_pending", "failed"}, ~rows'[s].rejected
        PROVE  s \in Unfinished
    <3>1. rows[s] \in Row
      BY <1>1 DEF LogType
    <3>2. s \in Finished => rows'[s].status = "applied"
      BY <2>1, <3>1 DEF Row
    <3>3. s \notin Finished
      BY <2>2, <3>2
    <3> QED
      BY <2>1, <2>2, <3>3 DEF Unfinished
  <2> QED
    BY <2>1, <2>2 DEF Unfinished
<1>8. MarkFailed /\ ~failed => Unfinished' \subseteq Unfinished
  BY <1>2 DEF MarkFailed
<1>9. CASE Start
  BY <1>2, <1>9 DEF Start, Load, Replay, EndStart
<1>10. CASE User
  <2>1. WriteCaptured => Unfinished' \subseteq Unfinished
    BY <1>1, <1>4, WaitingOf, WritesOf DEF WriteCaptured
  <2>2. \A o \in TabOps : WriteElsewhere(o) => Unfinished' \subseteq Unfinished
    BY <1>1, <1>4, WritesOf DEF WriteElsewhere, Local
  <2>3. Dispatch \/ LoseCaptured => rows' = rows
    BY DEF Dispatch, LoseCaptured, disk
  <2> QED
    BY <1>2, <1>10, <2>1, <2>2, <2>3 DEF User
<1>11. CASE Buffer
  <2>1. WriteDeferred => Unfinished' \subseteq Unfinished
    BY <1>1, <1>4, WaitingOf, WritesOf DEF WriteDeferred
  <2> QED
    BY <1>2, <1>11, <2>1 DEF Buffer, FailDeferred, disk
<1>12. CASE Publish \/ Crash
  BY <1>2, <1>12 DEF Publish, Crash, disk
<1>13. CASE Fetch
  <2>1. StoreBatch /\ Applicable = <<>> => rows' = rows
    BY DEF StoreBatch
  <2> QED
    BY <1>2, <1>5, <1>13, <2>1 DEF Fetch, Sync, Gate, FirstPage, LastPage, Refuse, disk
<1>14. CASE Stage
  BY <1>2, <1>14 DEF Stage, MergeClocks, RunReducers, Throw, disk
<1>15. CASE Effects
  BY <1>2, <1>15 DEF Effects, RunEffect, FailEffect, EndEffects, disk
<1>16. CASE Finish
  <2>1. ClearOlder => Unfinished' \subseteq Unfinished
    BY <1>1, <1>2, <1>3, ClearOlderOf
  <2> QED
    BY <1>2, <1>6, <1>7, <1>8, <1>16, <2>1 DEF Finish, EndDrain, Advance, disk
<1>17. CASE Compact
  <2>1. DeleteOld => Unfinished' \subseteq Unfinished
    BY <1>1, <1>3, DeleteOldOf
  <2> QED
    BY <1>2, <1>17, <2>1 DEF Compact, SaveSnapshot
<1> QED
  BY <1>9, <1>10, <1>11, <1>12, <1>13, <1>14, <1>15, <1>16, <1>17 DEF Next

\* While the tab starts, rows are only marked and deleted.
LEMMA StartRows ==
  ASSUME Inv, OwnInv, Next, mode = "start", DOMAIN rows = {}
  PROVE  DOMAIN rows' = {}
<1>1. LogType /\ LogInv /\ UiType /\ KnowType
  BY DEF Inv
<1>2. KeepsRows => DOMAIN rows' = {}
  BY DEF KeepsRows
<1>3. \A S : Deletes(S) => DOMAIN rows' = {}
  BY DEF Deletes
<1>4. DeleteOld => DOMAIN rows' = {}
  BY <1>1, <1>3, DeleteOldOf
<1>5. ~WriteCaptured /\ \A o \in TabOps : ~WriteElsewhere(o)
  BY DEF WriteCaptured, WriteElsewhere, Running
<1>6. ~WriteDeferred
  <2>1. deferred # <<>> => FALSE
    BY <1>1, WaitingOf DEF OwnInv
  <2> QED
    BY <2>1 DEF WriteDeferred
<1>7. ~(StoreBatch /\ Applicable # <<>>)
  BY BatchFacts
<1> QED
  BY <1>1, <1>2, <1>3, <1>4, <1>5, <1>6, <1>7, LogStep

\* Without a fault, an apply finishes what it begins.
LEMMA FaultStep == ASSUME Inv, BaseInv, Next PROVE FaultInv'
<1>1. /\ LogType /\ UiType /\ WorkType /\ StageInv /\ GateInv /\ OwnInv /\ PendInv /\ FaultInv
  BY DEF Inv, BaseInv
<1> SUFFICES ASSUME faults' = 0
             PROVE  /\ mode' # "gate" /\ ~failed'
                    /\ mode' = "start" => DOMAIN rows' = {}
                    /\ stage' = "mark" => done' = Len(work')
                    /\ stage' \notin ApplyStages \/ stage' \in {"clear", "quarantine", "drain"} => Unfinished' = {}
  BY DEF FaultInv
<1>2. faults \in Nat
  BY <1>1, BoundAssumption DEF UiType
<1>3. /\ faults = 0 /\ ~LoseCaptured /\ ~FailDeferred /\ ~Throw /\ ~FailEffect /\ ~Crash
  <2>1. LoseCaptured \/ FailDeferred \/ Throw \/ FailEffect \/ Crash => faults' = faults + 1
    BY DEF LoseCaptured, FailDeferred, Throw, FailEffect, Crash
  <2>2. faults' = faults \/ faults' = faults + 1
    <3>1. CASE Start
      BY <3>1 DEF Start, Load, Replay, Settle, EndStart, world
    <3>2. CASE User
      BY <3>2 DEF User, Dispatch, WriteCaptured, LoseCaptured, WriteElsewhere, world
    <3>3. CASE Buffer
      BY <3>3 DEF Buffer, WriteDeferred, FailDeferred, world
    <3>4. CASE Publish \/ Crash
      BY <3>4 DEF Publish, Crash
    <3>5. CASE Fetch
      BY <3>5 DEF Fetch, Sync, Gate, FirstPage, LastPage, Refuse, StoreBatch, world
    <3>6. CASE Stage
      BY <3>6 DEF Stage, MergeClocks, RunReducers, CommitReducers, Throw, world
    <3>7. CASE Effects
      BY <3>7 DEF Effects, RunEffect, FailEffect, EndEffects, world
    <3>8. CASE Finish
      BY <3>8 DEF Finish, MarkApplied, ClearOlder, MarkFailed, EndDrain, Advance, Upload, world
    <3>9. CASE Compact
      BY <3>9 DEF Compact, SaveSnapshot, DeleteOld, world
    <3> QED
      BY <3>1, <3>2, <3>3, <3>4, <3>5, <3>6, <3>7, <3>8, <3>9 DEF Next
  <2> QED
    BY <1>2, <2>1, <2>2
<1>4. /\ mode # "gate" /\ ~failed
      /\ mode = "start" => DOMAIN rows = {}
      /\ stage = "mark" => done = Len(work)
      /\ stage \notin ApplyStages \/ stage \in {"clear", "quarantine", "drain"} => Unfinished = {}
  BY <1>1, <1>3 DEF FaultInv
<1>5. Gate => Unfinished = {}
  BY <1>4 DEF Gate, ApplyStages
<1>6. mode' # "gate" /\ ~failed'
  <2>1. CASE Start
    BY <1>4, <2>1 DEF Start, Load, Replay, Settle, EndStart, Begin, apply
  <2>2. CASE User
    BY <1>3, <1>4, <2>2 DEF User, Dispatch, WriteCaptured, WriteElsewhere, apply
  <2>3. CASE Buffer
    BY <1>3, <1>4, <2>3 DEF Buffer, WriteDeferred, apply
  <2>4. CASE Publish
    BY <1>4, <2>4 DEF Publish, apply
  <2>5. CASE Fetch
    <3>1. Gate => mode' = mode /\ failed' = failed
      BY <1>5 DEF Gate, apply
    <3>2. StoreBatch => mode' = mode /\ failed' = FALSE
      BY DEF StoreBatch
    <3>3. Sync \/ FirstPage \/ LastPage \/ Refuse => mode' = mode /\ failed' = failed
      BY DEF Sync, FirstPage, LastPage, Refuse, apply
    <3> QED
      BY <1>4, <2>5, <3>1, <3>2, <3>3 DEF Fetch
  <2>6. CASE Stage
    BY <1>3, <1>4, <2>6 DEF Stage, MergeClocks, RunReducers, CommitReducers, apply
  <2>7. CASE Effects
    BY <1>3, <1>4, <2>7 DEF Effects, RunEffect, EndEffects, apply
  <2>8. CASE Finish
    BY <1>4, <2>8 DEF Finish, MarkApplied, ClearOlder, MarkFailed, EndDrain, Advance, Upload, apply
  <2>9. CASE Compact
    BY <1>4, <2>9 DEF Compact, SaveSnapshot, DeleteOld, apply
  <2> QED
    BY <1>3, <2>1, <2>2, <2>3, <2>4, <2>5, <2>6, <2>7, <2>8, <2>9 DEF Next
<1>7. mode' = "start" => DOMAIN rows' = {}
  BY <1>1, <1>3, <1>4, ModeStep, StartRows
<1>8. stage' = "mark" => done' = Len(work')
  <2>1. CASE Start
    BY <2>1 DEF Start, Load, Replay, Settle, EndStart, Begin, Go
  <2>2. CASE User
    BY <1>4, <2>2 DEF User, Dispatch, WriteCaptured, LoseCaptured, WriteElsewhere, apply
  <2>3. CASE Buffer
    BY <1>3, <1>4, <2>3 DEF Buffer, WriteDeferred, apply
  <2>4. CASE Publish
    BY <1>4, <2>4 DEF Publish, apply
  <2>5. CASE Fetch
    BY <2>5 DEF Fetch, Sync, Gate, Begin, FirstPage, LastPage, Refuse, StoreBatch, Go
  <2>6. CASE Stage
    BY <1>3, <2>6 DEF Stage, MergeClocks, RunReducers, CommitReducers, Go
  <2>7. CASE Effects
    BY <1>3, <1>4, <2>7 DEF Effects, RunEffect, EndEffects, apply
  <2>8. CASE Finish
    BY <2>8 DEF Finish, MarkApplied, ClearOlder, MarkFailed, EndDrain, Advance, Upload, Go
  <2>9. CASE Compact
    BY <1>4, <2>9 DEF Compact, SaveSnapshot, DeleteOld, apply
  <2> QED
    BY <1>3, <2>1, <2>2, <2>3, <2>4, <2>5, <2>6, <2>7, <2>8, <2>9 DEF Next
<1>9. ASSUME stage' \notin ApplyStages \/ stage' \in {"clear", "quarantine", "drain"} PROVE Unfinished' = {}
  <2>1. ASSUME DOMAIN rows' = {} PROVE Unfinished' = {}
    BY <2>1 DEF Unfinished
  <2>2. ASSUME MarkApplied, mode = "download" PROVE Unfinished' = {}
    <3>1. stage = "mark" /\ rows' = Marked(Finished, "applied")
      BY <2>2 DEF MarkApplied, Go
    <3>2. \A s \in Unfinished : s \in Finished
      BY <1>1, <1>4, <2>2, <3>1 DEF GateInv, ApplyStages, Finished
    <3>3. /\ DOMAIN rows' = DOMAIN rows
          /\ \A s \in DOMAIN rows : rows'[s] = IF s \in Finished THEN [rows[s] EXCEPT !.status = "applied"] ELSE rows[s]
      BY <3>1 DEF Marked
    <3>4. ASSUME NEW s \in DOMAIN rows, rows'[s].status \in {"archive_pending", "failed"}, ~rows'[s].rejected
          PROVE  FALSE
      <4>1. rows[s] \in Row
        BY <1>1 DEF LogType
      <4>2. s \in Finished => rows'[s].status = "applied"
        BY <3>3, <4>1 DEF Row
      <4>3. s \notin Finished /\ s \notin Unfinished
        BY <3>2, <3>4, <4>2
      <4> QED
        BY <3>3, <3>4, <4>3 DEF Unfinished
    <3> QED
      BY <3>3, <3>4 DEF Unfinished
  <2>3. CASE mode = "start"
    <3>1. DOMAIN rows' = {}
      BY <1>1, <1>4, <2>3, StartRows
    <3> QED
      BY <2>1, <3>1
  <2>4. CASE mode # "start"
    <3>1. mode = "download" /\ stage \notin BootStages
      BY <1>1, <1>4, <2>4 DEF WorkType, StageInv
    <3>2. ~Settle /\ ~Start
      BY <3>1 DEF Start, Load, Replay, Settle, EndStart, Go, BootStages
    <3>3. CommitReducers => stage' = "effects"
      BY DEF CommitReducers, Go
    <3>4. ~CommitReducers
      BY <1>9, <3>3 DEF ApplyStages
    <3>5. Unfinished' \subseteq Unfinished
      BY <1>1, <1>4, <3>2, <3>4, UnfinishedStep
    <3>6. MarkApplied \/ stage \notin ApplyStages \/ stage \in {"clear", "quarantine", "drain"}
      <4>1. CASE User
        BY <1>9, <4>1 DEF User, Dispatch, WriteCaptured, LoseCaptured, WriteElsewhere
      <4>2. CASE Buffer
        BY <1>3, <1>9, <4>2 DEF Buffer, WriteDeferred
      <4>3. CASE Publish
        BY <1>9, <4>3 DEF Publish
      <4>4. CASE Fetch
        BY <4>4 DEF Fetch, Sync, Gate, FirstPage, LastPage, Refuse, StoreBatch, Go, ApplyStages
      <4>5. CASE Stage
        BY <1>3, <1>9, <3>4, <4>5 DEF Stage, MergeClocks, RunReducers, Go, ApplyStages
      <4>6. CASE Effects
        BY <1>3, <1>9, <4>6 DEF Effects, RunEffect, EndEffects, Go, ApplyStages
      <4>7. CASE Finish
        BY <4>7 DEF Finish, ClearOlder, MarkFailed, EndDrain, Advance, Upload, Go, ApplyStages
      <4>8. CASE Compact
        BY <1>9, <4>8 DEF Compact, SaveSnapshot, DeleteOld
      <4> QED
        BY <1>3, <3>2, <4>1, <4>2, <4>3, <4>4, <4>5, <4>6, <4>7, <4>8 DEF Next
    <3> QED
      BY <1>4, <2>2, <3>1, <3>5, <3>6
  <2> QED
    BY <2>3, <2>4
<1> QED
  BY <1>6, <1>7, <1>8, <1>9

\* What the theorems take for granted, each against a case in which the code does otherwise
\* (README, section 6): the other tab writes only if this one started behind a snapshot
\* (tab-seq-frontier.service.ts:65).  Where a full-state operation may come, nobody acts
\* between the hold and the reducers (remote-ops-processing.service.ts:316), what is
\* compacted away is not downloaded again (operation-log-compaction.service.ts:301), and
\* no write fails after another fault (remote-ops-processing.service.ts:316 again).
Regular ==
  /\ "tab" \in Events => Anchored > 0
  /\ \/ Imports = {}
     \/ {"act", "stall"} \cap Events = {} /\ ("write" \in Events => MaxFaults <= 1)

\* A download does not begin over buffered actions.
LEMMA BufferStep == ASSUME Regular \/ Imports = {}, Inv, BaseInv, Next PROVE BufferInv'
<1>1. BufferInv /\ FaultInv /\ UiType
  BY DEF Inv, BaseInv
<1> DEFINE B == {"fetched", "paging", "flushed"}
<1> SUFFICES ASSUME Imports # {}, stage' \in B PROVE deferred' = <<>>
  BY DEF BufferInv
<1>2. ~FailDeferred
  <2> SUFFICES ASSUME FailDeferred PROVE FALSE
    OBVIOUS
  <2>1. "write" \in Events /\ faults < MaxFaults /\ faults \in Nat /\ MaxFaults \in Nat
    BY <1>1, BoundAssumption DEF FailDeferred, UiType
  <2>2. MaxFaults <= 1
    BY <2>1 DEF Regular
  <2>3. faults = 0
    BY <2>1, <2>2
  <2>4. mode # "gate"
    BY <1>1, <2>3 DEF FaultInv
  <2> QED
    BY <2>4 DEF FailDeferred
<1>3. deferred' = deferred /\ (stage \in B \/ deferred = <<>>)
  <2>1. CASE Start
    BY <2>1 DEF Start, Load, Replay, Settle, EndStart, Begin, Go
  <2>2. CASE User
    <3>1. Dispatch => deferred' = deferred /\ stage \in B
      BY DEF Dispatch, Window, ApplyStages
    <3> QED
      BY <2>2, <3>1 DEF User, WriteCaptured, LoseCaptured, WriteElsewhere, ui
  <2>3. CASE Buffer
    BY <1>2, <2>3 DEF Buffer, WriteDeferred
  <2>4. CASE Publish
    BY <2>4 DEF Publish, ui
  <2>5. CASE Fetch
    BY <2>5 DEF Fetch, Sync, Gate, Begin, FirstPage, LastPage, Refuse, StoreBatch, Go, ui
  <2>6. CASE Stage
    BY <2>6 DEF Stage, MergeClocks, RunReducers, CommitReducers, Throw, Go
  <2>7. CASE Effects
    BY <2>7 DEF Effects, RunEffect, FailEffect, EndEffects, Go
  <2>8. CASE Finish
    BY <2>8 DEF Finish, MarkApplied, ClearOlder, MarkFailed, EndDrain, Advance, Upload, Go, ui
  <2>9. CASE Compact
    BY <2>9 DEF Compact, SaveSnapshot, DeleteOld, ui
  <2>10. CASE Crash
    BY <2>10 DEF Crash
  <2> QED
    BY <2>1, <2>2, <2>3, <2>4, <2>5, <2>6, <2>7, <2>8, <2>9, <2>10 DEF Next
<1> QED
  BY <1>1, <1>3 DEF BufferInv

-----------------------------------------------------------------------------
(* The batch *)

\* Which rows are being applied changes with a batch and with its checkpoint.
LEMMA WorkStep ==
  ASSUME Next, mode' = "download", stage' \in ApplyStages \ {"drain"}
  PROVE  \/ /\ work' = work /\ mode = "download" /\ stage \in ApplyStages \ {"drain"}
            /\ stage' \in {"stored", "informed", "reduced"} => stage \in {"stored", "informed", "reduced"}
            /\ ~StoreBatch /\ ~CommitReducers
         \/ StoreBatch /\ Applicable # <<>>
         \/ CommitReducers /\ stage' = "effects" /\ stage = "reduced"
<1>1. CASE Start
  BY <1>1 DEF Start, Load, Replay, Settle, EndStart, Begin, Go, ApplyStages
<1>2. CASE User
  BY <1>2 DEF User, Dispatch, WriteCaptured, LoseCaptured, WriteElsewhere, apply, StoreBatch,
              CommitReducers, ApplyStages, Go
<1>3. CASE Buffer
  BY <1>3 DEF Buffer, WriteDeferred, FailDeferred, apply, ApplyStages
<1>4. CASE Publish
  BY <1>4 DEF Publish, apply, StoreBatch, CommitReducers, ApplyStages, Go
<1>5. CASE Fetch
  BY <1>5 DEF Fetch, Sync, Gate, Begin, FirstPage, LastPage, Refuse, StoreBatch, Go, ApplyStages
<1>6. CASE Stage
  BY <1>6 DEF Stage, MergeClocks, RunReducers, CommitReducers, Throw, Go, apply, StoreBatch, ApplyStages
<1>7. CASE Effects
  BY <1>7 DEF Effects, RunEffect, FailEffect, EndEffects, Go, apply, StoreBatch, CommitReducers, ApplyStages
<1>8. CASE Finish
  BY <1>8 DEF Finish, MarkApplied, ClearOlder, MarkFailed, EndDrain, Advance, Upload, Go, apply,
              StoreBatch, CommitReducers, ApplyStages
<1>9. CASE Compact
  BY <1>9 DEF Compact, SaveSnapshot, DeleteOld, apply, StoreBatch, CommitReducers, ApplyStages, Go
<1>10. CASE Crash
  BY <1>10 DEF Crash, ApplyStages
<1> QED
  BY <1>1, <1>2, <1>3, <1>4, <1>5, <1>6, <1>7, <1>8, <1>9, <1>10 DEF Next

\* A batch is stored behind the log, and only local operations come behind it.
LEMMA BatchStep == ASSUME Inv, BaseInv, Next PROVE BatchInv'
<1>1. /\ LogType /\ LogInv /\ UiType /\ KnowType /\ WorkType /\ StageInv /\ WorkInv /\ OwnInv /\ BatchInv
      /\ DOMAIN work = 1..Len(work)
  BY WorkSeq DEF Inv, BaseInv
<1> DEFINE D == mode = "download" /\ stage \in ApplyStages \ {"drain"}
           R == {"stored", "informed", "reduced"}
<1>2. stage' \in R => mode' = "download" /\ stage' \in ApplyStages \ {"drain"}
  <2>1. Inv'
    BY NextInv
  <2> QED
    BY <2>1 DEF Inv, StageInv, ApplyStages
<1>3. stage' \in R => \A i, j \in 1..Len(work') : i < j => work'[i] < work'[j]
  <2> SUFFICES ASSUME stage' \in R PROVE \A i, j \in 1..Len(work') : i < j => work'[i] < work'[j]
    OBVIOUS
  <2>1. CASE StoreBatch /\ Applicable # <<>>
    <3> DEFINE n == Len(Applicable)
    <3>1. Len(work') = n /\ \A i \in 1..n : work'[i] = nextSeq + i - 1
      BY <2>1, BatchFacts
    <3>2. n \in Nat /\ nextSeq \in Nat
      BY <1>1, <2>1, BatchFacts DEF LogType
    <3> HIDE DEF n
    <3> QED
      BY <3>1, <3>2
  <2>2. CASE work' = work /\ stage \in R
    BY <1>1, <2>2 DEF BatchInv
  <2> QED
    BY <1>2, <2>1, <2>2, WorkStep
<1>4. ASSUME mode' = "download", stage' \in ApplyStages \ {"drain"},
             NEW s \in Batch', NEW t \in DOMAIN rows' \ Batch', rows'[t].op \in Imports
      PROVE  t < s
  <2>1. CASE StoreBatch /\ Applicable # <<>>
    <3> DEFINE a == Applicable
               n == Len(a)
    <3>1. Appends(a) /\ Len(work') = n /\ (\A i \in 1..n : work'[i] = nextSeq + i - 1) /\ n \in Nat
      BY <2>1, BatchFacts
    <3>2. nextSeq \in Nat /\ \A r \in DOMAIN rows : r \in Nat /\ r < nextSeq
      BY <1>1 DEF LogType
    <3>3. DOMAIN work' = 1..n
      BY <2>1 DEF StoreBatch
    <3>4. PICK i \in 1..n : s = nextSeq + i - 1
      BY <3>1, <3>3 DEF Batch, Among
    <3>5. t \in DOMAIN rows
      <4> SUFFICES ASSUME t \in nextSeq..(nextSeq + n - 1) PROVE FALSE
        BY <3>1 DEF Appends
      <4> DEFINE k == t - nextSeq + 1
      <4>1. k \in 1..n /\ nextSeq + k - 1 = t
        BY <3>1, <3>2
      <4> HIDE DEF k
      <4>2. work'[k] = t /\ k \in DOMAIN work'
        BY <3>1, <3>3, <4>1
      <4>3. t \in Batch'
        BY <4>2 DEF Batch
      <4> QED
        BY <4>3
    <3> HIDE DEF a, n
    <3>6. t < nextSeq /\ t \in Nat /\ i \in Nat /\ 1 <= i /\ s = nextSeq + i - 1
      BY <3>1, <3>2, <3>4, <3>5
    <3> QED
      BY <3>2, <3>6
  <2>2. ASSUME mode = "download", stage \in ApplyStages \ {"drain"}, Batch' = Batch, t \in DOMAIN rows,
               rows[t].op \in Imports
        PROVE  t < s
    BY <1>1, <2>2 DEF BatchInv
  <2>3. CASE CommitReducers /\ stage = "reduced"
    <3>1. mode = "download"
      BY <1>1, <2>3 DEF StageInv
    <3> DEFINE S == {work[i] : i \in DOMAIN work}
               T == {q \in DOMAIN rows : rows[q].op \notin Broken}
    <3>2. Checkpoint(S) /\ nextSeq' = nextSeq /\ logged' = logged /\ work' = Kept(work, T)
      BY <2>3 DEF CommitReducers
    <3>3. KeepsRows
      <4> HIDE DEF S
      <4> QED
        BY <1>1, <3>2, CheckpointKeeps
    <3>4. work \in Seq(Nat)
      BY <1>1, WorkSeq
    <3>5. /\ \A k \in 1..Len(work') : \E i \in 1..Len(work) : work'[k] = work[i]
          /\ \A i \in 1..Len(work) : work[i] \in T => \E k \in 1..Len(work') : work'[k] = work[i]
          /\ DOMAIN work' = 1..Len(work')
      <4> HIDE DEF T
      <4>1. KeepsOf(work', work, Nat, T, Len(work))
        BY <3>2, <3>4, KeptOf
      <4> QED
        BY <4>1 DEF KeepsOf
    <3>6. s \in Batch
      BY <1>1, <3>5 DEF Batch
    <3>7. t \in DOMAIN rows /\ rows[t].op \in Imports
      BY <1>4, <3>3 DEF KeepsRows
    <3>8. t \notin Batch
      <4> SUFFICES ASSUME t \in Batch PROVE FALSE
        OBVIOUS
      <4>1. PICK i \in 1..Len(work) : t = work[i]
        BY <1>1 DEF Batch
      <4>2. t \in T
        BY <3>7, ReducerAssumption
      <4>3. t \in Batch'
        BY <3>5, <4>1, <4>2 DEF Batch
      <4> QED
        BY <4>3
    <3> QED
      BY <1>1, <2>3, <3>1, <3>6, <3>7, <3>8 DEF BatchInv, ApplyStages
  <2>4. CASE work' = work /\ mode = "download" /\ stage \in ApplyStages \ {"drain"} /\ ~StoreBatch
    <3>1. Batch' = Batch
      BY <2>4 DEF Batch
    <3>2. ASSUME NEW o \in Local, Writes(o) PROVE t \in DOMAIN rows /\ rows[t].op \in Imports
      <4>1. o \notin Imports
        BY OpsAssumption, ReducerAssumption
      <4>2. t = nextSeq => rows'[t].op = o
        BY <3>2 DEF Writes
      <4>3. t # nextSeq
        BY <1>4, <4>1, <4>2
      <4> QED
        BY <1>4, <3>2, <4>3 DEF Writes
    <3>3. ASSUME NEW S, Deletes(S) PROVE t \in DOMAIN rows /\ rows[t].op \in Imports
      BY <1>4, <3>3 DEF Deletes
    <3>4. KeepsRows => t \in DOMAIN rows /\ rows[t].op \in Imports
      BY <1>4 DEF KeepsRows
    <3>5. DeleteOld => t \in DOMAIN rows /\ rows[t].op \in Imports
      BY <1>1, <3>3, DeleteOldOf
    <3>6. OwnOps \subseteq Local /\ TabOps \subseteq Local
      BY DEF Local
    <3>7. t \in DOMAIN rows /\ rows[t].op \in Imports
      BY <1>1, <2>4, <3>2, <3>3, <3>4, <3>5, <3>6, LogStep
    <3> QED
      BY <2>2, <2>4, <3>1, <3>7
  <2> QED
    BY <1>4, <2>1, <2>3, <2>4, WorkStep
<1> QED
  BY <1>3, <1>4 DEF BatchInv

\* The last sequence number is the greatest.
LEMMA LastSeqBounds ==
  ASSUME LogType
  PROVE  LastSeq \in 0..(nextSeq - 1) /\ \A s \in DOMAIN rows : s <= LastSeq
<1>1. LastSeq \in 0..(nextSeq - 1)
  BY LastSeqOf
<1>2. nextSeq - 1 \in Nat /\ DOMAIN rows \subseteq 0..(nextSeq - 1)
  BY DEF LogType
<1>3. ASSUME NEW s \in DOMAIN rows PROVE s <= LastSeq
  <2>1. \E q \in DOMAIN rows : \A t \in DOMAIN rows : t <= q
    BY <1>2, <1>3, Greatest
  <2> QED
    BY <1>3, <2>1 DEF LastSeq
<1> QED
  BY <1>1, <1>3

\* The frontier does not fall behind the snapshot.
LEMMA FrontInvStep == ASSUME Inv, BaseInv, Next PROVE FrontInv'
<1>1. LogType /\ KnowType /\ StageInv /\ FrontInv /\ PendInv
  BY DEF Inv, BaseInv
<1> DEFINE B == {"off", "loaded", "replayed"}
<1> SUFFICES ASSUME Anchored > 0 PROVE cache'.anchor > 0 /\ (stage' \notin B => frontier' >= cache'.anchor)
  BY DEF FrontInv
<1>2. /\ cache.anchor > 0 /\ cache.anchor \in Nat /\ frontier \in Nat /\ nextSeq \in Nat /\ cache.anchor < nextSeq
      /\ stage \notin B => frontier >= cache.anchor
  BY <1>1 DEF FrontInv, KnowType, Snapshot, LogType
<1>3. stage' \notin B => stage \notin B \/ Settle
  <2>1. CASE Start
    BY <2>1 DEF Start, Load, Replay, EndStart, Go
  <2>2. CASE User
    BY <2>2 DEF User, Dispatch, WriteCaptured, LoseCaptured, WriteElsewhere, Running, BootStages
  <2>3. CASE Buffer
    BY <2>3 DEF Buffer, WriteDeferred, FailDeferred
  <2>4. CASE Publish \/ Crash
    BY <2>4 DEF Publish, Crash
  <2>5. CASE Fetch
    BY <2>5 DEF Fetch, Sync, Gate, FirstPage, LastPage, Refuse, StoreBatch, Go
  <2>6. CASE Stage
    BY <2>6 DEF Stage, MergeClocks, RunReducers, CommitReducers, Throw, Go, ApplyStages
  <2>7. CASE Effects
    BY <2>7 DEF Effects, RunEffect, FailEffect, EndEffects, Go
  <2>8. CASE Finish
    BY <2>8 DEF Finish, MarkApplied, ClearOlder, MarkFailed, EndDrain, Advance, Upload, Go
  <2>9. CASE Compact
    BY <2>9 DEF Compact, SaveSnapshot, DeleteOld, Running, BootStages
  <2> QED
    BY <2>1, <2>2, <2>3, <2>4, <2>5, <2>6, <2>7, <2>8, <2>9 DEF Next
<1>4. ASSUME cache' # cache PROVE cache'.anchor > 0 /\ frontier' >= cache'.anchor
  <2>1. Snap /\ SaveSafe(LastSeq) /\ frontier' = frontier /\ stage \notin B
    BY <1>1, <1>4, CacheStep
  <2>2. cache'.anchor = LastSeq
    BY <2>1 DEF Snap
  <2>3. frontier >= cache.anchor /\ frontier # 0
    BY <1>2, <2>1
  <2>4. frontier = LastSeq
    BY <2>1, <2>3 DEF SaveSafe
  <2> QED
    BY <1>2, <2>1, <2>2, <2>3, <2>4
<1>5. CASE cache' = cache
  <2> SUFFICES ASSUME stage' \notin B PROVE frontier' >= cache.anchor
    BY <1>2, <1>5
  <2>1. CASE Settle
    <3> DEFINE covered == {s \in DOMAIN rows : s > cache.anchor}
    <3>1. frontier' = IF covered = {} THEN cache.anchor ELSE LastSeq
      BY <2>1 DEF Settle, Establish
    <3>2. covered # {} => LastSeq >= cache.anchor
      <4> SUFFICES ASSUME NEW s \in DOMAIN rows, s > cache.anchor PROVE LastSeq >= cache.anchor
        OBVIOUS
      <4>1. s <= LastSeq /\ LastSeq \in Nat /\ s \in Nat
        BY <1>1, LastSeqBounds DEF LogType
      <4> QED
        BY <1>2, <4>1
    <3> QED
      BY <1>2, <3>1, <3>2
  <2>2. ASSUME NEW n \in Nat \ {0}, Observe(nextSeq, n), stage \notin B PROVE frontier' >= cache.anchor
    <3>1. frontier # 0
      BY <1>2, <2>2
    <3>2. frontier' = nextSeq + n - 1
      BY <2>2, <3>1 DEF Observe
    <3> QED
      BY <1>2, <3>2
  <2>3. CASE WriteCaptured
    BY <2>2, <2>3, <1>3 DEF WriteCaptured, Settle, Go, Running, BootStages
  <2>4. CASE WriteDeferred
    BY <2>2, <2>4 DEF WriteDeferred
  <2>5. CASE StoreBatch
    <3>1. CASE Applicable = <<>>
      BY <1>2, <2>5, <3>1 DEF StoreBatch, tab
    <3>2. CASE Applicable # <<>>
      <4> DEFINE n == Len(Applicable)
      <4>1. Observe(nextSeq, n) /\ stage = "flushed"
        BY <2>5, <3>2 DEF StoreBatch
      <4>2. n \in Nat \ {0}
        BY <2>5, <3>2, BatchFacts
      <4> HIDE DEF n
      <4> QED
        BY <2>2, <4>1, <4>2
    <3> QED
      BY <3>1, <3>2
  <2>6. CASE Crash
    BY <2>6 DEF Crash
  <2>7. CASE frontier' = frontier
    BY <1>2, <1>3, <2>1, <2>7
  <2> QED
    BY <2>1, <2>3, <2>4, <2>5, <2>6, <2>7, FrontStep
<1> QED
  BY <1>2, <1>4, <1>5

\* The base of the invariant.
LEMMA InitBase == Init => BaseInv
<1> SUFFICES ASSUME Init PROVE BaseInv
  OBVIOUS
<1>1. /\ DOMAIN rows = {} /\ DOMAIN logged = {} /\ clock = {} /\ cache.clock = {} /\ archived = {}
      /\ cache.anchor = Anchored
      /\ captured = <<>> /\ deferred = <<>> /\ lost = FALSE /\ stage = "off" /\ mode = "start" /\ ~failed
  BY DEF Init
<1>2. Waiting = {} /\ Distinct(captured) /\ Distinct(deferred) /\ Among(captured) = {}
  BY <1>1, EmptyOf DEF Waiting
<1>3. Unfinished = {}
  BY <1>1, EmptyRows
<1>4. OnceInv /\ LearnInv /\ FeedInv /\ OwnInv
  BY <1>1, <1>2 DEF OnceInv, LearnInv, FeedInv, OwnInv
<1>5. PendInv /\ FaultInv /\ BufferInv /\ BatchInv
  BY <1>1, <1>3 DEF PendInv, FaultInv, BufferInv, BatchInv, ApplyStages
<1>6. FrontInv /\ TabInv
  BY <1>1 DEF FrontInv, TabInv
<1> QED
  BY <1>4, <1>5, <1>6 DEF BaseInv

\* And its step.
LEMMA BaseStep == ASSUME Regular \/ Imports = {}, Inv, BaseInv, [Next]_vars PROVE BaseInv'
<1>1. CASE Next
  BY <1>1, OnceStep, LearnStep, FeedStep, OwnStep, PendInvStep, FaultStep, BufferStep, BatchStep,
     FrontInvStep, TabStep DEF BaseInv
<1>2. CASE UNCHANGED vars
  <2>1. /\ UNCHANGED <<rows, nextSeq, cache, clock, archived, cursor, live, captured, deferred, lost>>
        /\ UNCHANGED <<frontier, foreign, stage, mode, first, target, work, done, failed, compacting>>
        /\ UNCHANGED <<served, nextOwn, faults, logged>>
    BY <1>2 DEF vars, disk, ui, tab, apply, world
  <2>2. Waiting' = Waiting /\ Pending' = Pending /\ Unfinished' = Unfinished /\ Batch' = Batch
    BY <2>1 DEF Waiting, Pending, Unfinished, Batch
  <2>3. OnceInv' /\ LearnInv' /\ FeedInv' /\ OwnInv'
    BY <2>1, <2>2 DEF BaseInv, OnceInv, LearnInv, FeedInv, OwnInv
  <2>4. PendInv' /\ FaultInv' /\ BufferInv'
    BY <2>1, <2>2 DEF BaseInv, PendInv, FaultInv, BufferInv
  <2>5. BatchInv' /\ FrontInv' /\ TabInv'
    BY <2>1, <2>2 DEF BaseInv, BatchInv, FrontInv, TabInv
  <2> QED
    BY <2>3, <2>4, <2>5 DEF BaseInv
<1> QED
  BY <1>1, <1>2

\* The stages of a start follow each other.
LEMMA BootStep ==
  ASSUME Next
  PROVE  /\ stage' = "loaded" => stage = "loaded" \/ Load
         /\ stage' = "replayed" => stage = "replayed" \/ Replay
         /\ stage = "off" => stage' = "off" \/ Load
         /\ stage = "loaded" => stage' \in {"off", "loaded"} \/ Replay
         /\ stage = "replayed" => stage' \in {"off", "replayed"} \/ Settle
<1>1. CASE Start
  BY <1>1 DEF Start, Load, Replay, Settle, EndStart, Begin, Go
<1>2. CASE User
  BY <1>2 DEF User, Dispatch, WriteCaptured, LoseCaptured, WriteElsewhere
<1>3. CASE Buffer
  BY <1>3 DEF Buffer, WriteDeferred, FailDeferred
<1>4. CASE Publish \/ Crash
  BY <1>4 DEF Publish, Crash
<1>5. CASE Fetch
  BY <1>5 DEF Fetch, Sync, Gate, FirstPage, LastPage, Refuse, StoreBatch, Begin, Go
<1>6. CASE Stage
  BY <1>6 DEF Stage, MergeClocks, RunReducers, CommitReducers, Throw, Go, ApplyStages
<1>7. CASE Effects
  BY <1>7 DEF Effects, RunEffect, FailEffect, EndEffects, Go
<1>8. CASE Finish
  BY <1>8 DEF Finish, MarkApplied, ClearOlder, MarkFailed, EndDrain, Advance, Upload, Go
<1>9. CASE Compact
  BY <1>9 DEF Compact, SaveSnapshot, DeleteOld
<1> QED
  BY <1>1, <1>2, <1>3, <1>4, <1>5, <1>6, <1>7, <1>8, <1>9 DEF Next

\* A row keeps its operation as long as it is there, and it is there as long as no
\* full-state operation and no compaction takes it.
LEMMA RowStep ==
  ASSUME Inv, OwnInv, Next
  PROVE  /\ \A s \in DOMAIN rows \cap DOMAIN rows' : rows'[s].op = rows[s].op
         /\ \A s \in DOMAIN rows : s \in DOMAIN rows' \/ (ClearOlder /\ s \in Older) \/ s <= cache.anchor
<1>1. LogType /\ LogInv /\ UiType /\ KnowType
  BY DEF Inv
<1>2. CASE KeepsRows
  BY <1>2 DEF KeepsRows
<1>3. CASE ClearOlder /\ Deletes(Older)
  BY <1>3 DEF Deletes
<1>4. CASE DeleteOld
  <2>1. PICK S \in SUBSET (DOMAIN rows) : Deletes(S) /\ \A s \in S : s <= cache.anchor
    BY <1>1, <1>4, DeleteOldOf
  <2> QED
    BY <2>1 DEF Deletes
<1>5. ASSUME NEW o, Writes(o)
      PROVE \A s \in DOMAIN rows : s \in DOMAIN rows' /\ rows'[s].op = rows[s].op
  BY <1>5 DEF Writes
<1>6. ASSUME StoreBatch, Applicable # <<>>
      PROVE \A s \in DOMAIN rows : s \in DOMAIN rows' /\ rows'[s].op = rows[s].op
  <2> DEFINE a == Applicable
  <2>1. Appends(a)
    BY <1>6, BatchFacts
  <2> HIDE DEF a
  <2> QED
    BY <2>1 DEF Appends
<1> QED
  BY <1>1, <1>2, <1>3, <1>4, <1>5, <1>6, LogStep

-----------------------------------------------------------------------------
(* What a download brings is news.  Without full-state operations: the     *)
(* clock and the snapshot's clock tell.                                    *)

\* Without full-state operations a merge is a union.
LEMMA MergeKeeps ==
  ASSUME Imports = {}, NEW c, NEW X, NEW s \in Seq(X)
  PROVE  Merge(c, s) = c \cup {s[i] : i \in 1..Len(s)}
<1>1. LastImport(s) = 0
  BY LastImportOf
<1>2. DOMAIN s = 1..Len(s)
  OBVIOUS
<1> QED
  BY <1>1, <1>2 DEF Merge, FromImport

\* An apply learns its rows.
LEMMA CheckpointLearns ==
  ASSUME Imports = {}, LogType, NEW S \in SUBSET Pending, Checkpoint(S)
  PROVE  clock \subseteq clock' /\ \A s \in S : rows[s].op \notin Broken => rows[s].op \in clock'
<1> DEFINE G == {s \in S : rows[s].op \notin Broken}
           w == InOrder(G)
<1>1. clock' = Merge(clock, OpsAt(w))
  BY DEF Checkpoint
<1>2. nextSeq \in Nat \ {0} /\ G \in SUBSET (1..(nextSeq - 1)) /\ S \subseteq DOMAIN rows /\ 1..(nextSeq - 1) \subseteq Nat
  BY DEF LogType, Pending
<1> HIDE DEF G
<1>3. /\ w \in Seq(1..(nextSeq - 1)) /\ \A i \in 1..Len(w) : w[i] \in G
      /\ \A x \in G : \E i \in 1..Len(w) : w[i] = x
  BY <1>2, InOrderOf
<1> HIDE DEF w
<1>4. w \in Seq(Nat)
  BY <1>2, <1>3, SeqGrows, Zenon
<1>5. \A i \in 1..Len(w) : w[i] \in DOMAIN rows
  BY <1>2, <1>3 DEF G
<1> DEFINE t == OpsAt(w)
<1>6. t \in Seq(Ids) /\ Len(t) = Len(w) /\ \A i \in 1..Len(w) : t[i] = rows[w[i]].op
  BY <1>4, <1>5, OpsAtOf
<1> HIDE DEF t
<1>7. clock' = clock \cup {t[i] : i \in 1..Len(t)}
  BY <1>1, <1>6, MergeKeeps DEF t
<1>8. ASSUME NEW s \in S, rows[s].op \notin Broken PROVE rows[s].op \in clock'
  <2>1. PICK i \in 1..Len(w) : w[i] = s
    BY <1>3, <1>8 DEF G
  <2>2. t[i] = rows[s].op
    BY <1>6, <2>1
  <2> QED
    BY <1>6, <1>7, <2>1, <2>2
<1> QED
  BY <1>7, <1>8

\* So the durable clock only grows, but for a start.
LEMMA ClockStays == ASSUME Imports = {}, Inv, OwnInv, Next PROVE clock \subseteq clock' \/ Load
<1>1. /\ LogType /\ LogInv /\ UiType /\ WorkType /\ WorkInv /\ StageInv
  BY DEF Inv
<1>2. ASSUME NEW s, clock' = Merge(clock, s), NEW X, s \in Seq(X) PROVE clock \subseteq clock'
  BY <1>2, MergeKeeps
<1>3. ASSUME NEW w \in Seq(Nat), clock' = Merge(clock, OpsAt(w)), \A i \in 1..Len(w) : w[i] \in DOMAIN rows
      PROVE  clock \subseteq clock'
  <2>1. OpsAt(w) \in Seq(Ids)
    BY <1>1, <1>3, OpsAtOf
  <2> QED
    BY <1>2, <1>3, <2>1
<1>4. ASSUME NEW o, WriteLocal(o) PROVE clock \subseteq clock'
  BY <1>4 DEF WriteLocal
<1>5. work \in Seq(Nat)
  BY <1>1, WorkSeq
<1>6. ASSUME Replay PROVE clock \subseteq clock'
  <2> DEFINE w == Replayable
             t == OpsAt(w)
             l == SubSeq(t, Len(t), Len(t))
  <2>1. w \in Seq(Nat) /\ \A i \in 1..Len(w) : w[i] \in DOMAIN rows
    BY <1>1, ReplayableOf
  <2>2. t \in Seq(Ids)
    BY <1>1, <2>1, OpsAtOf
  <2>3. clock' = Merge(clock, t) \/ (t # <<>> /\ clock' = Merge(clock, l))
    BY <1>6 DEF Replay
  <2> HIDE DEF t
  <2>4. t # <<>> => l \in Seq(Ids)
    BY <2>2, LastOf
  <2> HIDE DEF l
  <2> QED
    BY <1>2, <2>2, <2>3, <2>4
<1>7. ASSUME MergeClocks PROVE clock \subseteq clock'
  <2>1. stage = "stored" /\ clock' = Merge(clock, OpsAt(work))
    BY <1>7 DEF MergeClocks, Go
  <2>2. \A i \in 1..Len(work) : work[i] \in DOMAIN rows
    BY <1>1, <2>1 DEF WorkInv, Pending
  <2> QED
    BY <1>3, <1>5, <2>1, <2>2
<1>8. ASSUME EndEffects PROVE clock \subseteq clock'
  <2> DEFINE w == SubSeq(work, 1, done)
  <2>1. stage = "effects" /\ (clock' = clock \/ clock' = Merge(clock, OpsAt(w)))
    BY <1>8 DEF EndEffects, Go
  <2>2. \A i \in 1..Len(work) : work[i] \in DOMAIN rows
    BY <1>1, <2>1 DEF WorkInv, Unfinished
  <2>3. done \in 0..Len(work) /\ Len(work) \in Nat
    BY <1>1 DEF WorkType
  <2>4. w \in Seq(Nat) /\ \A i \in 1..Len(w) : w[i] \in DOMAIN rows
    BY <1>5, <2>2, <2>3
  <2> HIDE DEF w
  <2> QED
    BY <1>3, <2>1, <2>4
<1>9. ASSUME NEW S \in SUBSET Pending, Checkpoint(S) PROVE clock \subseteq clock'
  BY <1>1, <1>9, CheckpointLearns
<1>10. ASSUME CommitReducers PROVE clock \subseteq clock'
  <2> DEFINE S == {work[i] : i \in DOMAIN work}
  <2>1. Checkpoint(S) /\ stage = "reduced"
    BY <1>10 DEF CommitReducers, Go
  <2>2. S \in SUBSET Pending
    BY <1>1, <2>1, WorkSeq DEF WorkInv
  <2> HIDE DEF S
  <2> QED
    BY <1>9, <2>1, <2>2
<1>11. CASE Start
  BY <1>6, <1>9, <1>11 DEF Start, Settle, EndStart
<1>12. CASE User
  BY <1>4, <1>12 DEF User, Dispatch, WriteCaptured, LoseCaptured, WriteElsewhere, disk
<1>13. CASE Buffer
  BY <1>4, <1>13 DEF Buffer, WriteDeferred, FailDeferred, disk
<1>14. CASE Publish \/ Crash
  BY <1>14 DEF Publish, Crash, disk
<1>15. CASE Fetch
  BY <1>15 DEF Fetch, Sync, Gate, FirstPage, LastPage, Refuse, StoreBatch, disk
<1>16. CASE Stage
  BY <1>7, <1>10, <1>16 DEF Stage, RunReducers, Throw, disk
<1>17. CASE Effects
  BY <1>8, <1>17 DEF Effects, RunEffect, FailEffect, disk
<1>18. CASE Finish
  BY <1>18 DEF Finish, MarkApplied, ClearOlder, MarkFailed, EndDrain, Advance, Upload, disk
<1>19. CASE Compact
  BY <1>19 DEF Compact, SaveSnapshot, DeleteOld
<1> QED
  BY <1>11, <1>12, <1>13, <1>14, <1>15, <1>16, <1>17, <1>18, <1>19 DEF Next

\* The remote operations that have been written and have an effect are behind the snapshot or
\* known to it, and pending or known to the clock.
Downloaded == (DOMAIN logged \cap Remote) \ Broken
CoveredInv == Imports = {} =>
  /\ \A o \in Downloaded : o \in cache.clock \/ \E s \in DOMAIN rows : rows[s].op = o /\ s > cache.anchor
  /\ stage \notin {"off", "loaded"} =>
       \A o \in Downloaded : o \in clock \/ \E s \in Pending : rows[s].op = o
  /\ stage = "loaded" => cache.clock \subseteq clock

\* What was downloaded is in the log behind the snapshot or in the snapshot's clock.
LEMMA CoveredStep == ASSUME Inv, BaseInv, CoveredInv, Next PROVE CoveredInv'
<1> SUFFICES ASSUME Imports = {} PROVE
      /\ \A o \in Downloaded' : o \in cache'.clock \/ \E s \in DOMAIN rows' : rows'[s].op = o /\ s > cache'.anchor
      /\ stage' \notin {"off", "loaded"} =>
           \A o \in Downloaded' : o \in clock' \/ \E s \in Pending' : rows'[s].op = o
      /\ stage' = "loaded" => cache'.clock \subseteq clock'
  BY DEF CoveredInv
<1>1. /\ LogType /\ LogInv /\ KnowType /\ UiType /\ WorkType /\ WorkInv /\ GateInv /\ StageInv /\ OwnInv /\ PendInv
      /\ \A o \in Downloaded : o \in cache.clock \/ \E s \in DOMAIN rows : rows[s].op = o /\ s > cache.anchor
      /\ stage \notin {"off", "loaded"} =>
           \A o \in Downloaded : o \in clock \/ \E s \in Pending : rows[s].op = o
      /\ stage = "loaded" => cache.clock \subseteq clock
  BY DEF Inv, BaseInv, CoveredInv
<1>2. nextSeq \in Nat /\ cache.anchor \in Nat /\ cache.anchor < nextSeq /\ DOMAIN rows \subseteq Nat
  BY <1>1 DEF LogType, KnowType, Snapshot
<1>3. ASSUME NEW o \in Downloaded', o \notin DOMAIN logged
      PROVE  \E s \in Pending' : s \in DOMAIN rows' /\ rows'[s].op = o /\ s > cache'.anchor
  <2>1. o \notin Local
    BY OpsAssumption DEF Downloaded
  <2>2. StoreBatch /\ \E k \in 1..Len(Applicable) : Applicable[k] = o
    BY <1>1, <1>3, <2>1, LoggedGrows DEF Downloaded
  <2> DEFINE a == Applicable
  <2>3. PICK k \in 1..Len(a) : a[k] = o
    BY <2>2
  <2>4. Applicable # <<>>
    BY <2>2
  <2>5. Appends(a) /\ Pending' = nextSeq..(nextSeq + Len(a) - 1) /\ Len(a) \in Nat
    BY <2>2, <2>4, BatchFacts
  <2>6. cache' = cache
    BY <2>2 DEF StoreBatch
  <2> HIDE DEF a
  <2> DEFINE s == nextSeq + k - 1
  <2>7. s \in nextSeq..(nextSeq + Len(a) - 1) /\ s > cache.anchor
    BY <1>2, <2>5
  <2>8. rows'[s].op = o /\ s \in DOMAIN rows'
    BY <2>3, <2>5, <2>7 DEF Appends
  <2> HIDE DEF s
  <2> QED
    BY <2>5, <2>6, <2>7, <2>8
<1>4. \A s \in DOMAIN rows : s > cache.anchor => s \in DOMAIN rows' /\ rows'[s].op = rows[s].op
  <2>1. \A s \in DOMAIN rows : ~(ClearOlder /\ s \in Older)
    BY DEF Older
  <2>2. \A s \in DOMAIN rows : s > cache.anchor => ~(s <= cache.anchor)
    BY <1>2
  <2> QED
    BY <1>1, <2>1, <2>2, RowStep
<1>5. ASSUME NEW o \in Downloaded'
      PROVE  o \in cache'.clock \/ \E s \in DOMAIN rows' : rows'[s].op = o /\ s > cache'.anchor
  <2>1. CASE o \notin DOMAIN logged
    BY <1>3, <2>1
  <2>2. CASE o \in DOMAIN logged
    <3>1. o \in Downloaded
      BY <2>2 DEF Downloaded
    <3>2. CASE cache' = cache
      BY <1>1, <1>4, <3>1, <3>2
    <3>3. CASE cache' # cache
      <4>1. Snap /\ Pending = {} /\ stage \notin {"off", "loaded", "replayed"}
        BY <1>1, <3>3, CacheStep
      <4>2. o \in clock
        BY <1>1, <3>1, <4>1
      <4> QED
        BY <4>1, <4>2 DEF Snap
    <3> QED
      BY <3>2, <3>3
  <2> QED
    BY <2>1, <2>2
<1>6. ASSUME stage' \notin {"off", "loaded"}, NEW o \in Downloaded'
      PROVE  o \in clock' \/ \E s \in Pending' : rows'[s].op = o
  <2>1. CASE o \notin DOMAIN logged
    BY <1>3, <2>1
  <2>2. CASE o \in DOMAIN logged
    <3>1. o \in Downloaded
      BY <2>2 DEF Downloaded
    <3>2. ~Load
      BY <1>6 DEF Load, Go
    <3>3. clock \subseteq clock'
      BY <1>1, <3>2, ClockStays
    <3>4. CASE Replay
      <4>1. stage = "loaded"
        BY <3>4 DEF Replay, Go
      <4>2. ASSUME NEW s \in DOMAIN rows, rows[s].op = o, s > cache.anchor PROVE o \in clock'
        <5> DEFINE w == Replayable
                   t == OpsAt(w)
        <5>1. s \in Replayed
          BY <1>1, <3>1, <4>2 DEF Replayed, LogInv, Downloaded
        <5>2. w \in Seq(Nat) /\ (\A i \in 1..Len(w) : w[i] \in DOMAIN rows) /\ \E i \in 1..Len(w) : w[i] = s
          BY <1>1, <5>1, ReplayableOf
        <5> HIDE DEF w
        <5>3. t \in Seq(Ids) /\ Len(t) = Len(w) /\ \A i \in 1..Len(w) : t[i] = rows[w[i]].op
          BY <1>1, <5>2, OpsAtOf
        <5>4. clock' = Merge(clock, t)
          BY <3>4 DEF Replay, w
        <5> HIDE DEF t
        <5>5. clock' = clock \cup {t[i] : i \in 1..Len(t)}
          BY <5>3, <5>4, MergeKeeps
        <5>6. PICK i \in 1..Len(t) : w[i] = s
          BY <5>2, <5>3
        <5> QED
          BY <4>2, <5>3, <5>5, <5>6
      <4> QED
        BY <1>1, <3>1, <3>3, <4>1, <4>2
    <3>5. CASE ~Replay
      <4>1. stage \notin {"off", "loaded"}
        BY <1>6, <3>2, <3>5, BootStep
      <4>2. ASSUME NEW s \in Pending, rows[s].op = o PROVE o \in clock' \/ s \in Pending'
        <5>1. rows[s].op \notin Broken
          BY <3>1, <4>2 DEF Downloaded
        <5>2. CASE Settle
          BY <1>1, <4>2, <5>1, <5>2, CheckpointLearns DEF Settle
        <5>3. CASE CommitReducers
          <6> DEFINE S == {work[i] : i \in DOMAIN work}
          <6>1. Checkpoint(S) /\ stage = "reduced"
            BY <5>3 DEF CommitReducers, Go
          <6>2. mode = "download" /\ DOMAIN work = 1..Len(work)
            BY <1>1, <6>1, WorkSeq DEF StageInv
          <6>3. S \in SUBSET Pending
            BY <1>1, <6>1, <6>2 DEF WorkInv
          <6>4. s \in S
            BY <1>1, <6>1, <6>2 DEF GateInv, ApplyStages
          <6> HIDE DEF S
          <6> QED
            BY <1>1, <4>2, <5>1, <6>1, <6>3, <6>4, CheckpointLearns
        <5>4. ~(StoreBatch /\ Applicable # <<>>)
          BY <4>2, BatchFacts
        <5> QED
          BY <1>1, <4>2, <5>2, <5>3, <5>4, PendStep
      <4>3. ASSUME NEW s \in Pending, rows[s].op = o, s \in Pending' PROVE rows'[s].op = o
        <5>1. s \in DOMAIN rows \cap DOMAIN rows'
          BY <4>3 DEF Pending
        <5> QED
          BY <1>1, <4>3, <5>1, RowStep
      <4> QED
        BY <1>1, <3>1, <3>3, <4>1, <4>2, <4>3
    <3> QED
      BY <3>4, <3>5
  <2> QED
    BY <2>1, <2>2
<1>7. ASSUME stage' = "loaded" PROVE cache'.clock \subseteq clock'
  <2>1. CASE Load
    BY <2>1 DEF Load
  <2>2. CASE ~Load
    <3>1. stage = "loaded"
      BY <1>7, <2>2, BootStep
    <3>2. cache' = cache
      BY <1>1, <3>1, CacheStep
    <3> QED
      BY <1>1, <2>2, <3>1, <3>2, ClockStays
  <2> QED
    BY <2>1, <2>2
<1> QED
  BY <1>5, <1>6, <1>7

(* With full-state operations: the cursor and the order of the pages tell. *)

\* r takes operations from the feed, in the feed's order.
InFeedOrder(r) ==
  \A k, l \in 1..Len(r) : k < l =>
    \A i, j \in DOMAIN Feed : Feed[i] = r[k] /\ Feed[j] = r[l] => i < j

\* Dropping elements keeps the feed's order.
LEMMA KeptInFeedOrder ==
  ASSUME NEW X, NEW s \in Seq(X), InFeedOrder(s), NEW T
  PROVE  InFeedOrder(Kept(s, T))
<1> DEFINE r == Kept(s, T)
<1>1. OrderOf(r, s, Len(s))
  BY KeptOrder
<1> HIDE DEF r
<1> SUFFICES ASSUME NEW k \in 1..Len(r), NEW l \in 1..Len(r), k < l, NEW i \in DOMAIN Feed, NEW j \in DOMAIN Feed,
                    Feed[i] = r[k], Feed[j] = r[l]
             PROVE  i < j
  BY DEF InFeedOrder, r
<1>2. PICK p, q \in 1..Len(s) : p < q /\ s[p] = r[k] /\ s[q] = r[l]
  BY <1>1 DEF OrderOf
<1> QED
  BY <1>2 DEF InFeedOrder

\* The import filter keeps it.
LEMMA AdmittedInFeedOrder ==
  ASSUME NEW m \in Nat \ {0}, NEW n \in 0..Len(Feed)
  PROVE  InFeedOrder(Admitted(SubSeq(Feed, m, n)))
<1> DEFINE s == SubSeq(Feed, m, n)
<1>1. /\ s \in Seq(Remote)
      /\ \A i \in 1..Len(s) : m + i - 1 \in m..n /\ s[i] = Feed[m + i - 1]
  BY FeedOf
<1>2. DOMAIN Feed = 1..Len(Feed) /\ Len(Feed) \in Nat /\ n \in Nat
      /\ \A i, j \in DOMAIN Feed : Feed[i] = Feed[j] => i = j
  BY OpsAssumption
<1> HIDE DEF s
<1>3. InFeedOrder(s)
  <2> SUFFICES ASSUME NEW k \in 1..Len(s), NEW l \in 1..Len(s), k < l, NEW i \in DOMAIN Feed, NEW j \in DOMAIN Feed,
                      Feed[i] = s[k], Feed[j] = s[l]
               PROVE  i < j
    BY DEF InFeedOrder
  <2> DEFINE p == m + k - 1
             q == m + l - 1
  <2>1. p \in m..n /\ q \in m..n /\ s[k] = Feed[p] /\ s[l] = Feed[q] /\ p < q
    BY <1>1
  <2> HIDE DEF p, q
  <2>2. p \in DOMAIN Feed /\ q \in DOMAIN Feed
    BY <1>2, <2>1
  <2> QED
    BY <1>2, <2>1, <2>2
<1>4. Admitted(s) = Kept(s, {s[i] : i \in {j \in DOMAIN s : s[j] \in Imports \/ j >= LastImport(s)}})
  BY DEF Admitted
<1>5. InFeedOrder(Admitted(s))
  BY <1>1, <1>3, <1>4, KeptInFeedOrder
<1> QED
  BY <1>5 DEF s

\* What a download stores is in the feed's order.
LEMMA ApplicableInFeedOrder ==
  ASSUME first \in Nat \ {0}, target \in 0..Len(Feed)
  PROVE  InFeedOrder(Applicable)
<1> DEFINE a == Admitted(SubSeq(Feed, first, target))
<1>1. InFeedOrder(a) /\ a \in Seq(Remote)
  BY AdmittedInFeedOrder, AdmittedOf
<1>2. News(target) = Kept(a, Op \ Ids)
  BY DEF News
<1> HIDE DEF a
<1>3. InFeedOrder(News(target)) /\ News(target) \in Seq(Remote)
  BY <1>1, <1>2, KeptInFeedOrder, NewsOf DEF Fresh
<1> QED
  BY <1>3, KeptInFeedOrder DEF Applicable

\* Downloads do not need it any more: the cursor has passed it, or a full-state operation
\* of the server's is behind it.
Behind(i) == i <= cursor \/ \E j \in (i + 1)..served : Feed[j] \in Imports

\* What is written and has no row is behind; so is what was skipped before a written one.
GoneInv == \A i \in DOMAIN Feed : Feed[i] \in DOMAIN logged \ Ids => Behind(i)
HoleInv == \A i, k \in DOMAIN Feed :
  i < k /\ Feed[k] \in DOMAIN logged /\ Feed[i] \notin DOMAIN logged => Behind(i)

\* What a download asks for has a row or is not written, and neither is what comes after it.
PageInv == stage \in {"paging", "flushed"} => \A i \in first..Len(Feed) :
  /\ Feed[i] \in DOMAIN logged => Feed[i] \in Ids
  /\ \A k \in (i + 1)..Len(Feed) : Feed[k] \in DOMAIN logged => Feed[i] \in DOMAIN logged

\* A full-state operation is behind in the log only of what it is behind of in the feed.
OrderInv == \A i, k \in DOMAIN Feed :
  /\ Feed[k] \in Imports \cap DOMAIN logged /\ Feed[i] \in DOMAIN logged
  /\ logged[Feed[k]] > logged[Feed[i]]
  => k > i

\* A download does not move the cursor back, and its rows stay until they are complete.
CursorInv ==
  /\ mode = "download" /\ stage \in ApplyStages \cup {"flushed", "advance"} => cursor <= target
  /\ mode = "download" /\ stage = "clear" => Batch \subseteq DOMAIN rows

PagesInv == CursorInv /\ (Imports # {} => GoneInv /\ HoleInv /\ PageInv /\ OrderInv)

\* The cursor does not go back, and the rows of a batch are there when it is marked.
LEMMA CursorStep == ASSUME Inv, BaseInv, CursorInv, Next PROVE CursorInv'
<1>1. /\ LogType /\ FeedType /\ WorkType /\ StageInv /\ WorkInv /\ UiType /\ LogInv /\ OwnInv
      /\ mode = "download" /\ stage \in ApplyStages \cup {"flushed", "advance"} => cursor <= target
      /\ mode = "download" /\ stage = "clear" => Batch \subseteq DOMAIN rows
  BY DEF Inv, BaseInv, CursorInv
<1> DEFINE S == ApplyStages \cup {"flushed", "advance"}
<1>2. ASSUME mode' = "download", stage' \in S PROVE cursor' <= target'
  <2>1. CASE LastPage
    <3>1. target' = served /\ cursor' = cursor
      BY <2>1 DEF LastPage, disk
    <3> QED
      BY <1>1, <3>1 DEF FeedType
  <2>2. CASE ~LastPage
    <3>1. mode = "download" /\ stage \in S /\ cursor' = cursor /\ target' = target
      <4>1. CASE Start
        BY <1>2, <4>1 DEF Start, Load, Replay, Settle, EndStart, Begin, Go, ApplyStages
      <4>2. CASE User
        BY <1>2, <4>2 DEF User, Dispatch, WriteCaptured, WriteLocal, LoseCaptured, WriteElsewhere, apply, disk
      <4>3. CASE Buffer
        BY <1>2, <4>3 DEF Buffer, WriteDeferred, WriteLocal, FailDeferred, apply, ApplyStages
      <4>4. CASE Publish
        BY <1>2, <4>4 DEF Publish, apply, disk
      <4>5. CASE Fetch
        <5>1. CASE StoreBatch
          <6>1. stage = "flushed" /\ mode' = mode /\ cursor' = cursor /\ target' = target
            BY <5>1 DEF StoreBatch
          <6> QED
            BY <1>2, <6>1
        <5>2. CASE Gate
          BY <1>2, <5>2 DEF Gate, Begin, ApplyStages
        <5> QED
          BY <1>2, <2>2, <4>5, <5>1, <5>2 DEF Fetch, Sync, FirstPage, Refuse, apply, disk, Go, ApplyStages
      <4>6. CASE Stage
        BY <1>2, <4>6 DEF Stage, MergeClocks, RunReducers, CommitReducers, Throw, Go, apply, disk, ApplyStages
      <4>7. CASE Effects
        BY <1>2, <4>7 DEF Effects, RunEffect, FailEffect, EndEffects, Go, apply, disk, ApplyStages
      <4>8. CASE Finish
        <5>1. CASE EndDrain
          BY <1>1, <1>2, <5>1 DEF EndDrain, disk, ApplyStages, WorkType
        <5> QED
          BY <1>2, <4>8, <5>1 DEF Finish, MarkApplied, ClearOlder, MarkFailed, Advance, Upload, Go, apply, disk, ApplyStages
      <4>9. CASE Compact
        BY <1>2, <4>9 DEF Compact, SaveSnapshot, DeleteOld, apply
      <4>10. CASE Crash
        BY <1>2, <4>10 DEF Crash
      <4> QED
        BY <4>1, <4>2, <4>3, <4>4, <4>5, <4>6, <4>7, <4>8, <4>9, <4>10 DEF Next
    <3> QED
      BY <1>1, <3>1
  <2> QED
    BY <2>1, <2>2
<1>3. ASSUME mode' = "download", stage' = "clear" PROVE Batch' \subseteq DOMAIN rows'
  <2>1. CASE MarkApplied
    <3>1. work' = work /\ stage = "mark" /\ DOMAIN rows' = DOMAIN rows
      BY <2>1 DEF MarkApplied, Go, apply, Marked
    <3>2. \A i \in 1..Len(work) : work[i] \in DOMAIN rows
      BY <1>1, <3>1 DEF WorkInv, Unfinished
    <3> QED
      BY <1>1, <3>1, <3>2, WorkSeq DEF Batch
  <2>2. CASE ~MarkApplied
    <3>1. stage = "clear" /\ mode = "download" /\ work' = work
      <4>1. CASE Start
        BY <1>3, <4>1 DEF Start, Load, Replay, Settle, EndStart, Begin, Go
      <4>2. CASE User
        BY <1>3, <4>2 DEF User, Dispatch, WriteCaptured, LoseCaptured, WriteElsewhere, apply
      <4>3. CASE Buffer
        BY <1>3, <4>3 DEF Buffer, WriteDeferred, FailDeferred, apply
      <4>4. CASE Publish \/ Crash
        BY <1>3, <4>4 DEF Publish, Crash, apply
      <4>5. CASE Fetch
        BY <1>3, <4>5 DEF Fetch, Sync, Gate, FirstPage, LastPage, Refuse, StoreBatch, Begin, Go
      <4>6. CASE Stage
        BY <1>3, <4>6 DEF Stage, MergeClocks, RunReducers, CommitReducers, Throw, Go
      <4>7. CASE Effects
        BY <1>3, <4>7 DEF Effects, RunEffect, FailEffect, EndEffects, Go
      <4>8. CASE Finish
        BY <1>3, <2>2, <4>8 DEF Finish, ClearOlder, MarkFailed, EndDrain, Advance, Upload, Go
      <4>9. CASE Compact
        BY <1>3, <4>9 DEF Compact, SaveSnapshot, DeleteOld, apply
      <4> QED
        BY <4>1, <4>2, <4>3, <4>4, <4>5, <4>6, <4>7, <4>8, <4>9 DEF Next
    <3>2. ~DeleteOld /\ ~ClearOlder /\ ~StoreBatch
      <4>1. DeleteOld => compacting
        BY DEF DeleteOld
      <4>2. ClearOlder => stage' = "quarantine"
        BY DEF ClearOlder, Go
      <4>3. StoreBatch => stage = "flushed"
        BY DEF StoreBatch
      <4> QED
        BY <1>1, <1>3, <3>1, <4>1, <4>2, <4>3 DEF StageInv, ApplyStages
    <3>3. \A o : Writes(o) => DOMAIN rows \subseteq DOMAIN rows'
      BY DEF Writes
    <3>4. KeepsRows => DOMAIN rows \subseteq DOMAIN rows'
      BY DEF KeepsRows
    <3>5. DOMAIN rows \subseteq DOMAIN rows'
      BY <1>1, <3>2, <3>3, <3>4, LogStep
    <3> QED
      BY <1>1, <3>1, <3>5 DEF Batch
  <2> QED
    BY <2>1, <2>2
<1> QED
  BY <1>2, <1>3 DEF CursorInv

\* What is behind stays behind.
LEMMA BehindGrows == ASSUME Inv, CursorInv, Next, NEW i \in Nat, Behind(i) PROVE Behind(i)'
<1>1. FeedType /\ Inv'
  BY NextInv DEF Inv
<1>2. served \in Nat /\ cursor \in Nat /\ served' \in Nat /\ cursor' \in Nat /\ served <= served'
  BY <1>1, ServedGrows DEF Inv, FeedType
<1>3. cursor <= cursor'
  <2>1. CASE Advance
    <3>1. stage = "advance" /\ cursor' = target
      BY <2>1 DEF Advance, Go
    <3> QED
      BY <3>1 DEF CursorInv, Inv, StageInv, BootStages, ApplyStages
  <2>2. CASE ~Advance
    <3>1. cursor' = cursor
      <4>1. CASE Start
        BY <4>1 DEF Start, Load, Replay, Settle, EndStart
      <4>2. CASE User
        BY <4>2 DEF User, Dispatch, WriteCaptured, WriteLocal, LoseCaptured, WriteElsewhere, disk
      <4>3. CASE Buffer
        BY <4>3 DEF Buffer, WriteDeferred, WriteLocal, FailDeferred, disk
      <4>4. CASE Publish \/ Crash
        BY <4>4 DEF Publish, Crash, disk
      <4>5. CASE Fetch
        BY <4>5 DEF Fetch, Sync, Gate, FirstPage, LastPage, Refuse, StoreBatch, disk
      <4>6. CASE Stage
        BY <4>6 DEF Stage, MergeClocks, RunReducers, CommitReducers, Throw, disk
      <4>7. CASE Effects
        BY <4>7 DEF Effects, RunEffect, FailEffect, EndEffects, disk
      <4>8. CASE Finish
        BY <2>2, <4>8 DEF Finish, MarkApplied, ClearOlder, MarkFailed, EndDrain, Upload, disk
      <4>9. CASE Compact
        BY <4>9 DEF Compact, SaveSnapshot, DeleteOld
      <4> QED
        BY <4>1, <4>2, <4>3, <4>4, <4>5, <4>6, <4>7, <4>8, <4>9 DEF Next
    <3> QED
      BY <1>2, <3>1
  <2> QED
    BY <2>1, <2>2
<1>4. i <= cursor => i <= cursor'
  BY <1>2, <1>3
<1>5. \A j \in (i + 1)..served : j \in (i + 1)..served'
  BY <1>2
<1> QED
  BY <1>4, <1>5 DEF Behind

\* Where a written operation is changes only when it is downloaded again.
LEMMA LoggedStays ==
  ASSUME Inv, OwnInv, Next, NEW o \in DOMAIN logged
  PROVE  logged'[o] = logged[o] \/ (StoreBatch /\ \E k \in 1..Len(Applicable) : Applicable[k] = o)
<1>1. LogType /\ LogInv /\ UiType /\ KnowType
  BY DEF Inv
<1>2. CASE KeepsRows
  BY <1>2 DEF KeepsRows
<1>3. ASSUME NEW S, Deletes(S) PROVE logged' = logged
  BY <1>3 DEF Deletes
<1>4. DeleteOld => logged' = logged
  BY DEF DeleteOld
<1>5. ASSUME NEW p, p \notin DOMAIN logged, Writes(p) PROVE logged'[o] = logged[o]
  BY <1>5 DEF Writes
<1>6. ASSUME StoreBatch, Applicable # <<>>
      PROVE  logged'[o] = logged[o] \/ \E k \in 1..Len(Applicable) : Applicable[k] = o
  <2> DEFINE a == Applicable
  <2>1. Appends(a)
    BY <1>6, BatchFacts
  <2> HIDE DEF a
  <2>2. logged'[o] = logged[o] \/ \E k \in 1..Len(a) : a[k] = o
    BY <2>1 DEF Appends
  <2> QED
    BY <2>2 DEF a
<1> QED
  BY <1>1, <1>2, <1>3, <1>4, <1>5, <1>6, LogStep

\* What a download stores is news.
LEMMA PageFresh ==
  ASSUME Inv, PageInv, stage = "flushed", NEW k \in 1..Len(Applicable)
  PROVE  Applicable[k] \notin DOMAIN logged
<1>1. /\ first \in Nat \ {0} /\ target \in 0..Len(Feed) /\ DOMAIN Feed = 1..Len(Feed) /\ Len(Feed) \in Nat
      /\ target \in Nat
  BY OpsAssumption DEF Inv, FeedType
<1>2. PICK i \in first..target : i \in DOMAIN Feed /\ Feed[i] = Applicable[k]
  BY BatchSource
<1>3. Applicable[k] \notin Ids
  BY <1>1, ApplicableOf DEF Fresh
<1>4. i \in first..Len(Feed)
  BY <1>1, <1>2
<1> QED
  BY <1>2, <1>3, <1>4 DEF PageInv

\* The cursor and the order of the pages, together.
LEMMA PagesStep == ASSUME Regular, Inv, BaseInv, PagesInv, Next PROVE PagesInv'
<1>1. /\ LogType /\ LogInv /\ FeedType /\ KnowType /\ UiType /\ WorkType /\ StageInv /\ WorkInv /\ FirstInv
      /\ OwnInv /\ OnceInv /\ LearnInv /\ FeedInv /\ BatchInv /\ CursorInv /\ CursorInv'
  BY CursorStep DEF Inv, BaseInv, PagesInv
<1> SUFFICES ASSUME Imports # {} PROVE GoneInv' /\ HoleInv' /\ PageInv' /\ OrderInv'
  BY <1>1 DEF PagesInv
<1>2. GoneInv /\ HoleInv /\ PageInv /\ OrderInv /\ "stall" \notin Events
  BY DEF PagesInv, Regular
<1>3. /\ DOMAIN Feed = 1..Len(Feed) /\ Len(Feed) \in Nat /\ cursor \in Nat /\ served \in Nat /\ served <= Len(Feed)
      /\ first \in Nat \ {0} /\ target \in 0..Len(Feed) /\ target \in Nat /\ target <= served
      /\ nextSeq \in Nat /\ \A i, j \in DOMAIN Feed : Feed[i] = Feed[j] => i = j
  BY <1>1, OpsAssumption DEF FeedType, LogType
<1>4. ASSUME NEW i \in DOMAIN Feed, Behind(i) PROVE Behind(i)'
  BY <1>1, <1>3, <1>4, BehindGrows
<1>5. ASSUME NEW i \in DOMAIN Feed, Feed[i] \in DOMAIN logged', Feed[i] \notin DOMAIN logged
      PROVE  StoreBatch /\ Applicable # <<>> /\ \E k \in 1..Len(Applicable) : Applicable[k] = Feed[i]
  <2>1. Feed[i] \notin Local
    BY <1>5, OpsAssumption DEF Remote
  <2> QED
    BY <1>1, <1>5, <2>1, LoggedGrows
\* A download drops an operation of the feed only if it has it or a later one replaces it.
<1>6. ASSUME StoreBatch, NEW i \in first..target, Feed[i] \notin DOMAIN logged
      PROVE  Behind(i) \/ \E k \in 1..Len(Applicable) : Applicable[k] = Feed[i]
  <2>1. Feed[i] \notin Ids
    BY <1>1, <1>6 DEF LogInv, Ids
  <2>2. CASE \E k \in 1..Len(News(target)) : News(target)[k] = Feed[i]
    <3>1. Feed[i] \notin cache.clock
      BY <1>1, <1>6 DEF LearnInv
    <3> QED
      BY <1>3, <2>2, <3>1, ApplicableOf
  <2>3. CASE \E j \in (i + 1)..target : Feed[j] \in Imports
    <3>1. \A j \in (i + 1)..target : j \in (i + 1)..served
      BY <1>3
    <3> QED
      BY <2>3, <3>1 DEF Behind
  <2> QED
    BY <1>3, <2>1, <2>2, <2>3, NewsOf
<1>7. ASSUME StoreBatch, NEW i \in DOMAIN Feed, i < first PROVE Behind(i)
  <2>1. stage = "flushed"
    BY <1>7 DEF StoreBatch
  <2>2. first = cursor + 1 \/ (first \in (cursor + 1)..target /\ Feed[first] \in Imports)
    BY <1>1, <2>1 DEF FirstInv
  <2>3. CASE first = cursor + 1
    BY <1>3, <1>7, <2>3 DEF Behind
  <2>4. CASE first \in (cursor + 1)..target /\ Feed[first] \in Imports
    <3>1. first \in (i + 1)..served
      BY <1>3, <1>7, <2>4
    <3> QED
      BY <2>4, <3>1 DEF Behind
  <2> QED
    BY <2>2, <2>3, <2>4
<1>8. ASSUME NEW i \in DOMAIN Feed, Feed[i] \in Ids, Feed[i] \notin Ids'
      PROVE  Behind(i) /\ (i <= cursor \/ ClearOlder)
  <2>1. PICK s \in DOMAIN rows : rows[s].op = Feed[i]
    BY <1>8 DEF Ids
  <2>2. s \notin DOMAIN rows'
    <3> SUFFICES ASSUME s \in DOMAIN rows' PROVE FALSE
      OBVIOUS
    <3>1. rows'[s].op = Feed[i]
      BY <1>1, <2>1, RowStep
    <3> QED
      BY <1>8, <3>1 DEF Ids
  <2>3. CASE DeleteOld
    <3>1. PICK S \in SUBSET (DOMAIN rows) :
            /\ Deletes(S)
            /\ \A t \in S : "stall" \in Events \/ \A j \in (cursor + 1)..Len(Feed) : Feed[j] # rows[t].op
      BY <1>1, <2>3, DeleteOldOf
    <3>2. s \in S
      BY <2>2, <3>1 DEF Deletes
    <3>3. ~(i \in (cursor + 1)..Len(Feed))
      BY <1>2, <2>1, <3>1, <3>2
    <3>4. i <= cursor
      BY <1>3, <3>3
    <3> QED
      BY <3>4 DEF Behind
  <2>4. CASE ClearOlder /\ Deletes(Older) /\ mode = "download" /\ \E t \in Finished : rows[t].op \in Imports
    <3>1. PICK t \in Finished : rows[t].op \in Imports
      BY <2>4
    <3>2. stage = "clear"
      BY <2>4 DEF ClearOlder, Go
    <3>3. t \in Batch
      BY <1>1, <3>1, WorkSeq DEF Finished, Batch, WorkType
    <3>4. t \in DOMAIN rows
      BY <1>1, <2>4, <3>2, <3>3 DEF CursorInv
    <3>5. s \in Older
      BY <2>1, <2>2, <2>4 DEF Deletes
    <3>6. s < t
      BY <1>1, <2>4, <3>2, <3>3, <3>5 DEF BatchInv, Older, ApplyStages
    <3>7. logged[rows[t].op] = t /\ logged[rows[s].op] = s /\ rows[t].op \in DOMAIN logged /\ rows[s].op \in DOMAIN logged
      BY <1>1, <2>1, <3>4 DEF OnceInv, LogInv
    <3>8. PICK k \in DOMAIN Feed : Feed[k] = rows[t].op
      BY <3>1, ReducerAssumption DEF Remote
    <3>9. logged[Feed[k]] > logged[Feed[i]]
      BY <2>1, <3>6, <3>7, <3>8, <1>1, <3>4 DEF LogType
    <3>10. k > i /\ k <= served
      BY <1>1, <1>2, <2>1, <3>1, <3>7, <3>8, <3>9 DEF OrderInv, FeedInv
    <3>11. k \in (i + 1)..served
      BY <1>3, <3>10
    <3> QED
      BY <2>4, <3>1, <3>8, <3>11 DEF Behind
  <2>5. KeepsRows => DOMAIN rows \subseteq DOMAIN rows'
    BY DEF KeepsRows
  <2>6. \A o : Writes(o) => DOMAIN rows \subseteq DOMAIN rows'
    BY DEF Writes
  <2>7. StoreBatch /\ Applicable # <<>> => DOMAIN rows \subseteq DOMAIN rows'
    BY BatchFacts DEF Appends
  <2> QED
    BY <1>1, <2>1, <2>2, <2>3, <2>4, <2>5, <2>6, <2>7, LogStep
<1>9. GoneInv'
  <2> SUFFICES ASSUME NEW i \in DOMAIN Feed, Feed[i] \in DOMAIN logged', Feed[i] \notin Ids' PROVE Behind(i)'
    BY DEF GoneInv
  <2>1. CASE Feed[i] \notin DOMAIN logged
    <3> DEFINE a == Applicable
    <3>1. StoreBatch /\ Applicable # <<>> /\ \E k \in 1..Len(a) : a[k] = Feed[i]
      BY <1>5, <2>1
    <3>2. PICK k \in 1..Len(a) : a[k] = Feed[i]
      BY <3>1
    <3>3. Appends(a) /\ Len(a) \in Nat
      BY <3>1, BatchFacts
    <3> HIDE DEF a
    <3> DEFINE s == nextSeq + k - 1
    <3>4. s \in nextSeq..(nextSeq + Len(a) - 1)
      BY <1>3, <3>3
    <3>5. rows'[s].op = Feed[i] /\ s \in DOMAIN rows'
      BY <3>2, <3>3, <3>4 DEF Appends
    <3> HIDE DEF s
    <3>6. Feed[i] \in Ids'
      BY <3>5 DEF Ids
    <3> QED
      BY <3>6
  <2>2. CASE Feed[i] \in DOMAIN logged \ Ids
    BY <1>2, <1>4, <2>2 DEF GoneInv
  <2>3. CASE Feed[i] \in Ids
    BY <1>4, <1>8, <2>3
  <2> QED
    BY <2>1, <2>2, <2>3
<1>10. HoleInv'
  <2> SUFFICES ASSUME NEW i \in DOMAIN Feed, NEW k \in DOMAIN Feed, i < k, Feed[k] \in DOMAIN logged',
                      Feed[i] \notin DOMAIN logged'
               PROVE  Behind(i)'
    BY DEF HoleInv
  <2>1. Feed[i] \notin DOMAIN logged
    BY <1>1, LoggedGrows
  <2>2. CASE Feed[k] \in DOMAIN logged
    BY <1>2, <1>4, <2>1, <2>2 DEF HoleInv
  <2>3. CASE Feed[k] \notin DOMAIN logged
    <3>1. StoreBatch /\ Applicable # <<>> /\ \E l \in 1..Len(Applicable) : Applicable[l] = Feed[k]
      BY <1>5, <2>3
    <3>2. PICK j \in first..target : j \in DOMAIN Feed /\ Feed[j] = Feed[k]
      BY <3>1, BatchSource
    <3>3. k \in first..target
      BY <1>3, <3>2
    <3>4. CASE i < first
      BY <1>4, <1>7, <3>1, <3>4
    <3>5. CASE ~(i < first)
      <4>1. i \in first..target
        BY <1>3, <3>3, <3>5
      <4>2. \A l \in 1..Len(Applicable) : Applicable[l] # Feed[i]
        <5> DEFINE a == Applicable
        <5>1. Appends(a)
          BY <3>1, BatchFacts
        <5> HIDE DEF a
        <5>2. \A l \in 1..Len(a) : a[l] \in DOMAIN logged'
          BY <5>1 DEF Appends
        <5> QED
          BY <5>2 DEF a
      <4> QED
        BY <1>4, <1>6, <2>1, <3>1, <4>1, <4>2
    <3> QED
      BY <3>4, <3>5
  <2> QED
    BY <2>2, <2>3
<1>11. PageInv'
  <2> SUFFICES ASSUME stage' \in {"paging", "flushed"}, NEW i \in first'..Len(Feed)
               PROVE  /\ Feed[i] \in DOMAIN logged' => Feed[i] \in Ids'
                      /\ \A k \in (i + 1)..Len(Feed) : Feed[k] \in DOMAIN logged' => Feed[i] \in DOMAIN logged'
    BY DEF PageInv
  <2>1. CASE FirstPage
    <3> DEFINE s == SubSeq(Feed, 1, served)
               li == LastImport(s)
    <3>1. /\ first' = (IF li > cursor THEN li ELSE cursor + 1)
          /\ UNCHANGED <<rows, logged>>
      BY <2>1 DEF FirstPage, disk
    <3>2. s \in Seq(Remote) /\ Len(s) = served /\ \A j \in 1..Len(s) : s[j] = Feed[j]
      BY <1>3, FeedOf
    <3> HIDE DEF s
    <3>3. li \in 0..served /\ \A j \in 1..served : Feed[j] \in Imports => j <= li
      BY <3>2, LastImportOf
    <3> HIDE DEF li
    <3>4. i \in DOMAIN Feed /\ i > cursor /\ i >= li /\ i \in Nat
      BY <1>3, <3>1, <3>3
    <3>5. ~Behind(i)
      <4>1. ~(i <= cursor)
        BY <1>3, <3>4
      <4>2. ASSUME NEW j \in (i + 1)..served PROVE Feed[j] \notin Imports
        <5>1. j \in 1..served /\ ~(j <= li)
          BY <1>3, <3>3, <3>4
        <5> QED
          BY <3>3, <5>1
      <4> QED
        BY <4>1, <4>2 DEF Behind
    <3>6. Ids' = Ids
      BY <3>1 DEF Ids
    <3>7. Feed[i] \in DOMAIN logged => Feed[i] \in Ids
      BY <1>2, <3>4, <3>5 DEF GoneInv
    <3>8. ASSUME NEW k \in (i + 1)..Len(Feed), Feed[k] \in DOMAIN logged PROVE Feed[i] \in DOMAIN logged
      <4>1. k \in DOMAIN Feed /\ i < k
        BY <1>3, <3>4
      <4> QED
        BY <1>2, <3>4, <3>5, <3>8, <4>1 DEF HoleInv
    <3> QED
      BY <3>1, <3>6, <3>7, <3>8
  <2>2. CASE ~FirstPage
    <3>1. stage \in {"paging", "flushed"} /\ first' = first /\ ~StoreBatch
      <4>1. CASE Start
        BY <4>1 DEF Start, Load, Replay, Settle, EndStart, Begin, Go
      <4>2. CASE User
        BY <4>2 DEF User, Dispatch, WriteCaptured, LoseCaptured, WriteElsewhere, apply, StoreBatch
      <4>3. CASE Buffer
        BY <4>3 DEF Buffer, WriteDeferred, FailDeferred, apply
      <4>4. CASE Publish \/ Crash
        BY <4>4 DEF Publish, Crash, apply, StoreBatch
      <4>5. CASE Fetch
        BY <2>2, <4>5 DEF Fetch, Sync, Gate, LastPage, Refuse, StoreBatch, Begin, Go
      <4>6. CASE Stage
        BY <4>6 DEF Stage, MergeClocks, RunReducers, CommitReducers, Throw, Go
      <4>7. CASE Effects
        BY <4>7 DEF Effects, RunEffect, FailEffect, EndEffects, Go
      <4>8. CASE Finish
        BY <4>8 DEF Finish, MarkApplied, ClearOlder, MarkFailed, EndDrain, Advance, Upload, Go
      <4>9. CASE Compact
        BY <4>9 DEF Compact, SaveSnapshot, DeleteOld, apply, StoreBatch
      <4> QED
        BY <4>1, <4>2, <4>3, <4>4, <4>5, <4>6, <4>7, <4>8, <4>9 DEF Next
    <3>2. first > cursor
      BY <1>1, <1>3, <3>1 DEF FirstInv
    <3>3. i \in DOMAIN Feed /\ ~(i <= cursor) /\ i \in first..Len(Feed)
      BY <1>3, <3>1, <3>2
    <3>4. ~ClearOlder
      BY <3>1 DEF ClearOlder, Go
    <3>5. \A j \in DOMAIN Feed : Feed[j] \in DOMAIN logged' => Feed[j] \in DOMAIN logged
      BY <1>5, <3>1
    <3>6. DOMAIN logged \subseteq DOMAIN logged'
      BY <1>1, LoggedGrows
    <3>7. Feed[i] \in Ids => Feed[i] \in Ids'
      BY <1>8, <3>3, <3>4
    <3>8. \A k \in (i + 1)..Len(Feed) : k \in DOMAIN Feed
      BY <1>3, <3>3
    <3> QED
      BY <1>2, <3>1, <3>3, <3>5, <3>6, <3>7, <3>8 DEF PageInv
  <2> QED
    BY <2>1, <2>2
<1>12. OrderInv'
  <2> SUFFICES ASSUME NEW i \in DOMAIN Feed, NEW k \in DOMAIN Feed, Feed[k] \in Imports, Feed[k] \in DOMAIN logged',
                      Feed[i] \in DOMAIN logged', logged'[Feed[k]] > logged'[Feed[i]]
               PROVE  k > i
    BY DEF OrderInv
  <2>1. \A o \in DOMAIN logged : logged[o] \in Nat /\ logged[o] < nextSeq
    BY <1>1 DEF LogType
  <2>2. CASE ~StoreBatch
    <3>1. Feed[k] \in DOMAIN logged /\ Feed[i] \in DOMAIN logged
      BY <1>5, <2>2
    <3>2. logged'[Feed[k]] = logged[Feed[k]] /\ logged'[Feed[i]] = logged[Feed[i]]
      BY <1>1, <2>2, <3>1, LoggedStays
    <3> QED
      BY <1>2, <3>1, <3>2 DEF OrderInv
  <2>3. CASE StoreBatch
    <3> DEFINE a == Applicable
    <3>1. stage = "flushed"
      BY <2>3 DEF StoreBatch
    <3>2. \A l \in 1..Len(a) : a[l] \notin DOMAIN logged
      BY <1>2, <3>1, PageFresh
    <3>3. \A o \in DOMAIN logged : logged'[o] = logged[o]
      BY <1>1, <3>2, LoggedStays
    <3>4. InFeedOrder(a)
      BY <1>3, ApplicableInFeedOrder
    <3>5. a # <<>> => Appends(a) /\ Len(a) \in Nat
      BY <2>3, BatchFacts
    <3>6. \A j \in DOMAIN Feed : Feed[j] \in DOMAIN logged' /\ Feed[j] \notin DOMAIN logged
            => a # <<>> /\ \E l \in 1..Len(a) : a[l] = Feed[j]
      BY <1>5
    <3>7. \A l \in 1..Len(a) : \E j \in first..target : j \in DOMAIN Feed /\ Feed[j] = a[l]
      BY BatchSource
    <3> HIDE DEF a
    <3>8. CASE Feed[k] \in DOMAIN logged /\ Feed[i] \in DOMAIN logged
      BY <1>2, <3>3, <3>8 DEF OrderInv
    <3>9. CASE Feed[k] \in DOMAIN logged /\ Feed[i] \notin DOMAIN logged
      <4>1. PICK l \in 1..Len(a) : a[l] = Feed[i]
        BY <3>6, <3>9
      <4>2. a # <<>>
        BY <3>6, <3>9
      <4>3. logged'[Feed[i]] = nextSeq + l - 1
        BY <3>5, <4>1, <4>2 DEF Appends
      <4>4. logged'[Feed[k]] < nextSeq /\ logged'[Feed[k]] \in Nat
        BY <2>1, <3>3, <3>9
      <4> QED
        BY <1>3, <3>5, <4>1, <4>2, <4>3, <4>4
    <3>10. CASE Feed[k] \notin DOMAIN logged /\ Feed[i] \in DOMAIN logged
      <4>1. PICK l \in 1..Len(a) : a[l] = Feed[k]
        BY <3>6, <3>10
      <4>2. PICK j \in first..target : j \in DOMAIN Feed /\ Feed[j] = Feed[k]
        BY <3>7, <4>1
      <4>3. k = j
        BY <1>3, <4>2
      <4>4. k \in first..Len(Feed)
        BY <1>3, <4>2, <4>3
      <4>5. ~(i \in (k + 1)..Len(Feed))
        BY <1>2, <3>1, <3>10, <4>4 DEF PageInv
      <4>6. i # k
        BY <3>10
      <4> QED
        BY <1>3, <4>5, <4>6
    <3>11. CASE Feed[k] \notin DOMAIN logged /\ Feed[i] \notin DOMAIN logged
      <4>1. PICK l \in 1..Len(a) : a[l] = Feed[k]
        BY <3>6, <3>11
      <4>2. PICK m \in 1..Len(a) : a[m] = Feed[i]
        BY <3>6, <3>11
      <4>3. a # <<>>
        BY <3>6, <3>11
      <4>4. logged'[Feed[k]] = nextSeq + l - 1 /\ logged'[Feed[i]] = nextSeq + m - 1
        BY <3>5, <4>1, <4>2, <4>3 DEF Appends
      <4>5. m < l
        BY <1>3, <3>5, <4>3, <4>4
      <4>6. i < k
        BY <3>4, <4>1, <4>2, <4>5 DEF InFeedOrder
      <4> QED
        BY <1>3, <4>6
    <3> QED
      BY <3>8, <3>9, <3>10, <3>11
  <2> QED
    BY <2>2, <2>3
<1> QED
  BY <1>9, <1>10, <1>11, <1>12

\* What a download stores has no effect yet.
LEMMA FreshBatch ==
  ASSUME Regular, Inv, BaseInv, CoveredInv, PagesInv, stage = "flushed", NEW k \in 1..Len(Applicable)
  PROVE  Applicable[k] \notin DOMAIN logged \ Broken
<1>1. /\ first \in Nat \ {0} /\ target \in 0..Len(Feed) /\ Inv /\ PagesInv
  BY OpsAssumption DEF Inv, FeedType
<1>2. CASE Imports # {}
  BY <1>1, <1>2, PageFresh DEF PagesInv
<1>3. CASE Imports = {}
  <2> DEFINE a == Applicable
             w == News(target)
  <2>1. Fresh(w) /\ Fresh(a)
    BY <1>1, NewsOf, ApplicableOf
  <2>2. LastImport(w) = 0
    <3> HIDE DEF w
    <3>1. w \in Seq(Remote)
      BY <2>1 DEF Fresh
    <3> QED
      BY <1>3, <3>1, LastImportOf
  <2>3. a = Kept(w, Op \ cache.clock)
    BY <2>2 DEF Applicable
  <2> HIDE DEF a, w
  <2>4. w \in Seq(Remote)
    BY <2>1 DEF Fresh
  <2>5. KeepsOf(a, w, Remote, Op \ cache.clock, Len(w))
    BY <2>3, <2>4, KeptOf
  <2>6. k \in 1..Len(a)
    BY DEF a
  <2>7. a[k] \notin cache.clock /\ a[k] \notin Ids /\ a[k] \in Remote
    BY <2>1, <2>5, <2>6 DEF KeepsOf, Fresh
  <2>8. a[k] \notin Downloaded
    BY <1>3, <2>7 DEF CoveredInv, Ids
  <2> QED
    BY <2>7, <2>8 DEF a, Downloaded
<1> QED
  BY <1>2, <1>3

\* What is in effect once the operations of a are written.
LEMMA HoldsAfter ==
  ASSUME LogType, NEW a \in Seq(Op), \A i, j \in 1..Len(a) : a[i] = a[j] => i = j, Appends(a),
         \A k \in 1..Len(a) : a[k] \notin DOMAIN logged \ Broken, NEW o \in Op
  PROVE  /\ Holds(o)' <=> \/ o \notin Broken /\ \E i \in 1..Len(a) : a[i] = o /\ i >= LastImport(a)
                          \/ LastImport(a) = 0 /\ Holds(o)
         /\ (\E i \in 1..Len(a) : a[i] = o) => ~Holds(o)
<1> DEFINE n == LastImport(a)
<1>1. /\ n \in 0..Len(a) /\ (\A i \in 1..Len(a) : a[i] \in Imports => i <= n) /\ (n # 0 => a[n] \in Imports)
      /\ Len(a) \in Nat /\ \A i \in 1..Len(a) : a[i] \in Op
  BY LastImportOf
<1> HIDE DEF n
<1>2. nextSeq \in Nat /\ \A p \in DOMAIN logged : logged[p] \in Nat /\ logged[p] < nextSeq
  BY DEF LogType
<1>3. /\ \A i \in 1..Len(a) : logged'[a[i]] = nextSeq + i - 1
      /\ DOMAIN logged' = DOMAIN logged \cup {a[i] : i \in 1..Len(a)}
      /\ \A p \in DOMAIN logged : (\A i \in 1..Len(a) : a[i] # p) => logged'[p] = logged[p]
  BY DEF Appends
<1>4. Imports \cap Broken = {}
  BY ReducerAssumption
<1>5. (\E i \in 1..Len(a) : a[i] = o) => ~Holds(o)
  BY DEF Holds
<1>6. ASSUME NEW i \in 1..Len(a), a[i] = o, o \notin Broken
      PROVE  Holds(o)' <=> i >= n
  <2>1. o \in DOMAIN logged' /\ logged'[o] = nextSeq + i - 1
    BY <1>3, <1>6
  <2>2. Holds(o)' <=> \A g \in Imports \cap DOMAIN logged' : logged'[g] <= logged'[o]
    BY <1>6, <2>1 DEF Holds
  <2>3. ASSUME i >= n, NEW g \in Imports \cap DOMAIN logged' PROVE logged'[g] <= logged'[o]
    <3>1. CASE \E j \in 1..Len(a) : a[j] = g
      <4>1. PICK j \in 1..Len(a) : a[j] = g
        BY <3>1
      <4>2. j <= n /\ logged'[g] = nextSeq + j - 1
        BY <1>1, <1>3, <2>3, <4>1
      <4> QED
        BY <1>1, <1>2, <2>1, <2>3, <4>2
    <3>2. CASE \A j \in 1..Len(a) : a[j] # g
      <4>1. logged'[g] = logged[g] /\ g \in DOMAIN logged
        BY <1>3, <3>2
      <4> QED
        BY <1>1, <1>2, <2>1, <4>1
    <3> QED
      BY <3>1, <3>2
  <2>4. ASSUME ~(i >= n) PROVE ~Holds(o)'
    <3>1. n \in 1..Len(a) /\ a[n] \in Imports
      BY <1>1, <2>4
    <3>2. a[n] \in DOMAIN logged' /\ logged'[a[n]] = nextSeq + n - 1
      BY <1>3, <3>1
    <3>3. ~(logged'[a[n]] <= logged'[o])
      BY <1>1, <1>2, <2>1, <2>4, <3>2
    <3> QED
      BY <2>2, <3>1, <3>2, <3>3
  <2> QED
    BY <2>2, <2>3, <2>4
<1>7. ASSUME \A i \in 1..Len(a) : a[i] # o
      PROVE  Holds(o)' <=> n = 0 /\ Holds(o)
  <2>1. o \in DOMAIN logged' <=> o \in DOMAIN logged
    BY <1>3, <1>7
  <2>2. o \in DOMAIN logged => logged'[o] = logged[o]
    BY <1>3, <1>7
  <2>3. \A g \in Imports \cap DOMAIN logged : logged'[g] = logged[g] /\ g \in DOMAIN logged'
    <3> SUFFICES ASSUME NEW g \in Imports \cap DOMAIN logged PROVE logged'[g] = logged[g] /\ g \in DOMAIN logged'
      OBVIOUS
    <3>1. \A i \in 1..Len(a) : a[i] # g
      BY <1>4
    <3> QED
      BY <1>3, <3>1
  <2>4. CASE n = 0
    <3>1. \A g \in Imports : g \in DOMAIN logged' => g \in DOMAIN logged
      BY <1>1, <1>3, <2>4
    <3> QED
      BY <2>1, <2>2, <2>3, <2>4, <3>1 DEF Holds
  <2>5. CASE n # 0
    <3>1. n \in 1..Len(a) /\ a[n] \in Imports
      BY <1>1, <2>5
    <3>2. a[n] \in DOMAIN logged' /\ logged'[a[n]] = nextSeq + n - 1
      BY <1>3, <3>1
    <3>3. o \in DOMAIN logged => ~(logged'[a[n]] <= logged'[o])
      BY <1>1, <1>2, <2>2, <3>1, <3>2
    <3> QED
      BY <2>1, <2>5, <3>1, <3>2, <3>3 DEF Holds
  <2> QED
    BY <2>4, <2>5
<1>8. CASE o \in Broken
  <2>1. ~Holds(o)' /\ ~Holds(o)
    BY <1>8 DEF Holds
  <2> QED
    BY <1>8, <2>1
<1>9. CASE o \notin Broken /\ \E i \in 1..Len(a) : a[i] = o
  <2>1. PICK i \in 1..Len(a) : a[i] = o
    BY <1>9
  <2>2. \A j \in 1..Len(a) : a[j] = o => j = i
    BY <2>1
  <2> QED
    BY <1>5, <1>6, <1>9, <2>1, <2>2 DEF n
<1>10. CASE \A i \in 1..Len(a) : a[i] # o
  BY <1>7, <1>10 DEF n
<1> QED
  BY <1>8, <1>9, <1>10

\* What the log was up to its last row so far, it stays.
LEMMA InEffectAfter ==
  ASSUME LogType, NEW a \in Seq(Op), Appends(a), \A k \in 1..Len(a) : a[k] \notin DOMAIN logged \ Broken,
         NEW b \in Nat, b < nextSeq, NEW o \in Op
  PROVE  InEffect(o, b)' <=> InEffect(o, b)
<1>1. nextSeq \in Nat /\ Len(a) \in Nat /\ \A p \in DOMAIN logged : logged[p] \in Nat /\ logged[p] < nextSeq
  BY DEF LogType
<1>2. /\ \A i \in 1..Len(a) : logged'[a[i]] = nextSeq + i - 1
      /\ DOMAIN logged' = DOMAIN logged \cup {a[i] : i \in 1..Len(a)}
      /\ \A p \in DOMAIN logged : (\A i \in 1..Len(a) : a[i] # p) => logged'[p] = logged[p]
  BY DEF Appends
<1>3. \A i \in 1..Len(a) : ~(logged'[a[i]] <= b)
  <2> TAKE i \in 1..Len(a)
  <2>1. i \in Nat /\ i >= 1
    BY <1>1
  <2>2. logged'[a[i]] = nextSeq + i - 1
    BY DEF Appends
  <2> QED
    BY <1>1, <2>1, <2>2
<1>4. ASSUME NEW p \in DOMAIN logged \ Broken PROVE logged'[p] = logged[p] /\ p \in DOMAIN logged'
  BY <1>2
<1>5. ASSUME NEW p \in DOMAIN logged', p \notin Broken, logged'[p] <= b
      PROVE  p \in DOMAIN logged /\ logged'[p] = logged[p]
  BY <1>2, <1>3, <1>5
<1>6. \A i \in Imports : i \notin Broken
  BY ReducerAssumption
<1> QED
  BY <1>4, <1>5, <1>6 DEF InEffect

(* What is on the screen *)

\* The user's action is on the screen and not written yet, or its write failed.
Excused(o) == o \in OwnOps \ DOMAIN logged /\ (o \in Waiting \/ lost) /\ live[o] = 1

\* The other tab's operation is in the log behind the snapshot, where this tab does not
\* take its state for complete.
Unseen(o) ==
  /\ o \in TabOps /\ live[o] = 0 /\ Holds(o) /\ o \in Ids
  /\ foreign \/ logged[o] > frontier
  /\ logged[o] > cache.anchor

Exact(o) == live[o] = IF Holds(o) THEN 1 ELSE 0
Shows(o) == Exact(o) \/ Excused(o) \/ Unseen(o)

ScreenInv ==
  /\ \A o \in Op : live[o] <= 1
  /\ \A o \in Broken : live[o] = 0
  /\ \A o \in OwnOps : o > nextOwn => live[o] = 0
  /\ \A o \in Waiting : live[o] = 1
  /\ \A o \in Op \ OwnOps : live[o] > 0 => o \in DOMAIN logged
  /\ stage \in {"stored", "informed"} => \A s \in Batch : live[rows[s].op] = 0

\* While a batch is stored and not applied, it is all that the screen misses.
MissesBatch ==
  IF FullState
  THEN Waiting = {} /\ \A o \in Op : Holds(o) <=> Effective(o, Batch)
  ELSE \A o \in Op : IF \E s \in Batch : rows[s].op = o THEN o \in Broken \/ Holds(o) ELSE Shows(o)

LiveInv ==
  /\ stage = "loaded" => live = cache.state
  /\ stage = "replayed" => \A o \in Op : Exact(o)
  /\ stage \notin {"off", "loaded"} /\ (Pending = {} \/ stage = "reduced") => \A o \in Op : Shows(o)
  /\ stage \in {"stored", "informed"} => MissesBatch

StateInv == CoveredInv /\ PagesInv /\ SnapInv /\ ScreenInv /\ LiveInv

-----------------------------------------------------------------------------
(* The snapshot *)

\* The guard of a snapshot finds every write of the other tab.
LEMMA NothingUnseen ==
  ASSUME Regular, Inv, BaseInv, SaveSafe(LastSeq), stage \notin {"off", "loaded", "replayed"}, NEW o
  PROVE  ~Unseen(o)
<1> SUFFICES ASSUME Unseen(o) PROVE FALSE
  OBVIOUS
<1>1. LogType /\ KnowType /\ OnceInv /\ FrontInv /\ TabInv /\ Anchored \in Nat
  BY BoundAssumption DEF Inv, BaseInv
<1>2. o \in TabOps /\ o \in DOMAIN logged /\ o \in Ids /\ (foreign \/ logged[o] > frontier)
  BY DEF Unseen, Holds
<1>3. Anchored > 0
  BY <1>1, <1>2 DEF TabInv, Regular
<1>4. frontier >= cache.anchor /\ cache.anchor > 0 /\ frontier \in Nat /\ cache.anchor \in Nat
  BY <1>1, <1>3 DEF FrontInv, KnowType, LogType, Snapshot
<1>5. ~foreign /\ frontier = LastSeq
  BY <1>4 DEF SaveSafe
<1>6. PICK s \in DOMAIN rows : rows[s].op = o
  BY <1>2 DEF Ids
<1>7. logged[o] = s /\ s <= LastSeq /\ s \in Nat /\ LastSeq \in Nat
  BY <1>1, <1>6, LastSeqBounds DEF OnceInv, LogType
<1> QED
  BY <1>2, <1>5, <1>7

\* A snapshot is taken of the state after the log.
LEMMA SnapExact ==
  ASSUME Regular, Inv, BaseInv, LiveInv, SaveSafe(LastSeq), ~PhantomRisk, Pending = {},
         stage \notin {"off", "loaded", "replayed"}, NEW o \in Op
  PROVE  Exact(o)
<1>1. Shows(o)
  BY DEF LiveInv
<1>2. ~Excused(o)
  <2>1. captured = <<>> /\ deferred = <<>> /\ ~lost
    BY DEF PhantomRisk
  <2>2. Waiting = {}
    BY <2>1, EmptyOf DEF Waiting
  <2> QED
    BY <2>1, <2>2 DEF Excused
<1>3. ~Unseen(o)
  BY NothingUnseen
<1> QED
  BY <1>1, <1>2, <1>3 DEF Shows

\* Where the log stands for a snapshot taken now.
SnapEnd(b) ==
  /\ b \in LastSeq..(nextSeq - 1)
  /\ Anchored > 0 => b = LastSeq
  /\ \A o \in Op : Holds(o) => logged[o] <= b

\* There is a place where the log stands for a snapshot.
LEMMA SnapEnds ==
  ASSUME Inv, BaseInv, SnapInv, SaveSafe(LastSeq), stage \notin {"off", "loaded", "replayed"}
  PROVE  \E b \in Nat : SnapEnd(b)
<1>1. LogType /\ KnowType /\ OnceInv /\ FrontInv /\ Anchored \in Nat
  BY BoundAssumption DEF Inv, BaseInv
<1>2. /\ nextSeq \in Nat \ {0} /\ frontier \in Nat /\ cache.anchor \in Nat /\ cache.anchor < nextSeq
      /\ \A p \in DOMAIN logged : logged[p] \in Nat /\ logged[p] <= nextSeq - 1 /\ p \in Op
  BY <1>1 DEF LogType, KnowType, Snapshot
<1>3. LastSeq \in 0..(nextSeq - 1) /\ \A s \in DOMAIN rows : s <= LastSeq
  BY <1>1, LastSeqBounds
<1>4. PICK a \in cache.anchor..(nextSeq - 1) : SnapAt(a)
  BY DEF SnapInv
<1>5. CASE Anchored > 0
  <2>1. a = cache.anchor
    BY <1>4, <1>5 DEF SnapAt
  <2>2. frontier >= cache.anchor /\ cache.anchor > 0
    BY <1>1, <1>5 DEF FrontInv
  <2>3. frontier = LastSeq
    BY <1>2, <2>2 DEF SaveSafe
  <2>4. ASSUME NEW p \in Op, Holds(p) PROVE logged[p] <= LastSeq
    <3>1. p \in DOMAIN logged
      BY <2>4 DEF Holds
    <3>2. CASE logged[p] > a
      <4>1. logged[p] \in DOMAIN rows
        BY <1>4, <2>4, <3>2 DEF SnapAt
      <4> QED
        BY <1>3, <4>1
    <3>3. CASE ~(logged[p] > a)
      BY <1>2, <2>1, <2>2, <2>3, <3>1, <3>3
    <3> QED
      BY <3>2, <3>3
  <2>5. SnapEnd(LastSeq)
    BY <1>2, <1>3, <2>4 DEF SnapEnd
  <2> QED
    BY <1>3, <2>5
<1>6. CASE ~(Anchored > 0)
  <2>1. SnapEnd(nextSeq - 1)
    BY <1>2, <1>3, <1>6 DEF Holds, SnapEnd
  <2> QED
    BY <1>2, <2>1
<1> QED
  BY <1>5, <1>6

\* Behind it, the log is what it is up to there.
LEMMA SnapEndHolds ==
  ASSUME LogType, NEW b \in Nat, SnapEnd(b), NEW p \in Op
  PROVE  InEffect(p, b) <=> Holds(p)
<1>1. \A q \in DOMAIN logged : logged[q] \in Nat /\ q \in Op
  BY DEF LogType
<1>2. \A q \in Op : Holds(q) => logged[q] <= b
  BY DEF SnapEnd
<1>3. Holds(p) => InEffect(p, b)
  BY <1>2 DEF Holds, InEffect
<1>4. ASSUME InEffect(p, b) PROVE Holds(p)
  <2>1. /\ p \in DOMAIN logged \ Broken
        /\ \A i \in Imports \cap DOMAIN logged : logged[i] <= b => logged[i] <= logged[p]
    BY <1>4 DEF InEffect
  <2>2. ASSUME NEW i \in Imports \cap DOMAIN logged PROVE logged[i] <= logged[p]
    <3>1. PICK g \in Imports \cap DOMAIN logged : Holds(g) /\ logged[i] <= logged[g]
      BY LastHolds
    <3>2. g \in Op /\ logged[g] <= b
      BY <1>1, <1>2, <3>1
    <3>3. logged[g] <= logged[p]
      BY <2>1, <3>2
    <3> QED
      BY <1>1, <2>1, <3>1, <3>3
  <2> QED
    BY <2>1, <2>2 DEF Holds
<1> QED
  BY <1>3, <1>4

\* A snapshot taken under its guards is the state after the log.
LEMMA SnapTaken ==
  ASSUME Regular, Inv, BaseInv, LiveInv, SnapInv, Snap, SaveSafe(LastSeq), ~PhantomRisk, Pending = {},
         stage \notin {"off", "loaded", "replayed"}, UNCHANGED <<rows, nextSeq, logged>>
  PROVE  SnapInv'
<1>1. LogType
  BY DEF Inv
<1>2. PICK b \in Nat : SnapEnd(b)
  BY SnapEnds
<1>3. \A p \in Op : InEffect(p, b) <=> Holds(p)
  BY <1>1, <1>2, SnapEndHolds
<1>4. \A p \in Op : Exact(p)
  BY SnapExact
<1>5. cache'.state = live /\ cache'.anchor = LastSeq
  BY DEF Snap
<1>6. LastSeq \in 0..(nextSeq - 1) /\ nextSeq \in Nat /\ \A s \in DOMAIN rows : s <= LastSeq
  BY <1>1, LastSeqBounds DEF LogType
<1>7. \A p \in Op : InEffect(p, b)' <=> InEffect(p, b)
  BY DEF InEffect
<1>8. \A p \in Op : Holds(p)' <=> Holds(p)
  BY DEF Holds
<1>9. SnapAt(b)'
  <2>1. \A p \in Op : cache'.state[p] = IF InEffect(p, b)' THEN 1 ELSE 0
    BY <1>3, <1>4, <1>5, <1>7 DEF Exact
  <2>2. \A s \in DOMAIN rows : s <= cache'.anchor
    BY <1>5, <1>6
  <2>3. ASSUME NEW p \in Op, Holds(p) PROVE ~(logged[p] > b)
    <3>1. logged[p] <= b /\ logged[p] \in Nat
      BY <1>1, <1>2, <2>3 DEF SnapEnd, Holds, LogType
    <3> QED
      BY <3>1
  <2>4. Anchored > 0 => b = cache'.anchor
    BY <1>2, <1>5 DEF SnapEnd
  <2>5. /\ \A s \in DOMAIN rows' : s <= cache'.anchor \/ s > b
        /\ \A p \in Op : Holds(p)' /\ logged'[p] > b => logged'[p] \in DOMAIN rows' /\ rows'[logged'[p]].op = p
    BY <1>8, <2>2, <2>3
  <2> QED
    BY <2>1, <2>4, <2>5 DEF SnapAt
<1>10. b \in cache'.anchor..(nextSeq' - 1)
  BY <1>2, <1>5, <1>6 DEF SnapEnd
<1> QED
  BY <1>9, <1>10 DEF SnapInv

\* Rows behind the log leave the snapshot what it was.
LEMMA SnapAppended ==
  ASSUME LogType, KnowType, OnceInv, SnapInv, NEW a \in Seq(Op), \A i, j \in 1..Len(a) : a[i] = a[j] => i = j,
         Appends(a), \A k \in 1..Len(a) : a[k] \notin DOMAIN logged \ Broken, cache' = cache
  PROVE  SnapInv'
<1>1. PICK b \in cache.anchor..(nextSeq - 1) : SnapAt(b)
  BY DEF SnapInv
<1>2. /\ nextSeq \in Nat /\ cache.anchor \in Nat /\ b \in Nat /\ b < nextSeq /\ Len(a) \in Nat
      /\ nextSeq' = nextSeq + Len(a) /\ b \in cache.anchor..(nextSeq' - 1)
  BY <1>1 DEF LogType, KnowType, Snapshot, Appends
<1>3. \A o \in Op : InEffect(o, b)' <=> InEffect(o, b)
  BY <1>2, InEffectAfter
<1>4. ASSUME NEW o \in Op, Holds(o)', logged'[o] > b
      PROVE  logged'[o] \in DOMAIN rows' /\ rows'[logged'[o]].op = o
  <2>1. CASE \E i \in 1..Len(a) : a[i] = o
    <3>1. PICK i \in 1..Len(a) : a[i] = o
      BY <2>1
    <3> DEFINE s == nextSeq + i - 1
    <3>2. logged'[o] = s /\ rows'[s].op = o /\ s \in nextSeq..(nextSeq + Len(a) - 1)
      BY <1>2, <3>1 DEF Appends
    <3> HIDE DEF s
    <3> QED
      BY <3>2 DEF Appends
  <2>2. CASE \A i \in 1..Len(a) : a[i] # o
    <3>1. Holds(o)
      BY <1>4, <2>2, HoldsAfter
    <3>2. logged'[o] = logged[o]
      BY <2>2, <3>1 DEF Appends, Holds
    <3>3. logged[o] \in DOMAIN rows /\ rows[logged[o]].op = o
      BY <1>1, <1>4, <3>1, <3>2 DEF SnapAt
    <3> QED
      BY <3>2, <3>3 DEF Appends
  <2> QED
    BY <2>1, <2>2
<1>5. \A s \in DOMAIN rows' : s <= cache.anchor \/ s > b
  BY <1>1, <1>2 DEF Appends, SnapAt
<1>6. SnapAt(b)'
  BY <1>1, <1>3, <1>4, <1>5 DEF SnapAt
<1> QED
  BY <1>2, <1>6 DEF SnapInv

\* So does deleting what it holds or what is replaced.
LEMMA SnapDeleted ==
  ASSUME LogType, KnowType, SnapInv, NEW S, Deletes(S),
         \A s \in S \cap DOMAIN rows : s <= cache.anchor \/ ~Holds(rows[s].op)
  PROVE  SnapInv'
<1>1. PICK b \in cache.anchor..(nextSeq - 1) : SnapAt(b)
  BY DEF SnapInv
<1>2. /\ nextSeq' = nextSeq /\ logged' = logged /\ cache' = cache /\ DOMAIN rows' = DOMAIN rows \ S
      /\ \A s \in DOMAIN rows' : rows'[s] = rows[s]
  BY DEF Deletes
<1>3. \A o : (InEffect(o, b)' <=> InEffect(o, b)) /\ (Holds(o)' <=> Holds(o))
  BY <1>2 DEF InEffect, Holds
<1>4. ASSUME NEW o \in Op, Holds(o), logged[o] > b PROVE logged[o] \in DOMAIN rows' /\ rows'[logged[o]].op = o
  <2>1. logged[o] \in DOMAIN rows /\ rows[logged[o]].op = o
    BY <1>1, <1>4 DEF SnapAt
  <2>2. ~(logged[o] <= cache.anchor)
    BY <1>1, <1>4, <2>1 DEF LogType, KnowType, Snapshot
  <2>3. logged[o] \notin S
    BY <1>4, <2>1, <2>2
  <2> QED
    BY <1>2, <2>1, <2>3
<1>5. SnapAt(b)'
  BY <1>1, <1>2, <1>3, <1>4 DEF SnapAt
<1> QED
  BY <1>1, <1>2, <1>5 DEF SnapInv

\* And what only changes marks.
LEMMA SnapKept == ASSUME SnapInv, KeepsRows, cache' = cache PROVE SnapInv'
<1>1. PICK b \in cache.anchor..(nextSeq - 1) : SnapAt(b)
  BY DEF SnapInv
<1>2. /\ nextSeq' = nextSeq /\ logged' = logged /\ DOMAIN rows' = DOMAIN rows
      /\ \A s \in DOMAIN rows : rows'[s].op = rows[s].op
  BY DEF KeepsRows
<1>3. \A o : (InEffect(o, b)' <=> InEffect(o, b)) /\ (Holds(o)' <=> Holds(o))
  BY <1>2 DEF InEffect, Holds
<1>4. SnapAt(b)'
  BY <1>1, <1>2, <1>3 DEF SnapAt
<1> QED
  BY <1>1, <1>2, <1>4 DEF SnapInv

\* A single write is an append of one.
LEMMA WritesAppends ==
  ASSUME LogType, NEW o \in Op, Writes(o)
  PROVE  /\ <<o>> \in Seq(Op) /\ Appends(<<o>>) /\ \A i, j \in 1..Len(<<o>>) : <<o>>[i] = <<o>>[j] => i = j
         /\ \A i \in 1..Len(<<o>>) : i = 1 /\ <<o>>[i] = o
<1> DEFINE a == <<o>>
<1>1. a \in Seq(Op) /\ Len(a) = 1 /\ a[1] = o
  OBVIOUS
<1> HIDE DEF a
<1>2. nextSeq \in Nat
  BY DEF LogType
<1>3. \A i \in 1..Len(a) : i = 1 /\ a[i] = o
  BY <1>1
<1>4. nextSeq + Len(a) - 1 = nextSeq /\ nextSeq..nextSeq = {nextSeq} /\ nextSeq + 1 - 1 = nextSeq
  BY <1>1, <1>2
<1>5. {a[i] : i \in 1..Len(a)} = {o}
  BY <1>1, <1>3
<1>6. Appends(a)
  <2>1. nextSeq' = nextSeq + Len(a)
    BY <1>1 DEF Writes
  <2>2. DOMAIN rows' = DOMAIN rows \cup nextSeq..(nextSeq + Len(a) - 1)
    BY <1>4 DEF Writes
  <2>3. \A i \in 1..Len(a) : rows'[nextSeq + i - 1].op = a[i] /\ logged'[a[i]] = nextSeq + i - 1
    BY <1>3, <1>4 DEF Writes
  <2>4. DOMAIN logged' = DOMAIN logged \cup {a[i] : i \in 1..Len(a)}
    BY <1>5 DEF Writes
  <2>5. \A p \in DOMAIN logged : (\A i \in 1..Len(a) : a[i] # p) => logged'[p] = logged[p]
    BY <1>1, <1>2 DEF Writes
  <2> QED
    BY <2>1, <2>2, <2>3, <2>4, <2>5 DEF Appends, Writes
<1> QED
  BY <1>1, <1>3, <1>6 DEF a

\* What is in effect once a local operation is written.
LEMMA HoldsWritten ==
  ASSUME LogType, NEW o \in Local \ DOMAIN logged, Writes(o), NEW p \in Op
  PROVE  Holds(p)' <=> p = o \/ Holds(p)
<1>1. o \in Op /\ o \notin Imports /\ o \notin Broken
  BY OpsAssumption, ReducerAssumption DEF Op
<1> DEFINE a == <<o>>
<1>2. /\ a \in Seq(Op) /\ Appends(a) /\ \A i, j \in 1..Len(a) : a[i] = a[j] => i = j
      /\ \A i \in 1..Len(a) : i = 1 /\ a[i] = o
  BY <1>1, WritesAppends
<1>3. Len(a) = 1 /\ a[1] = o
  OBVIOUS
<1> HIDE DEF a
<1>4. LastImport(a) = 0
  BY <1>1, <1>2, LastImportOf
<1>5. \A k \in 1..Len(a) : a[k] \notin DOMAIN logged \ Broken
  BY <1>2
<1>6. Holds(p)' <=> \/ p \notin Broken /\ \E i \in 1..Len(a) : a[i] = p /\ i >= LastImport(a)
                    \/ LastImport(a) = 0 /\ Holds(p)
  BY <1>2, <1>5, HoldsAfter
<1> QED
  BY <1>1, <1>3, <1>4, <1>6

\* A full-state operation whose row is superseded is not in effect.
LEMMA OlderReplaced ==
  ASSUME Inv, BaseInv, CursorInv, ClearOlder, mode = "download", \E s \in Finished : rows[s].op \in Imports,
         NEW s \in Older
  PROVE  ~Holds(rows[s].op)
<1>1. LogType /\ LogInv /\ OnceInv /\ BatchInv /\ WorkType
  BY DEF Inv, BaseInv
<1>2. stage = "clear" /\ stage \in ApplyStages \ {"drain"}
  BY DEF ClearOlder, Go, ApplyStages
<1>3. PICK g \in Finished : rows[g].op \in Imports
  OBVIOUS
<1>4. g \in Batch
  <2>1. DOMAIN work = 1..Len(work) /\ Len(work) \in Nat /\ done \in 0..Len(work)
    BY <1>1, WorkSeq DEF WorkType
  <2> QED
    BY <1>3, <2>1 DEF Finished, Batch
<1>5. g \in DOMAIN rows
  BY <1>2, <1>4 DEF CursorInv
<1>6. s \in DOMAIN rows \ Batch /\ rows[s].op \in Imports
  BY DEF Older
<1>7. s < g
  BY <1>1, <1>2, <1>4, <1>6 DEF BatchInv
<1>8. logged[rows[s].op] = s /\ logged[rows[g].op] = g /\ rows[g].op \in DOMAIN logged /\ s \in Nat /\ g \in Nat
  BY <1>1, <1>5, <1>6 DEF OnceInv, LogType, LogInv
<1>9. rows[g].op \in Imports \cap DOMAIN logged
  BY <1>3, <1>8
<1> QED
  BY <1>7, <1>8, <1>9 DEF Holds

\* No step makes the snapshot anything but the state after the log up to somewhere.
LEMMA SnapStep ==
  ASSUME Regular, Inv, BaseInv, StateInv, Next
  PROVE  SnapInv'
<1>1. LogType /\ KnowType /\ LogInv /\ UiType /\ OnceInv /\ OwnInv /\ PendInv /\ BatchInv /\ SnapInv /\ CoveredInv /\ PagesInv
      /\ LiveInv /\ CursorInv
  BY DEF Inv, BaseInv, StateInv, PagesInv
<1>2. CASE cache' # cache
  <2>1. /\ Snap /\ SaveSafe(LastSeq) /\ ~PhantomRisk /\ Pending = {} /\ UNCHANGED <<rows, nextSeq, logged>>
        /\ stage \notin {"off", "loaded", "replayed"}
    BY <1>1, <1>2, CacheStep
  <2> QED
    BY <1>1, <2>1, SnapTaken
<1>3. CASE cache' = cache
  <2>1. CASE KeepsRows
    BY <1>1, <1>3, <2>1, SnapKept
  <2>2. CASE ClearOlder /\ Deletes(Older) /\ mode = "download" /\ \E s \in Finished : rows[s].op \in Imports
    <3>1. \A s \in Older \cap DOMAIN rows : ~Holds(rows[s].op)
      BY <1>1, <2>2, OlderReplaced
    <3> QED
      BY <1>1, <2>2, <3>1, SnapDeleted
  <2>3. CASE DeleteOld
    <3>1. PICK S \in SUBSET (DOMAIN rows) : Deletes(S) /\ \A s \in S : s <= cache.anchor
      BY <1>1, <2>3, DeleteOldOf
    <3> QED
      BY <1>1, <3>1, SnapDeleted
  <2>4. ASSUME NEW o \in Local \ DOMAIN logged, Writes(o) PROVE SnapInv'
    <3>1. o \in Op
      BY DEF Op
    <3> DEFINE a == <<o>>
    <3>2. /\ a \in Seq(Op) /\ Appends(a) /\ \A i, j \in 1..Len(a) : a[i] = a[j] => i = j
          /\ \A i \in 1..Len(a) : i = 1 /\ a[i] = o
      BY <1>1, <2>4, <3>1, WritesAppends
    <3> HIDE DEF a
    <3> QED
      BY <1>1, <1>3, <3>2, SnapAppended
  <2>5. CASE StoreBatch /\ Applicable # <<>>
    <3> DEFINE a == Applicable
    <3>1. Appends(a) /\ Fresh(a) /\ a \in Seq(Op) /\ Len(a) \in Nat \ {0} /\ stage = "flushed"
      BY <2>5, BatchFacts
    <3>2. \A k \in 1..Len(a) : a[k] \notin DOMAIN logged \ Broken
      BY <1>1, <3>1, FreshBatch
    <3> HIDE DEF a
    <3>3. \A i, j \in 1..Len(a) : a[i] = a[j] => i = j
      BY <3>1 DEF Fresh
    <3> QED
      BY <1>1, <1>3, <3>1, <3>2, <3>3, SnapAppended
  <2>6. OwnOps \subseteq Local /\ TabOps \subseteq Local
    BY DEF Local
  <2> QED
    BY <1>1, <2>1, <2>2, <2>3, <2>4, <2>5, <2>6, LogStep
<1> QED
  BY <1>2, <1>3

-----------------------------------------------------------------------------
(* The steps that change the screen *)

\* A local operation adds itself.
LEMMA ReduceLocal ==
  ASSUME NEW st \in [Op -> Nat], NEW o \in Local, NEW p \in Op
  PROVE  Reduce(st, <<o>>)[p] = IF p = o THEN st[p] + 1 ELSE st[p]
<1>1. o \in Op /\ o \notin Imports /\ o \notin Broken
  BY OpsAssumption, ReducerAssumption DEF Op
<1> DEFINE a == <<o>>
<1>2. a \in Seq(Op) /\ Len(a) = 1 /\ a[1] = o
  BY <1>1
<1> HIDE DEF a
<1>3. \A i \in 1..Len(a) : i = 1 /\ a[i] = o
  BY <1>2
<1>4. LastImport(a) = 0
  BY <1>1, <1>2, <1>3, LastImportOf
<1>5. Reduce(st, a)[p] = (IF LastImport(a) = 0 THEN st[p] ELSE 0)
        + (IF p \notin Broken /\ \E i \in 1..Len(a) : a[i] = p /\ i >= LastImport(a) THEN 1 ELSE 0)
  BY <1>2, <1>3, ReduceOnce
<1>6. (p \notin Broken /\ \E i \in 1..Len(a) : a[i] = p /\ i >= LastImport(a)) <=> p = o
  BY <1>1, <1>2, <1>3, <1>4
<1>7. Reduce(st, a)[p] = IF p = o THEN st[p] + 1 ELSE st[p]
  <2>1. st[p] \in Nat
    OBVIOUS
  <2> QED
    BY <1>4, <1>5, <1>6, <2>1
<1> QED
  BY <1>7 DEF a

\* The user's action is on the screen at once, and nothing else changes.
LEMMA DispatchLive ==
  ASSUME UiType, Dispatch
  PROVE  /\ nextOwn' = nextOwn + 1 /\ nextOwn' \in OwnOps /\ nextOwn \in Nat
         /\ \A p \in Op : live'[p] = IF p = nextOwn' THEN live[p] + 1 ELSE live[p]
<1> DEFINE o == nextOwn + 1
<1>1. live \in [Op -> Nat] /\ o \in Local /\ nextOwn \in Nat
  BY DEF UiType, Dispatch, Local
<1>2. live' = Reduce(live, <<o>>) /\ nextOwn' = o /\ o \in OwnOps
  BY DEF Dispatch
<1>3. \A p \in Op : live'[p] = IF p = o THEN live[p] + 1 ELSE live[p]
  <2> HIDE DEF o
  <2> QED
    BY <1>1, <1>2, ReduceLocal
<1> QED
  BY <1>1, <1>2, <1>3

\* A start shows what the log holds, whether or not it takes the shortcut.
LEMMA ReplayExact ==
  ASSUME Inv, OnceInv, SnapInv, live = cache.state, Replay, NEW o \in Op
  PROVE  live'[o] = IF Holds(o) THEN 1 ELSE 0
<1>1. LogType /\ KnowType /\ LogInv /\ cache.state \in [Op -> Nat]
  BY DEF Inv, KnowType, Snapshot
<1>0. LogType /\ OnceInv
  BY <1>1
<1>2. Rebuilt[o] = IF Holds(o) THEN 1 ELSE 0
  BY <1>1, RebuiltOf
<1> DEFINE w == Replayable
           tail == OpsAt(w)
           last == SubSeq(tail, Len(tail), Len(tail))
           shortcut == tail # <<>> /\ last[1] \in Imports /\ Pending = {}
<1>3. live' = Reduce(live, IF shortcut THEN last ELSE tail) /\ Rebuilt = Reduce(live, tail)
  BY DEF Replay, Rebuilt
<1>4. CASE ~shortcut
  <2> HIDE DEF shortcut, tail
  <2> QED
    BY <1>2, <1>3, <1>4
<1>5. CASE shortcut
  <2>1. /\ w \in Seq(Nat) /\ Len(w) \in Nat
        /\ \A i \in 1..Len(w) : w[i] \in DOMAIN rows
        /\ \A i, j \in 1..Len(w) : i < j => w[i] < w[j]
        /\ Replayed \in SUBSET Nat /\ \A i \in 1..Len(w) : w[i] \in Replayed
        /\ \A x \in Replayed : \E i \in 1..Len(w) : w[i] = x
    BY <1>1, ReplayableOf
  <2>2. /\ tail \in Seq(Ids) /\ Len(tail) = Len(w)
        /\ \A i \in 1..Len(w) : tail[i] = rows[w[i]].op
    <3> HIDE DEF w
    <3> QED
      BY <1>1, <2>1, OpsAtOf
  <2>3. tail \in Seq(Op)
    BY <1>1, <2>2, IdsOf
  <2> DEFINE n == Len(w)
             z == w[n]
             q == rows[z].op
  <2>4. Len(tail) \in Nat \ {0} /\ last \in Seq(Op) /\ Len(last) = 1 /\ last[1] = tail[Len(tail)]
    <3> HIDE DEF w, tail
    <3> QED
      BY <1>5, <2>3, LastOf
  <2>5. n \in 1..n /\ z \in DOMAIN rows /\ z \in Replayed /\ z \in Nat /\ last[1] = q /\ q \in Imports
    BY <1>5, <2>1, <2>2, <2>4
  <2>6. \A x \in Replayed : x <= z
    <3> SUFFICES ASSUME NEW x \in Replayed PROVE x <= z
      OBVIOUS
    <3>1. PICK i \in 1..Len(w) : w[i] = x
      BY <2>1
    <3>2. n = Len(w) /\ z = w[n] /\ x \in Nat
      BY <2>1
    <3> HIDE DEF z, n, w
    <3>3. i = n \/ i < n
      BY <2>1, <3>2
    <3>4. i < n => w[i] < w[n]
      BY <2>1, <2>5, <3>2
    <3>5. i < n => x < z
      BY <3>1, <3>2, <3>4
    <3> QED
      BY <2>5, <3>1, <3>2, <3>3, <3>5
  <2> HIDE DEF z, n, w
  <2>7. q \in Op /\ q \notin Broken
    <3>1. q \in Imports
      BY <2>5
    <3> HIDE DEF q
    <3> QED
      BY <3>1, ReducerAssumption DEF Op
  <2>8. Rebuilt[o] = IF o = q THEN 1 ELSE 0
    <3>1. Reduce(live, tail)[o] =
             (IF \E t \in Replayed : rows[t].op \in Imports THEN 0 ELSE live[o])
               + (IF Effective(o, Replayed) THEN 1 ELSE 0)
      <4> DEFINE st == live
                 S == Replayed
      <4>1. st \in [Op -> Nat]
        BY <1>1
      <4> HIDE DEF st, S
      <4>2. /\ S \in SUBSET Nat /\ \A i \in 1..Len(w) : w[i] \in S
            /\ \A x \in S : \E i \in 1..Len(w) : w[i] = x
        BY <2>1 DEF S
      <4>3. Reduce(st, OpsAt(w))[o] = (IF \E t \in S : rows[t].op \in Imports THEN 0 ELSE st[o])
                                       + (IF Effective(o, S) THEN 1 ELSE 0)
        BY <1>0, <2>1, <4>1, <4>2, ReduceRows, ZenonT(30)
      <4> QED
        BY <4>3 DEF st, S
    <3>2. Effective(o, Replayed) <=> o = q
      BY <2>1, <2>5, <2>6, <2>7 DEF Effective
    <3>3. \E t \in Replayed : rows[t].op \in Imports
      BY <2>5
    <3> HIDE DEF tail, q
    <3> QED
      BY <1>3, <3>1, <3>2, <3>3
  <2>9. live'[o] = IF o = q THEN 1 ELSE 0
    <3>1. live' = Reduce(live, last)
      <4> HIDE DEF last, tail
      <4> QED
        BY <1>3, <1>5
    <3> HIDE DEF tail, q, last
    <3>2. \A i \in 1..Len(last) : i = 1 /\ last[i] = q
      BY <2>4, <2>5
    <3>3. LastImport(last) = 1
      BY <2>4, <2>5, <3>2, LastImportOf
    <3>4. Reduce(live, last)[o] = (IF LastImport(last) = 0 THEN live[o] ELSE 0)
            + (IF o \notin Broken /\ \E i \in 1..Len(last) : last[i] = o /\ i >= LastImport(last)
               THEN 1 ELSE 0)
      BY <1>1, <2>4, <3>2, ReduceOnce
    <3>5. (o \notin Broken /\ \E i \in 1..Len(last) : last[i] = o /\ i >= LastImport(last)) <=> o = q
      BY <2>4, <2>5, <2>7, <3>2, <3>3
    <3> QED
      BY <3>1, <3>3, <3>4, <3>5
  <2> QED
    BY <1>2, <2>8, <2>9
<1> QED
  BY <1>4, <1>5

\* The reducers of a batch: it replaces the state, or adds to it what is not there yet.
LEMMA BatchLive ==
  ASSUME Inv, OnceInv, BatchInv, RunReducers
  PROVE  /\ \A o \in Op : live'[o] = (IF FullState THEN 0 ELSE live[o]) + (IF Effective(o, Batch) THEN 1 ELSE 0)
         /\ FullState <=> \E t \in Batch : rows[t].op \in Imports
         /\ \A s \in Batch : s \in DOMAIN rows /\ rows[s].op \in Remote
         /\ stage = "informed"
         /\ Batch \subseteq Nat
<1>1. LogType /\ WorkType /\ WorkInv /\ LogInv /\ live \in [Op -> Nat]
  BY DEF Inv, UiType
<1>2. stage = "informed" /\ live' = Reduce(live, OpsAt(work))
  BY DEF RunReducers, Go
<1>3. /\ work \in Seq(Nat) /\ DOMAIN work = 1..Len(work) /\ Len(work) \in Nat
      /\ \A i \in 1..Len(work) : work[i] \in 1..(nextSeq - 1)
  BY <1>1, WorkSeq
<1>4. \A i \in 1..Len(work) : work[i] \in Pending
  BY <1>1, <1>2 DEF WorkInv
<1>5. \A s \in Pending : s \in DOMAIN rows /\ rows[s].op \in Remote
  BY <1>1 DEF Pending, LogInv
<1>6. \A i, j \in 1..Len(work) : i < j => work[i] < work[j]
  BY <1>2 DEF BatchInv
<1>7. Batch \in SUBSET Nat /\ (\A i \in 1..Len(work) : work[i] \in Batch) /\ \A x \in Batch : \E i \in 1..Len(work) : work[i] = x
  BY <1>3 DEF Batch
<1>8. FullState <=> \E t \in Batch : rows[t].op \in Imports
  BY <1>3 DEF FullState, Batch
<1>9. ASSUME NEW o \in Op
      PROVE  Reduce(live, OpsAt(work))[o] =
        (IF \E t \in Batch : rows[t].op \in Imports THEN 0 ELSE live[o])
          + (IF Effective(o, Batch) THEN 1 ELSE 0)
  <2>1. \A i \in 1..Len(work) : work[i] \in DOMAIN rows
    BY <1>4, <1>5
  <2> QED
    BY <1>1, <1>3, <1>6, <1>7, <2>1, ReduceRows
<1>10. \A s \in Batch : s \in DOMAIN rows /\ rows[s].op \in Remote
  BY <1>4, <1>5, <1>7
<1> QED
  BY <1>2, <1>7, <1>8, <1>9, <1>10

-----------------------------------------------------------------------------
(* What is on the screen at most, whatever the tab does *)

\* Who waits for its write: what waited, and what the user does now.
LEMMA WaitingStep ==
  ASSUME Inv, OwnInv, Next
  PROVE  /\ \A o \in Waiting' : o \in Waiting \/ (Dispatch /\ o = nextOwn')
         /\ nextOwn' = nextOwn \/ Dispatch
<1>1. UiType
  BY DEF Inv
<1>2. /\ captured \in Seq(OwnOps) /\ deferred \in Seq(OwnOps) /\ Distinct(captured) /\ Distinct(deferred)
  BY <1>1 DEF UiType, OwnInv
<1>3. CASE UNCHANGED <<captured, deferred, lost, nextOwn>>
  BY <1>3 DEF Waiting, Among
<1>4. CASE Dispatch
  <2> DEFINE e == nextOwn + 1
  <2>1. e \in OwnOps /\ nextOwn' = e
    BY <1>4 DEF Dispatch
  <2>2. \/ captured' = Append(captured, e) /\ deferred' = deferred
        \/ deferred' = Append(deferred, e) /\ captured' = captured
    BY <1>4 DEF Dispatch
  <2>3. \A s \in Seq(OwnOps) : \A o \in Among(Append(s, e)) : o \in Among(s) \/ o = e
    <3> SUFFICES ASSUME NEW s \in Seq(OwnOps) PROVE \A o \in Among(Append(s, e)) : o \in Among(s) \/ o = e
      OBVIOUS
    <3> HIDE DEF e
    <3>1. /\ DOMAIN Append(s, e) = 1..(Len(s) + 1) /\ Len(s) \in Nat /\ DOMAIN s = 1..Len(s)
          /\ \A i \in 1..Len(s) : Append(s, e)[i] = s[i]
          /\ Append(s, e)[Len(s) + 1] = e
      BY <2>1
    <3>2. \A i \in 1..(Len(s) + 1) : i = Len(s) + 1 \/ i \in 1..Len(s)
      BY <3>1
    <3> QED
      BY <3>1, <3>2 DEF Among
  <2> HIDE DEF e
  <2>4. \A o \in Waiting' : o \in Waiting \/ o = e
    <3>1. CASE captured' = Append(captured, e) /\ deferred' = deferred
      BY <1>2, <2>3, <3>1 DEF Waiting
    <3>2. CASE deferred' = Append(deferred, e) /\ captured' = captured
      BY <1>2, <2>3, <3>2 DEF Waiting
    <3> QED
      BY <2>2, <3>1, <3>2
  <2> QED
    BY <1>4, <2>1, <2>4
<1>5. CASE WriteCaptured \/ LoseCaptured
  <2>1. captured # <<>> /\ captured' = Tail(captured) /\ deferred' = deferred /\ nextOwn' = nextOwn
    BY <1>5 DEF WriteCaptured, LoseCaptured, world
  <2>2. Among(Tail(captured)) = Among(captured) \ {Head(captured)}
    BY <1>2, <2>1, TailOf
  <2> QED
    BY <2>1, <2>2 DEF Waiting
<1>6. CASE WriteDeferred
  <2>1. deferred # <<>> /\ deferred' = Tail(deferred) /\ captured' = captured /\ nextOwn' = nextOwn
    BY <1>6 DEF WriteDeferred, world
  <2>2. Among(Tail(deferred)) = Among(deferred) \ {Head(deferred)}
    BY <1>2, <2>1, TailOf
  <2> QED
    BY <2>1, <2>2 DEF Waiting
<1>7. CASE Crash
  <2>1. captured' = <<>> /\ deferred' = <<>> /\ nextOwn' = nextOwn
    BY <1>7 DEF Crash
  <2> QED
    BY <2>1, EmptyOf DEF Waiting
<1> QED
  BY <1>3, <1>4, <1>5, <1>6, <1>7, UiStep

\* Only the user's actions wait.
LEMMA WaitingOps == UiType => Waiting \subseteq OwnOps
<1> SUFFICES ASSUME UiType PROVE Waiting \subseteq OwnOps
  OBVIOUS
<1>1. captured \in Seq(OwnOps) /\ deferred \in Seq(OwnOps)
  BY DEF UiType
<1> QED
  BY <1>1 DEF Waiting, Among

\* No operation twice on the screen, none that is refused or not there.
ScreenBound ==
  /\ \A o \in Op : live[o] <= 1
  /\ \A o \in Broken : live[o] = 0
  /\ \A o \in OwnOps : o > nextOwn => live[o] = 0
  /\ \A o \in Waiting : live[o] = 1
  /\ \A o \in Op \ OwnOps : live[o] > 0 => o \in DOMAIN logged

\* What a start loads and replays is within the bounds.
LEMMA BoundLoaded ==
  ASSUME Inv, OwnInv, Next, mode = "start", ~Dispatch,
         \A o \in Op : live'[o] = 0 \/ (live'[o] = 1 /\ o \in DOMAIN logged \ Broken)
  PROVE  ScreenBound'
<1>1. Waiting' = {}
  BY WaitingStep DEF OwnInv
<1>2. \A o \in OwnOps : o > nextOwn' => o \notin DOMAIN logged
  <2>1. nextOwn' = nextOwn /\ nextOwn \in Nat
    BY WaitingStep DEF Inv, UiType
  <2>2. \A o \in OwnOps \cap DOMAIN logged : o <= nextOwn /\ o \in Nat
    BY OpsAssumption DEF OwnInv, Op, Local
  <2> QED
    BY <2>1, <2>2
<1>3. DOMAIN logged \subseteq DOMAIN logged'
  BY LoggedGrows
<1>4. OwnOps \subseteq Op /\ Broken \subseteq Op
  BY ReducerAssumption DEF Op, Local
<1> QED
  BY <1>1, <1>2, <1>3, <1>4 DEF ScreenBound

\* Nothing is on the screen twice.
LEMMA BoundStep ==
  ASSUME Regular, Inv, BaseInv, StateInv, Next
  PROVE  ScreenBound'
<1>1. LogType /\ UiType /\ OnceInv /\ OwnInv /\ BatchInv /\ LearnInv /\ SnapInv /\ LogInv
  BY DEF Inv, BaseInv, StateInv
<1>2. ScreenBound
  BY DEF StateInv, ScreenInv, ScreenBound
<1>3. DOMAIN logged \subseteq DOMAIN logged'
  BY <1>1, LoggedGrows
<1>4. OwnOps \subseteq Op /\ Broken \subseteq Op /\ OwnOps \cap Broken = {} /\ OwnOps \subseteq Nat
  BY OpsAssumption, ReducerAssumption DEF Op, Local
<1>5. \A o \in Op : live[o] \in Nat
  BY <1>1 DEF UiType
<1>6. CASE live' = live /\ ~Dispatch
  <2>1. nextOwn' = nextOwn /\ Waiting' \subseteq Waiting
    BY <1>1, <1>6, WaitingStep
  <2> QED
    BY <1>2, <1>3, <1>6, <2>1 DEF ScreenBound
<1>7. CASE Dispatch
  <2> DEFINE e == nextOwn'
  <2>1. /\ e = nextOwn + 1 /\ e \in OwnOps /\ nextOwn \in Nat
        /\ \A p \in Op : live'[p] = IF p = e THEN live[p] + 1 ELSE live[p]
    BY <1>1, <1>7, DispatchLive
  <2>2. live[e] = 0 /\ live'[e] = 1
    <3>1. e > nextOwn /\ e \in Op
      BY <1>4, <2>1
    <3>2. live[e] = 0
      BY <1>2, <2>1, <3>1 DEF ScreenBound
    <3>3. live'[e] = live[e] + 1
      BY <2>1, <3>1
    <3> QED
      BY <3>2, <3>3
  <2>3. \A o \in Waiting' : o \in Waiting \/ o = e
    BY <1>1, WaitingStep
  <2>4. \A o \in Waiting : o \in Op
    BY <1>1, <1>4, WaitingOps
  <2>5. \A o \in Op : live'[o] <= 1
    BY <1>2, <2>1, <2>2 DEF ScreenBound
  <2>6. \A o \in Broken : live'[o] = 0
    BY <1>2, <1>4, <2>1 DEF ScreenBound
  <2>7. \A o \in OwnOps : o > e => live'[o] = 0
    BY <1>2, <1>4, <2>1 DEF ScreenBound
  <2>8. \A o \in Waiting' : live'[o] = 1
    BY <1>2, <2>1, <2>2, <2>3, <2>4 DEF ScreenBound
  <2>9. \A o \in Op \ OwnOps : live'[o] > 0 => o \in DOMAIN logged'
    BY <1>2, <1>3, <2>1 DEF ScreenBound
  <2> HIDE DEF e
  <2> QED
    BY <2>5, <2>6, <2>7, <2>8, <2>9 DEF ScreenBound, e
<1>8. CASE Load
  <2>1. stage = "off" /\ live' = cache.state /\ ~Dispatch
    BY <1>8 DEF Load, Go, Dispatch, Running, BootStages
  <2>2. mode = "start"
    BY <2>1 DEF Inv, StageInv, BootStages
  <2>3. PICK a \in cache.anchor..(nextSeq - 1) : SnapAt(a)
    BY <1>1 DEF SnapInv
  <2>4. \A o \in Op : live'[o] = 0 \/ (live'[o] = 1 /\ o \in DOMAIN logged \ Broken)
    BY <2>1, <2>3 DEF SnapAt, InEffect
  <2> QED
    BY <1>1, <2>1, <2>2, <2>4, BoundLoaded
<1>9. CASE Replay
  <2>1. stage = "loaded" /\ ~Dispatch
    BY <1>9 DEF Replay, Go, Dispatch, Running, BootStages
  <2>2. mode = "start"
    BY <2>1 DEF Inv, StageInv, BootStages
  <2>3. live = cache.state
    BY <2>1 DEF StateInv, LiveInv
  <2>4. \A o \in Op : live'[o] = IF Holds(o) THEN 1 ELSE 0
    BY <1>1, <1>9, <2>3, ReplayExact
  <2>5. \A o \in Op : live'[o] = 0 \/ (live'[o] = 1 /\ o \in DOMAIN logged \ Broken)
    BY <2>4 DEF Holds
  <2> QED
    BY <1>1, <2>1, <2>2, <2>5, BoundLoaded
<1>10. CASE RunReducers
  <2>1. stage = "informed" /\ captured' = captured /\ deferred' = deferred /\ nextOwn' = nextOwn
    BY <1>10 DEF RunReducers, world, Go
  <2>2. /\ \A o \in Op : live'[o] = (IF FullState THEN 0 ELSE live[o]) + (IF Effective(o, Batch) THEN 1 ELSE 0)
        /\ \A s \in Batch : s \in DOMAIN rows /\ rows[s].op \in Remote
    BY <1>1, <1>10, BatchLive
  <2>3. \A s \in Batch : live[rows[s].op] = 0
    BY <2>1 DEF StateInv, ScreenInv
  <2>4. \A o \in Op : Effective(o, Batch) =>
          live[o] = 0 /\ o \notin Broken /\ o \in Remote /\ o \in DOMAIN logged
    BY <1>1, <2>2, <2>3 DEF Effective, LogInv
  <2>5. \A o \in OwnOps : ~Effective(o, Batch)
    BY <1>4, <2>4, OpsAssumption DEF Local
  <2>6. Waiting' = Waiting /\ Waiting \subseteq OwnOps
    BY <1>1, <2>1, WaitingOps DEF Waiting
  <2>7. FullState => Waiting = {}
    BY <2>1 DEF StateInv, LiveInv, MissesBatch
  <2>8. \A o \in Op : live'[o] = 0 \/ live'[o] = live[o] \/ (live'[o] = 1 /\ Effective(o, Batch))
    BY <1>5, <2>2, <2>4
  <2>9. \A o \in Op : live'[o] <= 1
    BY <1>2, <2>8 DEF ScreenBound
  <2>10. \A o \in Broken : live'[o] = 0
    BY <1>2, <1>4, <2>4, <2>8 DEF ScreenBound
  <2>11. \A o \in OwnOps : o > nextOwn' => live'[o] = 0
    BY <1>2, <1>4, <2>1, <2>5, <2>8 DEF ScreenBound
  <2>12. \A o \in Waiting' : live'[o] = 1
    <3> SUFFICES ASSUME NEW o \in Waiting PROVE live'[o] = 1
      BY <2>6
    <3>1. ~FullState /\ o \in OwnOps /\ o \in Op /\ live[o] = 1
      BY <1>2, <1>4, <2>6, <2>7 DEF ScreenBound
    <3> QED
      BY <2>2, <2>5, <3>1
  <2>13. \A o \in Op \ OwnOps : live'[o] > 0 => o \in DOMAIN logged'
    BY <1>2, <1>3, <2>4, <2>8 DEF ScreenBound
  <2> QED
    BY <2>9, <2>10, <2>11, <2>12, <2>13 DEF ScreenBound
<1>11. CASE Crash
  <2>1. live' = Empty /\ captured' = <<>> /\ deferred' = <<>>
    BY <1>11 DEF Crash
  <2>2. Waiting' = {}
    BY <2>1, EmptyOf DEF Waiting
  <2> QED
    BY <1>4, <2>1, <2>2 DEF ScreenBound, Empty
<1> QED
  BY <1>6, <1>7, <1>8, <1>9, <1>10, <1>11, LiveStep

-----------------------------------------------------------------------------
(* What the screen shows of one operation, whatever else the tab does *)

\* A write of this tab's does not bring what it has missed within its state.
LEMMA ObserveKeeps ==
  ASSUME nextSeq \in Nat, frontier \in Nat, NEW n \in Nat, Observe(nextSeq, n),
         NEW x \in 1..(nextSeq - 1), foreign \/ x > frontier
  PROVE  foreign' \/ x > frontier'
<1>1. /\ frontier' = IF frontier = 0 THEN 0 ELSE nextSeq + n - 1
      /\ foreign' = (foreign \/ (frontier # 0 /\ nextSeq > frontier + 1))
  BY Zenon DEF Observe
<1>2. CASE frontier = 0
  <2>1. frontier' = 0 /\ x > 0
    BY <1>1, <1>2
  <2> QED
    BY <2>1
<1>3. CASE frontier # 0 /\ ~foreign
  <2>1. nextSeq > frontier + 1
    BY <1>3
  <2> QED
    BY <1>1, <1>3, <2>1, Zenon
<1>4. CASE foreign
  BY <1>1, <1>4, Zenon
<1> QED
  BY <1>2, <1>3, <1>4

\* Between the store of a batch and its reducers, the log stands still.
LEMMA StoredStep ==
  ASSUME Inv, Next, stage' \in {"stored", "informed"}
  PROVE  \/ StoreBatch /\ Applicable # <<>>
         \/ /\ stage \in {"stored", "informed"}
            /\ UNCHANGED <<rows, nextSeq, logged, cache, frontier, foreign, work>>
            /\ Dispatch \/ LoseCaptured \/ UNCHANGED <<live, captured, deferred, lost, nextOwn>>
<1>1. WorkType /\ StageInv
  BY DEF Inv
<1>2. stage \in {"stored", "informed"} => mode = "download" /\ ~compacting /\ ~LockFree
  BY <1>1 DEF StageInv, LockFree, ApplyStages
<1>3. CASE Start
  BY <1>3 DEF Start, Load, Replay, Settle, EndStart, Go, Begin
<1>4. CASE User
  BY <1>2, <1>4 DEF User, Dispatch, WriteCaptured, LoseCaptured, WriteElsewhere, disk, ui, tab, apply
<1>5. CASE Buffer
  BY <1>2, <1>5 DEF Buffer, WriteDeferred, FailDeferred
<1>6. CASE Publish
  BY <1>6 DEF Publish, disk, ui, tab, apply
<1>7. CASE Fetch
  <2>1. CASE StoreBatch
    BY <2>1 DEF StoreBatch
  <2>2. CASE Sync \/ Gate \/ FirstPage \/ LastPage \/ Refuse
    BY <2>2 DEF Sync, Gate, FirstPage, LastPage, Refuse, Go, Begin
  <2> QED
    BY <1>7, <2>1, <2>2 DEF Fetch
<1>8. CASE Stage
  BY <1>8 DEF Stage, MergeClocks, RunReducers, CommitReducers, Throw, Go, ui, tab, apply, world
<1>9. CASE Effects
  BY <1>9 DEF Effects, RunEffect, FailEffect, EndEffects, Go
<1>10. CASE Finish
  BY <1>10 DEF Finish, MarkApplied, ClearOlder, MarkFailed, EndDrain, Advance, Upload, Go
<1>11. CASE Compact
  <2>1. stage' = stage /\ (SaveSnapshot => LockFree) /\ (DeleteOld => compacting)
    BY <1>11 DEF Compact, SaveSnapshot, DeleteOld
  <2> QED
    BY <1>2, <1>11, <2>1 DEF Compact
<1>12. CASE Crash
  BY <1>12 DEF Crash
<1> QED
  BY <1>3, <1>4, <1>5, <1>6, <1>7, <1>8, <1>9, <1>10, <1>11, <1>12 DEF Next

-----------------------------------------------------------------------------

\* A waiting action that is written is on the screen and in the log.
LEMMA ShowsWritten ==
  ASSUME Inv, BaseInv, ScreenBound, WriteCaptured \/ WriteDeferred, NEW o \in Op, Shows(o)
  PROVE  Shows(o)'
<1>1. LogType /\ LogInv /\ UiType /\ OwnInv /\ KnowType
  BY DEF Inv, BaseInv
<1>2. /\ captured \in Seq(OwnOps) /\ deferred \in Seq(OwnOps) /\ Distinct(captured) /\ Distinct(deferred)
      /\ Among(captured) \cap Among(deferred) = {}
  BY <1>1 DEF UiType, OwnInv
<1>3. live' = live /\ lost' = lost /\ Observe(nextSeq, 1)
  BY DEF WriteCaptured, WriteDeferred
<1>4. PICK e \in Local \ DOMAIN logged : WriteLocal(e) /\ e \in Waiting /\ Waiting' = Waiting \ {e}
  <2>1. CASE WriteCaptured
    <3>1. captured # <<>> /\ captured' = Tail(captured) /\ deferred' = deferred /\ WriteLocal(Head(captured))
      BY <2>1 DEF WriteCaptured
    <3>2. Among(Tail(captured)) = Among(captured) \ {Head(captured)} /\ Head(captured) \in Among(captured)
      BY <1>2, <3>1, TailOf
    <3>3. Head(captured) \in Local \ DOMAIN logged /\ Head(captured) \in Waiting
      BY <1>1, <3>1, WaitingOf
    <3>4. Waiting' = Waiting \ {Head(captured)}
      BY <1>2, <3>1, <3>2 DEF Waiting
    <3> QED
      BY <3>1, <3>3, <3>4
  <2>2. CASE WriteDeferred
    <3>1. deferred # <<>> /\ deferred' = Tail(deferred) /\ captured' = captured /\ WriteLocal(Head(deferred))
      BY <2>2 DEF WriteDeferred
    <3>2. Among(Tail(deferred)) = Among(deferred) \ {Head(deferred)} /\ Head(deferred) \in Among(deferred)
      BY <1>2, <3>1, TailOf
    <3>3. Head(deferred) \in Local \ DOMAIN logged /\ Head(deferred) \in Waiting
      BY <1>1, <3>1, WaitingOf
    <3>4. Waiting' = Waiting \ {Head(deferred)}
      BY <1>2, <3>1, <3>2 DEF Waiting
    <3> QED
      BY <3>1, <3>3, <3>4
  <2> QED
    BY <2>1, <2>2
<1>5. Writes(e)
  BY <1>1, <1>4, WritesOf
<1>6. Holds(o)' <=> o = e \/ Holds(o)
  BY <1>1, <1>5, HoldsWritten
<1>7. CASE o = e
  <2>1. live'[o] = 1
    BY <1>3, <1>4, <1>7 DEF ScreenBound
  <2>2. Exact(o)'
    BY <1>6, <1>7, <2>1 DEF Exact
  <2> QED
    BY <2>2 DEF Shows
<1>8. CASE o # e
  <2>1. Exact(o) => Exact(o)'
    BY <1>3, <1>6, <1>8 DEF Exact
  <2>2. Excused(o) => Excused(o)'
    BY <1>3, <1>4, <1>5, <1>8 DEF Excused, Writes
  <2>3. ASSUME Unseen(o) PROVE Unseen(o)'
    <3>1. o \in TabOps /\ live[o] = 0 /\ Holds(o) /\ o \in Ids /\ (foreign \/ logged[o] > frontier) /\ logged[o] > cache.anchor
          /\ o \in DOMAIN logged
      BY <2>3 DEF Unseen, Holds
    <3>2. logged'[o] = logged[o] /\ cache' = cache
      BY <1>5, <1>8, <3>1 DEF Writes
    <3>3. PICK s \in DOMAIN rows : rows[s].op = o
      BY <3>1 DEF Ids
    <3>4. s \in DOMAIN rows' /\ rows'[s].op = o
      BY <1>5, <3>3 DEF Writes
    <3>5. o \in Ids'
      BY <3>4 DEF Ids
    <3> DEFINE x == logged[o]
    <3>6. nextSeq \in Nat /\ frontier \in Nat /\ x \in 1..(nextSeq - 1)
      BY <1>1, <3>1 DEF LogType, KnowType
    <3>7. foreign \/ x > frontier
      BY <3>1
    <3> HIDE DEF x
    <3>8. foreign' \/ x > frontier'
      BY <1>3, <3>6, <3>7, ObserveKeeps
    <3>9. logged'[o] = x /\ x > cache'.anchor
      BY <3>1, <3>2 DEF x
    <3> QED
      BY <1>3, <1>6, <3>1, <3>5, <3>8, <3>9 DEF Unseen
  <2> QED
    BY <2>1, <2>2, <2>3 DEF Shows
<1> QED
  BY <1>7, <1>8

\* The other tab's write is in the log and not on the screen.
LEMMA ShowsElsewhere ==
  ASSUME Inv, BaseInv, ScreenBound, NEW e \in TabOps, WriteElsewhere(e), NEW o \in Op, Shows(o)
  PROVE  Shows(o)'
<1>1. LogType /\ LogInv /\ UiType /\ OwnInv /\ KnowType
  BY DEF Inv, BaseInv
<1>2. e \in Local \ DOMAIN logged /\ WriteLocal(e) /\ e \in Op \ OwnOps
  BY OpsAssumption DEF WriteElsewhere, Local, Op
<1>3. /\ live' = live /\ lost' = lost /\ captured' = captured /\ deferred' = deferred
      /\ frontier' = frontier /\ foreign' = foreign
  BY DEF WriteElsewhere, ui, tab
<1>4. Writes(e)
  BY <1>1, <1>2, WritesOf
<1>5. Holds(o)' <=> o = e \/ Holds(o)
  BY <1>1, <1>2, <1>4, HoldsWritten
<1>6. CASE o = e
  <2>1. live'[o] = 0
    <3>1. ~(live[e] > 0) /\ live[e] \in Nat
      BY <1>1, <1>2 DEF ScreenBound, UiType
    <3> QED
      BY <1>3, <1>6, <3>1
  <2>2. logged'[o] = nextSeq /\ nextSeq > frontier' /\ nextSeq > cache'.anchor
    BY <1>1, <1>3, <1>4, <1>6 DEF Writes, LogType, KnowType, Snapshot
  <2>3. o \in Ids'
    BY <1>4, <1>6 DEF Writes, Ids
  <2>4. Unseen(o)'
    BY <1>5, <1>6, <2>1, <2>2, <2>3 DEF Unseen
  <2> QED
    BY <2>4 DEF Shows
<1>7. CASE o # e
  <2>1. Exact(o) => Exact(o)'
    BY <1>3, <1>5, <1>7 DEF Exact
  <2>2. Excused(o) => Excused(o)'
    BY <1>3, <1>4, <1>7 DEF Excused, Writes, Waiting
  <2>3. ASSUME Unseen(o) PROVE Unseen(o)'
    <3>1. o \in TabOps /\ live[o] = 0 /\ Holds(o) /\ o \in Ids /\ (foreign \/ logged[o] > frontier) /\ logged[o] > cache.anchor
          /\ o \in DOMAIN logged
      BY <2>3 DEF Unseen, Holds
    <3>2. logged'[o] = logged[o] /\ cache' = cache
      BY <1>4, <1>7, <3>1 DEF Writes
    <3>3. PICK s \in DOMAIN rows : rows[s].op = o
      BY <3>1 DEF Ids
    <3>4. s \in DOMAIN rows' /\ rows'[s].op = o
      BY <1>4, <3>3 DEF Writes
    <3>5. o \in Ids'
      BY <3>4 DEF Ids
    <3> QED
      BY <1>3, <1>5, <3>1, <3>2, <3>5 DEF Unseen
  <2> QED
    BY <2>1, <2>2, <2>3 DEF Shows
<1> QED
  BY <1>6, <1>7

\* The rows that show what this tab has missed stay, behind the snapshot.
LEMMA UnseenKept ==
  ASSUME Inv, OnceInv, KeepsRows \/ DeleteOld \/ Deletes(Older), NEW o \in TabOps, o \in Ids, logged[o] > cache.anchor
  PROVE  o \in Ids' /\ logged' = logged
<1>1. LogType /\ KnowType
  BY DEF Inv
<1>2. PICK s \in DOMAIN rows : rows[s].op = o
  BY DEF Ids
<1>3. logged[o] = s /\ s \in Nat /\ cache.anchor \in Nat
  BY <1>1, <1>2 DEF OnceInv, LogType, KnowType, Snapshot
<1>4. o \notin Imports
  BY OpsAssumption, ReducerAssumption DEF Local
<1>5. CASE KeepsRows
  BY <1>2, <1>5 DEF KeepsRows, Ids
<1>6. CASE DeleteOld
  <2>1. PICK S \in SUBSET (DOMAIN rows) : Deletes(S) /\ \A t \in S : t <= cache.anchor
    BY <1>1, <1>6, DeleteOldOf
  <2>2. s \notin S
    BY <1>3, <2>1
  <2> QED
    BY <1>2, <2>1, <2>2 DEF Deletes, Ids
<1>7. CASE Deletes(Older)
  <2>1. s \notin Older
    BY <1>2, <1>4 DEF Older
  <2> QED
    BY <1>2, <1>7, <2>1 DEF Deletes, Ids
<1> QED
  BY <1>5, <1>6, <1>7

\* What the screen shows of an operation is kept by a step that leaves its rows, the
\* cache and the screen's count of it alone.
LEMMA ShowsKept ==
  ASSUME Inv, OnceInv, KeepsRows \/ DeleteOld \/ Deletes(Older), cache' = cache,
         UNCHANGED <<captured, deferred, lost, frontier, foreign>>, NEW o \in Op, live'[o] = live[o], Shows(o)
  PROVE  Shows(o)'
<1>1. logged' = logged
  <2>1. CASE DeleteOld
    BY <2>1, DeleteOldOf DEF Inv, Deletes
  <2> QED
    BY <2>1 DEF KeepsRows, Deletes
<1>2. Holds(o)' <=> Holds(o)
  BY <1>1 DEF Holds
<1>3. Exact(o) => Exact(o)'
  BY <1>2 DEF Exact
<1>4. Excused(o) => Excused(o)'
  BY <1>1 DEF Excused, Waiting
<1>5. ASSUME Unseen(o) PROVE Unseen(o)'
  <2>1. /\ o \in TabOps /\ live[o] = 0 /\ Holds(o) /\ o \in Ids
        /\ (foreign \/ logged[o] > frontier) /\ logged[o] > cache.anchor
    BY <1>5 DEF Unseen
  <2>2. o \in Ids'
    BY <2>1, UnseenKept
  <2> QED
    BY <1>1, <1>2, <2>1, <2>2 DEF Unseen
<1> QED
  BY <1>3, <1>4, <1>5 DEF Shows

\* An action that is dispatched waits for its write.
LEMMA ShowsDispatched ==
  ASSUME Inv, BaseInv, ScreenBound, Dispatch, NEW o \in Op, Shows(o)
  PROVE  Shows(o)'
<1>1. UiType /\ OwnInv /\ LogType
  BY DEF Inv, BaseInv
<1> DEFINE e == nextOwn + 1
<1>2. /\ nextOwn' = e /\ e \in OwnOps /\ nextOwn \in Nat
      /\ \A p \in Op : live'[p] = IF p = e THEN live[p] + 1 ELSE live[p]
  BY <1>1, DispatchLive
<1>3. UNCHANGED <<rows, nextSeq, cache, clock, lost, frontier, foreign, logged>>
  BY DEF Dispatch, disk, tab
<1>4. /\ captured \in Seq(OwnOps) /\ deferred \in Seq(OwnOps)
      /\ \/ captured' = Append(captured, e) /\ deferred' = deferred
         \/ deferred' = Append(deferred, e) /\ captured' = captured
  BY <1>1 DEF Dispatch, UiType
<1>5. e > nextOwn
  BY <1>2
<1> HIDE DEF e
<1>6. e \notin DOMAIN logged /\ e \notin Waiting
  <2>1. ASSUME e \in DOMAIN logged \cup Waiting PROVE FALSE
    <3>1. e <= nextOwn /\ e \in Nat
      BY <1>1, <1>2, <2>1, OpsAssumption DEF OwnInv, Op, Local
    <3> QED
      BY <1>2, <1>5, <3>1
  <2> QED
    BY <2>1
<1>7. Waiting' = Waiting \cup {e}
  <2>1. Distinct(captured) /\ Distinct(deferred) /\ e \notin Among(captured) /\ e \notin Among(deferred)
    BY <1>1, <1>6 DEF OwnInv, Waiting
  <2>2. Among(Append(captured, e)) = Among(captured) \cup {e} /\ Among(Append(deferred, e)) = Among(deferred) \cup {e}
    BY <1>2, <1>4, <2>1, AppendOf
  <2> QED
    BY <1>4, <2>2 DEF Waiting
<1>8. Holds(o)' <=> Holds(o)
  BY <1>3 DEF Holds
<1>9. CASE o = e
  <2>1. live[e] = 0 /\ e \in Op
    BY <1>2, <1>5 DEF ScreenBound, Op, Local
  <2>2. live'[e] = live[e] + 1
    BY <1>2, <2>1
  <2>3. live'[e] = 1
    BY <2>1, <2>2
  <2>4. Excused(o)'
    BY <1>2, <1>3, <1>6, <1>7, <1>9, <2>3 DEF Excused
  <2> QED
    BY <2>4 DEF Shows
<1>10. CASE o # e
  <2>1. live'[o] = live[o]
    BY <1>2, <1>10
  <2>2. Exact(o) => Exact(o)'
    BY <1>8, <2>1 DEF Exact
  <2>3. Excused(o) => Excused(o)'
    BY <1>3, <1>7, <2>1 DEF Excused
  <2>4. Unseen(o) => Unseen(o)'
    BY <1>3, <1>8, <2>1 DEF Unseen, Ids
  <2> QED
    BY <2>2, <2>3, <2>4 DEF Shows
<1> QED
  BY <1>9, <1>10

\* An action whose write fails is excused for good.
LEMMA ShowsLost ==
  ASSUME Inv, BaseInv, LoseCaptured, NEW o \in Op, Shows(o)
  PROVE  Shows(o)'
<1>1. UNCHANGED <<live, rows, cache, logged, frontier, foreign>> /\ lost' = TRUE
  BY DEF LoseCaptured, disk, tab
<1>2. Holds(o)' <=> Holds(o)
  BY <1>1 DEF Holds
<1>3. Exact(o) => Exact(o)'
  BY <1>1, <1>2 DEF Exact
<1>4. Excused(o) => Excused(o)'
  BY <1>1 DEF Excused
<1>5. Unseen(o) => Unseen(o)'
  BY <1>1, <1>2 DEF Unseen, Ids
<1> QED
  BY <1>3, <1>4, <1>5 DEF Shows

\* No step but a start, a batch and the reducers takes an operation from what it shows.
LEMMA ShowsStays ==
  ASSUME Inv, BaseInv, ScreenBound, Next, cache' = cache, live' = live \/ Dispatch,
         ~Settle, ~Crash, ~(StoreBatch /\ Applicable # <<>>), NEW o \in Op, Shows(o)
  PROVE  Shows(o)'
<1>1. LogType /\ LogInv /\ UiType /\ OwnInv /\ OnceInv
  BY DEF Inv, BaseInv
<1>2. CASE Dispatch
  BY <1>2, ShowsDispatched
<1>3. CASE LoseCaptured
  BY <1>3, ShowsLost
<1>4. CASE WriteCaptured \/ WriteDeferred
  BY <1>4, ShowsWritten
<1>5. CASE \E e \in TabOps : WriteElsewhere(e)
  BY <1>5, ShowsElsewhere
<1>6. CASE ~Dispatch /\ ~LoseCaptured /\ ~WriteCaptured /\ ~WriteDeferred /\ ~\E e \in TabOps : WriteElsewhere(e)
  <2>1. UNCHANGED <<captured, deferred, lost, nextOwn>> /\ live' = live
    BY <1>6, UiStep
  <2>2. UNCHANGED <<frontier, foreign>>
    <3>1. StoreBatch /\ Applicable = <<>> => UNCHANGED <<frontier, foreign>>
      BY DEF StoreBatch, tab
    <3> QED
      BY <1>6, <3>1, FrontStep
  <2>3. KeepsRows \/ DeleteOld \/ Deletes(Older)
    BY <1>1, <1>6, LogStep
  <2> QED
    BY <1>1, <2>1, <2>2, <2>3, ShowsKept
<1> QED
  BY <1>2, <1>3, <1>4, <1>5, <1>6

-----------------------------------------------------------------------------
(* Where a batch is stored *)

\* What StoreBatch leaves, as the rest of the apply sees it.
LEMMA StoredRows ==
  ASSUME Regular, Inv, BaseInv, StateInv, StoreBatch, Applicable # <<>>
  PROVE  /\ \A s \in Batch' : \E k \in 1..Len(Applicable) : s = nextSeq + k - 1 /\ rows'[s].op = Applicable[k]
         /\ \A k \in 1..Len(Applicable) : nextSeq + k - 1 \in Batch' /\ rows'[nextSeq + k - 1].op = Applicable[k]
         /\ \A k \in 1..Len(Applicable) : Applicable[k] \notin DOMAIN logged \ Broken /\ Applicable[k] \in Remote
         /\ LogType /\ Appends(Applicable) /\ Applicable \in Seq(Op)
         /\ \A i, j \in 1..Len(Applicable) : Applicable[i] = Applicable[j] => i = j
<1> DEFINE a == Applicable
<1>1. /\ Appends(a) /\ Fresh(a) /\ a \in Seq(Op) /\ Len(a) \in Nat \ {0} /\ stage = "flushed"
      /\ Len(work') = Len(a) /\ \A i \in 1..Len(a) : work'[i] = nextSeq + i - 1
  BY BatchFacts
<1>2. \A k \in 1..Len(a) : a[k] \notin DOMAIN logged \ Broken
  BY <1>1, FreshBatch DEF StateInv
<1>3. work' = [i \in DOMAIN a |-> nextSeq + i - 1]
  BY DEF StoreBatch
<1>4. \A k \in 1..Len(a) : a[k] \in Remote
  BY <1>1 DEF Fresh
<1> HIDE DEF a
<1>5. DOMAIN work' = 1..Len(a)
  BY <1>1, <1>3
<1>6. \A i \in 1..Len(a) : rows'[nextSeq + i - 1].op = a[i]
  BY <1>1 DEF Appends
<1>7. \A s \in Batch' : \E k \in 1..Len(a) : s = nextSeq + k - 1 /\ rows'[s].op = a[k]
  BY <1>1, <1>5, <1>6 DEF Batch
<1>8. \A k \in 1..Len(a) : nextSeq + k - 1 \in Batch' /\ rows'[nextSeq + k - 1].op = a[k]
  <2>1. \A k \in 1..Len(a) : work'[k] \in Batch'
    BY <1>5 DEF Batch
  <2> QED
    BY <1>1, <1>6, <2>1
<1>9. LogType /\ \A i, j \in 1..Len(a) : a[i] = a[j] => i = j
  BY <1>1 DEF Inv, Fresh
<1> QED
  BY <1>1, <1>2, <1>4, <1>7, <1>8, <1>9 DEF a

\* What is on the screen at most is kept by every step.
LEMMA ScreenStep ==
  ASSUME Regular, Inv, BaseInv, StateInv, Next
  PROVE  ScreenInv'
<1>1. ScreenBound'
  BY BoundStep
<1>2. LogType /\ LogInv /\ UiType /\ WorkType /\ WorkInv
  BY DEF Inv
<1>3. ASSUME stage' \in {"stored", "informed"} PROVE \A s \in Batch' : live'[rows'[s].op] = 0
  <2>1. CASE StoreBatch /\ Applicable # <<>>
    <3> SUFFICES ASSUME NEW s \in Batch' PROVE live'[rows'[s].op] = 0
      OBVIOUS
    <3>1. PICK k \in 1..Len(Applicable) : rows'[s].op = Applicable[k]
      BY <2>1, StoredRows
    <3> DEFINE o == Applicable[k]
    <3>2. o \notin DOMAIN logged \ Broken /\ o \in Remote
      BY <2>1, StoredRows
    <3>3. live' = live
      BY <2>1 DEF StoreBatch, ui
    <3> HIDE DEF o
    <3>4. o \in Op \ OwnOps
      BY <3>2, OpsAssumption DEF Op, Local
    <3>5. live[o] \in Nat
      BY <1>2, <3>4 DEF UiType
    <3>6. live[o] = 0
      <4>1. CASE o \in Broken
        BY <4>1 DEF StateInv, ScreenInv
      <4>2. CASE o \notin DOMAIN logged
        <5>1. ~(live[o] > 0)
          BY <3>4, <4>2 DEF StateInv, ScreenInv
        <5> QED
          BY <3>5, <5>1
      <4> QED
        BY <3>2, <4>1, <4>2
    <3> QED
      BY <3>1, <3>3, <3>6 DEF o
  <2>2. CASE /\ stage \in {"stored", "informed"}
             /\ UNCHANGED <<rows, nextSeq, logged, cache, frontier, foreign, work>>
             /\ Dispatch \/ LoseCaptured \/ UNCHANGED <<live, captured, deferred, lost, nextOwn>>
    <3>1. Batch' = Batch /\ \A s \in Batch : live[rows[s].op] = 0
      BY <2>2 DEF Batch, StateInv, ScreenInv
    <3>2. \A s \in Batch : rows[s].op \in Remote
      <4>1. \A i \in 1..Len(work) : work[i] \in Pending
        BY <1>2, <2>2 DEF WorkInv
      <4>2. DOMAIN work = 1..Len(work)
        BY <1>2, WorkSeq
      <4> QED
        BY <1>2, <4>1, <4>2 DEF Batch, Pending, LogInv
    <3>3. CASE Dispatch
      <4>1. nextOwn' \in OwnOps /\ \A p \in Op : live'[p] = IF p = nextOwn' THEN live[p] + 1 ELSE live[p]
        BY <1>2, <3>3, DispatchLive
      <4>2. \A o \in Remote : o \in Op /\ o \notin OwnOps
        BY OpsAssumption DEF Op, Local
      <4>3. \A o \in Remote : live'[o] = live[o]
        BY <4>1, <4>2
      <4> QED
        BY <2>2, <3>1, <3>2, <4>3
    <3>4. CASE ~Dispatch
      <4>1. live' = live
        BY <2>2, <3>4 DEF LoseCaptured
      <4> QED
        BY <2>2, <3>1, <4>1
    <3> QED
      BY <3>3, <3>4
  <2> QED
    BY <1>3, <2>1, <2>2, StoredStep
<1> QED
  BY <1>1, <1>3 DEF ScreenBound, ScreenInv

\* A batch with a full-state operation comes when nothing waits for its write.
LEMMA BatchQuiet ==
  ASSUME Inv, BaseInv, StoreBatch, LastImport(Applicable) # 0
  PROVE  Waiting = {}
<1>1. FeedType /\ stage = "flushed"
  BY DEF Inv, StoreBatch
<1>2. first \in Nat \ {0} /\ target \in 0..Len(Feed)
  BY <1>1, OpsAssumption DEF FeedType
<1>3. News(target) \in Seq(Remote) /\ Applicable \in Seq(Remote)
  BY <1>2, NewsOf, ApplicableOf DEF Fresh
<1>4. \A i \in 1..Len(Applicable) : \E k \in 1..Len(News(target)) : News(target)[k] = Applicable[i]
  BY <1>2, ApplicableOf
<1>5. LastImport(News(target)) # 0
  <2> DEFINE n == News(target)
             a == Applicable
  <2> HIDE DEF n, a
  <2>1. LastImport(a) \in 1..Len(a) /\ a[LastImport(a)] \in Imports
    BY <1>3, LastImportOf DEF a
  <2>2. PICK k \in 1..Len(n) : n[k] = a[LastImport(a)]
    BY <1>4, <2>1 DEF n, a
  <2>3. k <= LastImport(n)
    BY <1>3, <2>1, <2>2, LastImportOf DEF n
  <2> QED
    BY <2>2, <2>3 DEF n
<1>6. captured = <<>> /\ Imports # {}
  <2>1. captured = <<>>
    BY <1>5 DEF StoreBatch, Quiet
  <2>2. Imports # {}
    BY <1>3, LastImportOf
  <2> QED
    BY <2>1, <2>2
<1>7. deferred = <<>>
  BY <1>1, <1>6 DEF BaseInv, BufferInv
<1> QED
  BY <1>6, <1>7, EmptyOf DEF Waiting

\* A stored batch has a full-state operation if what was downloaded had one.
LEMMA FullStateStored ==
  ASSUME Regular, Inv, BaseInv, StateInv, StoreBatch, Applicable # <<>>
  PROVE  FullState' <=> LastImport(Applicable) # 0
<1> DEFINE a == Applicable
<1>1. /\ a \in Seq(Op) /\ Len(work') = Len(a) /\ work' = [i \in DOMAIN a |-> nextSeq + i - 1]
      /\ \A k \in 1..Len(a) : rows'[nextSeq + k - 1].op = a[k]
  <2>1. Len(work') = Len(a)
    BY BatchFacts
  <2>2. work' = [i \in DOMAIN a |-> nextSeq + i - 1]
    BY DEF StoreBatch
  <2> QED
    BY <2>1, <2>2, StoredRows
<1> HIDE DEF a
<1>2. DOMAIN a = 1..Len(a) /\ DOMAIN work' = 1..Len(a) /\ \A i \in 1..Len(a) : rows'[work'[i]].op = a[i]
  BY <1>1
<1>3. FullState' <=> \E i \in 1..Len(a) : a[i] \in Imports
  BY <1>2 DEF FullState
<1>4. (\E i \in 1..Len(a) : a[i] \in Imports) <=> LastImport(a) # 0
  <2>1. /\ LastImport(a) \in 0..Len(a)
        /\ \A i \in 1..Len(a) : a[i] \in Imports => i <= LastImport(a)
        /\ LastImport(a) # 0 => a[LastImport(a)] \in Imports
    BY <1>1, LastImportOf
  <2> QED
    BY <2>1
<1> QED
  BY <1>3, <1>4 DEF a

\* What of a stored batch its reducers will put on the screen.
LEMMA EffectiveStored ==
  ASSUME Regular, Inv, BaseInv, StateInv, StoreBatch, Applicable # <<>>, NEW o \in Op
  PROVE  Effective(o, Batch)' <=>
           o \notin Broken /\ \E i \in 1..Len(Applicable) : Applicable[i] = o /\ i >= LastImport(Applicable)
<1> DEFINE a == Applicable
           n == LastImport(a)
<1>1. /\ \A s \in Batch' : \E k \in 1..Len(a) : s = nextSeq + k - 1 /\ rows'[s].op = a[k]
      /\ \A k \in 1..Len(a) : nextSeq + k - 1 \in Batch' /\ rows'[nextSeq + k - 1].op = a[k]
      /\ a \in Seq(Op) /\ nextSeq \in Nat
  BY StoredRows DEF LogType
<1>2. /\ n \in 0..Len(a) /\ Len(a) \in Nat
      /\ \A i \in 1..Len(a) : a[i] \in Imports => i <= n
      /\ n # 0 => a[n] \in Imports
  BY <1>1, LastImportOf
<1> HIDE DEF a, n
<1>3. ASSUME NEW i \in 1..Len(a), a[i] = o, i >= n
      PROVE  \E s \in Batch' : rows'[s].op = o /\ \A t \in Batch' : rows'[t].op \in Imports => t <= s
  <2>1. nextSeq + i - 1 \in Batch' /\ rows'[nextSeq + i - 1].op = o
    BY <1>1, <1>3
  <2>2. ASSUME NEW t \in Batch', rows'[t].op \in Imports PROVE t <= nextSeq + i - 1
    <3>1. PICK k \in 1..Len(a) : t = nextSeq + k - 1 /\ rows'[t].op = a[k]
      BY <1>1
    <3>2. k <= n
      BY <1>2, <2>2, <3>1
    <3> QED
      BY <1>1, <1>2, <1>3, <3>1, <3>2
  <2> QED
    BY <2>1, <2>2
<1>4. ASSUME NEW s \in Batch', rows'[s].op = o, \A t \in Batch' : rows'[t].op \in Imports => t <= s
      PROVE  \E i \in 1..Len(a) : a[i] = o /\ i >= n
  <2>1. PICK i \in 1..Len(a) : s = nextSeq + i - 1 /\ rows'[s].op = a[i]
    BY <1>1
  <2>2. i >= n
    <3>1. CASE n = 0
      BY <1>2, <3>1
    <3>2. CASE n # 0
      <4>1. n \in 1..Len(a)
        BY <1>2, <3>2
      <4>2. nextSeq + n - 1 \in Batch' /\ rows'[nextSeq + n - 1].op \in Imports
        BY <1>1, <1>2, <3>2, <4>1
      <4>3. nextSeq + n - 1 <= s
        BY <1>4, <4>2
      <4> QED
        BY <1>1, <2>1, <4>1, <4>3
    <3> QED
      BY <3>1, <3>2
  <2> QED
    BY <1>4, <2>1, <2>2
<1>5. Effective(o, Batch)' <=> o \notin Broken /\ \E s \in Batch' :
        rows'[s].op = o /\ \A t \in Batch' : rows'[t].op \in Imports => t <= s
  BY DEF Effective
<1>6. Effective(o, Batch)' <=> o \notin Broken /\ \E i \in 1..Len(a) : a[i] = o /\ i >= n
  BY <1>3, <1>4, <1>5
<1> QED
  BY <1>6 DEF a, n

\* The screen misses exactly the batch that is stored.
LEMMA MissesStored ==
  ASSUME Regular, Inv, BaseInv, StateInv, StoreBatch, Applicable # <<>>
  PROVE  MissesBatch'
<1> DEFINE a == Applicable
           n == LastImport(a)
<1>1. /\ \A s \in Batch' : \E k \in 1..Len(a) : s = nextSeq + k - 1 /\ rows'[s].op = a[k]
      /\ \A k \in 1..Len(a) : nextSeq + k - 1 \in Batch' /\ rows'[nextSeq + k - 1].op = a[k]
      /\ \A k \in 1..Len(a) : a[k] \notin DOMAIN logged \ Broken /\ a[k] \in Remote
      /\ LogType /\ Appends(a) /\ a \in Seq(Op)
      /\ \A i, j \in 1..Len(a) : a[i] = a[j] => i = j
  BY StoredRows
<1>2. FullState' <=> n # 0
  BY FullStateStored
<1>3. \A o \in Op : Holds(o)' <=> \/ o \notin Broken /\ \E i \in 1..Len(a) : a[i] = o /\ i >= n
                                  \/ n = 0 /\ Holds(o)
  BY <1>1, HoldsAfter
<1>4. \A o \in Op : Effective(o, Batch)' <=> o \notin Broken /\ \E i \in 1..Len(a) : a[i] = o /\ i >= n
  BY EffectiveStored
<1>5. UNCHANGED <<live, captured, deferred, lost>> /\ cache' = cache /\ stage = "flushed" /\ Pending = {}
      /\ Observe(nextSeq, Len(a))
  BY BatchFacts DEF StoreBatch, ui
<1>6. n # 0 => Waiting = {}
  BY BatchQuiet
<1>7. Waiting' = Waiting
  BY <1>5 DEF Waiting
<1>8. n \in 0..Len(a) /\ Len(a) \in Nat
  BY <1>1, LastImportOf
<1> HIDE DEF a, n
<1>9. CASE FullState'
  <2>1. \A o \in Op : Holds(o)' <=> Effective(o, Batch)'
    BY <1>2, <1>3, <1>4, <1>9
  <2> QED
    BY <1>2, <1>6, <1>7, <1>9, <2>1 DEF MissesBatch
<1>10. CASE ~FullState'
  <2>1. ASSUME NEW o \in Op, NEW s \in Batch', rows'[s].op = o PROVE o \in Broken \/ Holds(o)'
    <3>1. PICK k \in 1..Len(a) : a[k] = o
      BY <1>1, <2>1
    <3>2. k >= n
      BY <1>2, <1>8, <1>10
    <3> QED
      BY <1>3, <3>1, <3>2
  <2>2. ASSUME NEW o \in Op, ~\E s \in Batch' : rows'[s].op = o PROVE Shows(o)'
    <3>1. \A k \in 1..Len(a) : a[k] # o
      BY <1>1, <2>2
    <3>2. Holds(o)' <=> Holds(o)
      BY <1>2, <1>3, <1>10, <3>1
    <3>3. Shows(o)
      BY <1>5 DEF StateInv, LiveInv
    <3>4. Exact(o) => Exact(o)'
      BY <1>5, <3>2 DEF Exact
    <3>5. Excused(o) => Excused(o)'
      <4>1. DOMAIN logged' = DOMAIN logged \cup {a[i] : i \in 1..Len(a)}
        BY <1>1 DEF Appends
      <4> QED
        BY <1>5, <1>7, <3>1, <4>1 DEF Excused
    <3>6. ASSUME Unseen(o) PROVE Unseen(o)'
      <4>1. /\ o \in TabOps /\ live[o] = 0 /\ Holds(o) /\ o \in Ids /\ (foreign \/ logged[o] > frontier)
            /\ logged[o] > cache.anchor /\ o \in DOMAIN logged
        BY <3>6 DEF Unseen, Holds
      <4>2. logged'[o] = logged[o]
        BY <1>1, <3>1, <4>1 DEF Appends
      <4>3. PICK s \in DOMAIN rows : rows[s].op = o
        BY <4>1 DEF Ids
      <4>4. s \in DOMAIN rows' /\ rows'[s].op = o
        BY <1>1, <4>3 DEF Appends
      <4>5. o \in Ids'
        BY <4>4 DEF Ids
      <4> DEFINE x == logged[o]
      <4>6. nextSeq \in Nat /\ frontier \in Nat /\ x \in 1..(nextSeq - 1)
        BY <1>1, <4>1 DEF LogType, KnowType, Inv
      <4>7. foreign \/ x > frontier
        BY <4>1
      <4> HIDE DEF x
      <4>8. foreign' \/ x > frontier'
        BY <1>5, <1>8, <4>6, <4>7, ObserveKeeps
      <4>9. logged'[o] = x /\ x > cache'.anchor
        BY <1>5, <4>1, <4>2 DEF x
      <4> QED
        BY <1>5, <3>2, <4>1, <4>5, <4>8, <4>9 DEF Unseen
    <3> QED
      BY <3>3, <3>4, <3>5, <3>6 DEF Shows
  <2> QED
    BY <1>10, <2>1, <2>2 DEF MissesBatch
<1> QED
  BY <1>9, <1>10

\* Until the reducers run, nothing changes that.
LEMMA MissesStays ==
  ASSUME Regular, Inv, BaseInv, StateInv, Next, stage \in {"stored", "informed"}, stage' \in {"stored", "informed"},
         UNCHANGED <<rows, nextSeq, logged, cache, frontier, foreign, work>>,
         Dispatch \/ LoseCaptured \/ UNCHANGED <<live, captured, deferred, lost, nextOwn>>
  PROVE  MissesBatch'
<1>1. MissesBatch /\ ScreenBound /\ mode = "download"
  BY DEF StateInv, LiveInv, ScreenInv, ScreenBound, Inv, StageInv
<1>2. (FullState' <=> FullState) /\ Batch' = Batch
  BY DEF FullState, Batch
<1>3. \A o \in Op : (Holds(o)' <=> Holds(o)) /\ (Effective(o, Batch)' <=> Effective(o, Batch))
  BY <1>2 DEF Holds, Effective
<1>4. CASE FullState
  <2>1. Waiting = {}
    BY <1>1, <1>4 DEF MissesBatch
  <2>2. Imports # {}
    BY <1>4 DEF FullState
  <2>3. ~Dispatch
    BY <1>1, <1>4, <2>2 DEF Regular, Dispatch
  <2>4. ~LoseCaptured
    <3>1. captured # <<>> => Waiting # {}
      BY WaitingOf DEF Inv, BaseInv
    <3> QED
      BY <2>1, <3>1 DEF LoseCaptured
  <2>5. Waiting' = Waiting
    BY <2>3, <2>4 DEF Waiting
  <2> QED
    BY <1>1, <1>2, <1>3, <1>4, <2>5 DEF MissesBatch
<1>5. CASE ~FullState
  <2>1. ASSUME NEW o \in Op, Shows(o) PROVE Shows(o)'
    <3>1. CASE Dispatch
      BY <1>1, <2>1, <3>1, ShowsDispatched
    <3>2. CASE LoseCaptured
      BY <2>1, <3>2, ShowsLost
    <3>3. CASE UNCHANGED <<live, captured, deferred, lost, nextOwn>>
      <4>1. KeepsRows
        BY DEF KeepsRows
      <4> QED
        BY <2>1, <3>3, <4>1, ShowsKept DEF BaseInv
    <3> QED
      BY <3>1, <3>2, <3>3
  <2>2. \A o \in Op : IF \E s \in Batch : rows[s].op = o THEN o \in Broken \/ Holds(o) ELSE Shows(o)
    BY <1>1, <1>5 DEF MissesBatch
  <2>3. \A o \in Op : IF \E s \in Batch' : rows'[s].op = o THEN o \in Broken \/ Holds(o)' ELSE Shows(o)'
    BY <1>2, <1>3, <2>1, <2>2
  <2> QED
    BY <1>2, <1>5, <2>3 DEF MissesBatch
<1> QED
  BY <1>4, <1>5

\* The reducers bring the screen up to the log again.
LEMMA ShowsReduced ==
  ASSUME Regular, Inv, BaseInv, StateInv, RunReducers, NEW o \in Op
  PROVE  Shows(o)'
<1>1. OnceInv /\ BatchInv /\ LogInv /\ UiType /\ LogType
  BY DEF Inv, BaseInv
<1>2. /\ live'[o] = (IF FullState THEN 0 ELSE live[o]) + (IF Effective(o, Batch) THEN 1 ELSE 0)
      /\ FullState <=> \E t \in Batch : rows[t].op \in Imports
      /\ \A s \in Batch : s \in DOMAIN rows /\ rows[s].op \in Remote
      /\ stage = "informed" /\ Batch \subseteq Nat
  BY <1>1, BatchLive
<1>3. MissesBatch /\ \A s \in Batch : live[rows[s].op] = 0
  BY <1>2 DEF StateInv, LiveInv, ScreenInv
<1>4. UNCHANGED <<rows, logged, cache, captured, deferred, lost, frontier, foreign>>
  BY DEF RunReducers, disk, tab
<1>5. Holds(o)' <=> Holds(o)
  BY <1>4 DEF Holds
<1>6. live[o] \in Nat
  BY <1>1 DEF UiType
<1>7. CASE FullState
  <2>1. Holds(o) <=> Effective(o, Batch)
    BY <1>3, <1>7 DEF MissesBatch
  <2>2. Exact(o)'
    BY <1>2, <1>5, <1>7, <2>1 DEF Exact
  <2> QED
    BY <2>2 DEF Shows
<1>8. CASE ~FullState /\ \E s \in Batch : rows[s].op = o
  <2>1. live[o] = 0
    BY <1>3, <1>8
  <2>2. Holds(o) <=> o \notin Broken
    BY <1>3, <1>8 DEF MissesBatch, Holds
  <2>3. Effective(o, Batch) <=> o \notin Broken
    BY <1>2, <1>8 DEF Effective
  <2>4. Exact(o)'
    BY <1>2, <1>5, <1>8, <2>1, <2>2, <2>3 DEF Exact
  <2> QED
    BY <2>4 DEF Shows
<1>9. CASE ~FullState /\ ~\E s \in Batch : rows[s].op = o
  <2>1. ~Effective(o, Batch)
    BY <1>9 DEF Effective
  <2>2. live'[o] = live[o]
    BY <1>2, <1>6, <1>9, <2>1
  <2>3. Shows(o)
    BY <1>3, <1>9 DEF MissesBatch
  <2>4. KeepsRows
    BY DEF RunReducers, disk, KeepsRows
  <2> QED
    BY <1>1, <1>4, <2>2, <2>3, <2>4, ShowsKept
<1> QED
  BY <1>7, <1>8, <1>9

\* The stages of a start and of an apply follow each other.
LEMMA ReducedStep ==
  ASSUME Next
  PROVE  /\ stage' = "reduced" => stage = "reduced" \/ RunReducers
         /\ stage = "off" => stage' \in {"off", "loaded"}
         /\ Settle => stage = "replayed"
         /\ Replay => stage' = "replayed"
         /\ CommitReducers => stage = "reduced"
         /\ Crash => stage' = "off"
         /\ Load => stage' = "loaded" /\ live' = cache.state /\ cache' = cache
<1>1. stage' = "reduced" => stage = "reduced" \/ RunReducers
  <2>1. CASE Start
    BY <2>1 DEF Start, Load, Replay, Settle, EndStart, Go, Begin
  <2>2. CASE User
    BY <2>2 DEF User, Dispatch, WriteCaptured, LoseCaptured, WriteElsewhere
  <2>3. CASE Buffer
    BY <2>3 DEF Buffer, WriteDeferred, FailDeferred
  <2>4. CASE Publish \/ Crash
    BY <2>4 DEF Publish, Crash
  <2>5. CASE Fetch
    <3>1. CASE StoreBatch
      BY <3>1 DEF StoreBatch
    <3>2. CASE Sync \/ Gate \/ FirstPage \/ LastPage \/ Refuse
      BY <3>2 DEF Sync, Gate, FirstPage, LastPage, Refuse, Go, Begin
    <3> QED
      BY <2>5, <3>1, <3>2 DEF Fetch
  <2>6. CASE Stage
    BY <2>6 DEF Stage, MergeClocks, CommitReducers, Throw, Go
  <2>7. CASE Effects
    BY <2>7 DEF Effects, RunEffect, FailEffect, EndEffects, Go
  <2>8. CASE Finish
    BY <2>8 DEF Finish, MarkApplied, ClearOlder, MarkFailed, EndDrain, Advance, Upload, Go
  <2>9. CASE Compact
    BY <2>9 DEF Compact, SaveSnapshot, DeleteOld
  <2> QED
    BY <2>1, <2>2, <2>3, <2>4, <2>5, <2>6, <2>7, <2>8, <2>9 DEF Next
<1>2. stage = "off" => stage' \in {"off", "loaded"}
  BY BootStep DEF Load, Go
<1> QED
  BY <1>1, <1>2 DEF Settle, Replay, CommitReducers, Crash, Load, Go

\* The screen is the log at every stage, but for what each stage says.
LEMMA LiveInvStep ==
  ASSUME Regular, Inv, BaseInv, StateInv, Next
  PROVE  LiveInv'
<1>1. LogType /\ LogInv /\ UiType /\ OwnInv /\ OnceInv /\ PendInv /\ SnapInv /\ LiveInv /\ ScreenBound /\ StageInv
  BY DEF Inv, BaseInv, StateInv, ScreenInv, ScreenBound
<1>2. cache' = cache \/ (stage \notin {"off", "loaded", "replayed"} /\ SaveSafe(LastSeq) /\ ~PhantomRisk
                         /\ Pending = {} /\ UNCHANGED <<live, logged>>)
  BY <1>1, CacheStep
<1>3. stage \in {"loaded", "replayed"} => ~Dispatch /\ ~RunReducers
  BY DEF Dispatch, RunReducers, Running, BootStages, Go
<1>4. ASSUME stage' = "loaded" PROVE live' = cache'.state
  <2>1. CASE Load
    BY <2>1, ReducedStep
  <2>2. CASE ~Load
    <3>1. stage = "loaded"
      BY <1>4, <2>2, BootStep
    <3>2. live' = live /\ cache' = cache
      BY <1>2, <1>3, <1>4, <2>2, <3>1, LiveStep, ReducedStep
    <3> QED
      BY <1>1, <3>1, <3>2 DEF LiveInv
  <2> QED
    BY <2>1, <2>2
<1>5. ASSUME stage' = "replayed", NEW o \in Op PROVE Exact(o)'
  <2>1. CASE Replay
    <3>1. stage = "loaded" /\ logged' = logged
      BY <2>1 DEF Replay, Go
    <3>2. live = cache.state
      BY <1>1, <3>1 DEF LiveInv
    <3>3. live'[o] = IF Holds(o) THEN 1 ELSE 0
      BY <1>1, <2>1, <3>2, ReplayExact
    <3> QED
      BY <3>1, <3>3 DEF Exact, Holds
  <2>2. CASE ~Replay
    <3>1. stage = "replayed"
      BY <1>5, <2>2, BootStep
    <3>2. live' = live
      BY <1>3, <1>5, <2>2, <3>1, LiveStep, ReducedStep
    <3>3. logged' = logged
      <4>1. ~WriteCaptured /\ ~WriteDeferred /\ ~StoreBatch /\ ~\E e \in TabOps : WriteElsewhere(e)
        BY <3>1 DEF WriteCaptured, WriteDeferred, StoreBatch, WriteElsewhere, Running, BootStages
      <4>2. KeepsRows \/ DeleteOld \/ Deletes(Older)
        BY <1>1, <4>1, LogStep
      <4>3. DeleteOld => logged' = logged
        BY DEF DeleteOld
      <4> QED
        BY <4>2, <4>3 DEF KeepsRows, Deletes
    <3> QED
      BY <1>1, <3>1, <3>2, <3>3 DEF LiveInv, Exact, Holds
  <2> QED
    BY <2>1, <2>2
<1>6. ASSUME stage' \notin {"off", "loaded"}, Pending' = {} \/ stage' = "reduced", NEW o \in Op PROVE Shows(o)'
  <2>1. CASE Replay
    BY <1>5, <2>1, ReducedStep DEF Shows
  <2>2. CASE RunReducers
    BY <2>2, ShowsReduced
  <2>3. CASE Settle
    <3>1. Exact(o)
      BY <1>1, <2>3, ReducedStep DEF LiveInv
    <3>2. live' = live /\ logged' = logged
      BY <2>3 DEF Settle, ui
    <3>3. Exact(o)'
      BY <3>1, <3>2 DEF Exact, Holds
    <3> QED
      BY <3>3 DEF Shows
  <2>4. CASE ~Replay /\ ~RunReducers /\ ~Settle
    <3>1. ~Crash /\ ~Load
      BY <1>6, ReducedStep
    <3>2. live' = live \/ Dispatch
      BY <2>4, <3>1, LiveStep
    <3>3. stage \notin {"off", "loaded"}
      BY <1>6, <2>4, <3>1, BootStep, ReducedStep
    <3>4. ~(StoreBatch /\ Applicable # <<>>)
      <4> SUFFICES ASSUME StoreBatch, Applicable # <<>> PROVE FALSE
        OBVIOUS
      <4>1. /\ Pending' = nextSeq..(nextSeq + Len(Applicable) - 1) /\ stage' = "stored"
            /\ Len(Applicable) \in Nat \ {0} /\ nextSeq \in Nat
        BY <1>1, BatchFacts DEF LogType
      <4> DEFINE n == Len(Applicable)
      <4> HIDE DEF n
      <4>2. nextSeq \in nextSeq..(nextSeq + n - 1)
        BY <4>1 DEF n
      <4> QED
        BY <1>6, <4>1, <4>2 DEF n
    <3>5. Pending = {} \/ stage = "reduced"
      <4>1. CASE stage' = "reduced"
        BY <2>4, <4>1, ReducedStep
      <4>2. CASE CommitReducers
        BY <4>2, ReducedStep
      <4>3. CASE stage' # "reduced" /\ ~CommitReducers
        BY <1>1, <1>6, <2>4, <3>4, <4>3, PendStep
      <4> QED
        BY <4>1, <4>2, <4>3
    <3>6. CASE cache' = cache
      <4>1. Shows(o)
        BY <1>1, <3>3, <3>5 DEF LiveInv
      <4> QED
        BY <1>1, <2>4, <3>1, <3>2, <3>4, <3>6, <4>1, ShowsStays
    <3>7. CASE cache' # cache
      <4>1. Exact(o)
        BY <1>1, <1>2, <3>7, SnapExact
      <4>2. live' = live /\ logged' = logged
        BY <1>2, <3>7
      <4>3. Exact(o)'
        BY <4>1, <4>2 DEF Exact, Holds
      <4> QED
        BY <4>3 DEF Shows
    <3> QED
      BY <3>6, <3>7
  <2> QED
    BY <2>1, <2>2, <2>3, <2>4
<1>7. ASSUME stage' \in {"stored", "informed"} PROVE MissesBatch'
  <2>1. CASE StoreBatch /\ Applicable # <<>>
    BY <2>1, MissesStored
  <2>2. CASE ~(StoreBatch /\ Applicable # <<>>)
    BY <1>7, <2>2, StoredStep, MissesStays
  <2> QED
    BY <2>1, <2>2
<1> QED
  BY <1>4, <1>5, <1>6, <1>7 DEF LiveInv

\* The state invariant at the beginning.
LEMMA InitState == ASSUME Init PROVE StateInv
<1>1. /\ DOMAIN rows = {} /\ DOMAIN logged = {} /\ nextSeq = Anchored + 1 /\ cache.anchor = Anchored
      /\ cache.state = Empty /\ live = Empty /\ captured = <<>> /\ deferred = <<>> /\ stage = "off" /\ mode = "start"
  BY DEF Init
<1>2. OwnOps \subseteq Op /\ Broken \subseteq Op /\ Waiting = {}
  BY <1>1, ReducerAssumption, EmptyOf DEF Op, Local, Waiting
<1>3. CoveredInv
  BY <1>1 DEF CoveredInv, Downloaded
<1>4. PagesInv
  BY <1>1 DEF PagesInv, CursorInv, GoneInv, HoleInv, PageInv, OrderInv, ApplyStages
<1>5. SnapInv
  <2>1. SnapAt(Anchored)
    BY <1>1 DEF SnapAt, InEffect, Holds, Empty
  <2>2. Anchored \in cache.anchor..(nextSeq - 1)
    BY <1>1, BoundAssumption
  <2> QED
    BY <2>1, <2>2 DEF SnapInv
<1>6. ScreenInv
  BY <1>1, <1>2 DEF ScreenInv, Empty
<1>7. LiveInv
  BY <1>1 DEF LiveInv
<1> QED
  BY <1>3, <1>4, <1>5, <1>6, <1>7 DEF StateInv

\* And its step.
LEMMA StateStep == ASSUME Regular, Inv, BaseInv, StateInv, [Next]_vars PROVE StateInv'
<1>1. CASE Next
  <2>1. CoveredInv' /\ PagesInv'
    BY <1>1, CoveredStep, PagesStep DEF StateInv
  <2> QED
    BY <1>1, <2>1, SnapStep, ScreenStep, LiveInvStep DEF StateInv
<1>2. CASE UNCHANGED vars
  <2>1. /\ UNCHANGED <<rows, nextSeq, cache, clock, archived, cursor, live, captured, deferred, lost>>
        /\ UNCHANGED <<frontier, foreign, stage, mode, first, target, work, done, failed, compacting>>
        /\ UNCHANGED <<served, nextOwn, faults, logged>>
    BY <1>2 DEF vars, disk, ui, tab, apply, world
  <2>2. Waiting' = Waiting /\ Pending' = Pending /\ Batch' = Batch /\ Ids' = Ids /\ Downloaded' = Downloaded
    BY <2>1 DEF Waiting, Pending, Batch, Ids, Downloaded
  <2>3. CoveredInv'
    BY <2>1, <2>2 DEF StateInv, CoveredInv
  <2>4. PagesInv'
    BY <2>1, <2>2 DEF StateInv, PagesInv, CursorInv, GoneInv, HoleInv, PageInv, OrderInv, Behind
  <2>5. SnapInv'
    <3>1. KeepsRows
      BY <2>1 DEF KeepsRows
    <3> QED
      BY <2>1, <3>1, SnapKept DEF StateInv
  <2>6. ScreenInv'
    BY <2>1, <2>2 DEF StateInv, ScreenInv
  <2>7. \A o : (Holds(o)' <=> Holds(o)) /\ (Effective(o, Batch)' <=> Effective(o, Batch)) /\ (FullState' <=> FullState)
    BY <2>1, <2>2 DEF Holds, Effective, FullState
  <2>8. \A o : (Exact(o)' <=> Exact(o)) /\ (Shows(o)' <=> Shows(o))
    BY <2>1, <2>2, <2>7 DEF Exact, Shows, Excused, Unseen
  <2>9. LiveInv'
    BY <2>1, <2>2, <2>7, <2>8 DEF StateInv, LiveInv, MissesBatch
  <2> QED
    BY <2>3, <2>4, <2>5, <2>6, <2>9 DEF StateInv
<1> QED
  BY <1>1, <1>2

\* The screen, the snapshot and the log agree in every reachable state.
LEMMA StateHolds == ASSUME Regular PROVE Spec => [](Inv /\ BaseInv /\ StateInv)
<1>1. Init => Inv /\ BaseInv /\ StateInv
  BY InitInv, InitBase, InitState
<1>2. Inv /\ BaseInv /\ StateInv /\ [Next]_vars => (Inv /\ BaseInv /\ StateInv)'
  BY NextInv, BaseStep, StateStep
<1> QED
  BY <1>1, <1>2, PTL DEF Spec

-----------------------------------------------------------------------------
(* The properties *)

\* No operation takes effect twice, on screen or after a start, however often it is
\* downloaded, replayed or retried.
THEOREM RemoteAppliedOnce == Regular => (Spec => []AppliedOnce)
<1> SUFFICES ASSUME Regular PROVE Spec => []AppliedOnce
  OBVIOUS
<1>1. Inv /\ BaseInv /\ StateInv => AppliedOnce
  <2> SUFFICES ASSUME Inv, BaseInv, StateInv, NEW o \in Op PROVE Rebuilt[o] <= 1 /\ live[o] <= 1
    BY DEF AppliedOnce
  <2>1. Rebuilt[o] = IF Holds(o) THEN 1 ELSE 0
    BY RebuiltOf DEF Inv, BaseInv, StateInv
  <2> QED
    BY <2>1 DEF StateInv, ScreenInv
<1> QED
  BY <1>1, StateHolds, PTL

\* What the cursor has passed is in the state the next start rebuilds, unless its reducer
\* refuses it or a later full-state operation replaced it.
THEOREM RemoteNotLost == Regular => (Spec => []NothingPassedIsLost)
<1> SUFFICES ASSUME Regular PROVE Spec => []NothingPassedIsLost
  OBVIOUS
<1>1. Inv /\ BaseInv /\ StateInv => NothingPassedIsLost
  <2> SUFFICES ASSUME Inv, BaseInv, StateInv, NEW i \in 1..cursor
               PROVE  Feed[i] \in Broken \/ Rebuilt[Feed[i]] > 0 \/ Buried(i)
    BY DEF NothingPassedIsLost
  <2>1. Complete(i)
    BY DEF Inv, PassedInv
  <2>2. i \in DOMAIN Feed /\ Feed[i] \in Remote /\ Feed[i] \in Op /\ i \in Nat /\ DOMAIN Feed = 1..Len(Feed) /\ Len(Feed) \in Nat
    <3>1. cursor \in 0..served /\ served \in 0..Len(Feed) /\ DOMAIN Feed = 1..Len(Feed) /\ Len(Feed) \in Nat
      BY OpsAssumption DEF Inv, FeedType
    <3> QED
      BY <3>1 DEF Remote, Op
  <2>3. CASE Feed[i] \in archived /\ Feed[i] \notin Broken
    <3>1. Feed[i] \in DOMAIN logged
      BY <2>3 DEF BaseInv, LearnInv
    <3>2. CASE Holds(Feed[i])
      <4>1. Rebuilt[Feed[i]] = 1
        BY <2>2, <3>2, RebuiltOf DEF Inv, BaseInv, StateInv
      <4> QED
        BY <4>1
    <3>3. CASE ~Holds(Feed[i])
      <4>1. PICK g \in Imports \cap DOMAIN logged : ~(logged[g] <= logged[Feed[i]])
        BY <2>3, <3>1, <3>3 DEF Holds
      <4>2. PICK k \in DOMAIN Feed : Feed[k] = g
        BY <4>1, ReducerAssumption DEF Remote
      <4>3. logged[Feed[k]] > logged[Feed[i]]
        BY <3>1, <4>1, <4>2 DEF Inv, LogType
      <4>4. k > i
        BY <2>2, <3>1, <4>1, <4>2, <4>3 DEF StateInv, PagesInv, OrderInv
      <4>5. k \in (i + 1)..Len(Feed)
        BY <2>2, <4>2, <4>4
      <4> QED
        BY <4>1, <4>2, <4>5 DEF Buried
    <3> QED
      BY <3>2, <3>3
  <2> QED
    BY <2>1, <2>3 DEF Complete
<1> QED
  BY <1>1, StateHolds, PTL

\* When nothing waits to be written or applied, the screen shows what the next start would
\* rebuild, but for the other tab's operations.
THEOREM RemoteLiveMatchesLog == Regular => (Spec => []LiveMatchesLog)
<1> SUFFICES ASSUME Regular PROVE Spec => []LiveMatchesLog
  OBVIOUS
<1>1. Inv /\ BaseInv /\ StateInv => LiveMatchesLog
  <2> SUFFICES ASSUME Inv, BaseInv, StateInv, stage = "idle", ~PhantomRisk, Pending = {},
                      NEW o \in OwnOps \cup Remote
               PROVE  live[o] = Rebuilt[o]
    BY DEF LiveMatchesLog
  <2>1. o \in Op /\ o \notin TabOps
    BY OpsAssumption DEF Op, Local
  <2>2. Shows(o)
    BY <2>1 DEF StateInv, LiveInv
  <2>3. ~lost /\ Waiting = {}
    BY EmptyOf DEF PhantomRisk, Waiting
  <2>4. Exact(o)
    BY <2>1, <2>2, <2>3 DEF Shows, Excused, Unseen
  <2>5. Rebuilt[o] = IF Holds(o) THEN 1 ELSE 0
    BY <2>1, RebuiltOf DEF Inv, BaseInv, StateInv
  <2> QED
    BY <2>4, <2>5 DEF Exact
<1> QED
  BY <1>1, StateHolds, PTL

-----------------------------------------------------------------------------
(* The log implements DurableLog *)

\* Two sets that agree on a sequence keep the same of it.
LEMMA KeptSame ==
  ASSUME NEW X, NEW s \in Seq(X), NEW T, NEW U, \A i \in 1..Len(s) : s[i] \in T <=> s[i] \in U
  PROVE  Kept(s, T) = Kept(s, U)
<1>1. PICK f : KeptUpTo(f, s, T, Len(s)) /\ Kept(s, T) = f[Len(s)]
  BY KeptRecursion
<1>2. PICK h : KeptUpTo(h, s, U, Len(s)) /\ Kept(s, U) = h[Len(s)]
  BY KeptRecursion
<1>3. /\ \A i \in 0..Len(s) : f[i] = IF i = 0 THEN <<>>
                                     ELSE IF s[i] \in T THEN Append(f[i - 1], s[i]) ELSE f[i - 1]
      /\ \A i \in 0..Len(s) : h[i] = IF i = 0 THEN <<>>
                                     ELSE IF s[i] \in U THEN Append(h[i - 1], s[i]) ELSE h[i - 1]
  BY <1>1, <1>2 DEF KeptUpTo
<1>4. Len(s) \in Nat
  OBVIOUS
<1> DEFINE S == {n \in Nat : n <= Len(s) => f[n] = h[n]}
<1>5. 0 \in S
  <2>1. f[0] = <<>> /\ h[0] = <<>>
    BY <1>3, <1>4
  <2> QED
    BY <2>1
<1>6. ASSUME NEW n \in S PROVE n + 1 \in S
  <2> SUFFICES ASSUME n + 1 <= Len(s) PROVE f[n + 1] = h[n + 1]
    OBVIOUS
  <2>1. n \in Nat /\ n + 1 \in 0..Len(s) /\ n + 1 # 0 /\ n + 1 - 1 = n /\ n + 1 \in 1..Len(s) /\ f[n] = h[n]
    BY <1>4
  <2> HIDE DEF S
  <2>2. /\ f[n + 1] = IF s[n + 1] \in T THEN Append(f[n], s[n + 1]) ELSE f[n]
        /\ h[n + 1] = IF s[n + 1] \in U THEN Append(h[n], s[n + 1]) ELSE h[n]
    BY <1>3, <2>1
  <2> QED
    BY <2>1, <2>2
<1>7. S \in SUBSET Nat
  OBVIOUS
<1> HIDE DEF S
<1>8. Len(s) \in S
  BY <1>4, <1>5, <1>6, <1>7, Induction
<1> QED
  BY <1>1, <1>2, <1>4, <1>8 DEF S

\* What a download brings, by what was ever written instead of by what the log still has.
Brought == Kept(Admitted(SubSeq(Feed, first, target)), Op \ DOMAIN logged)

\* What a download brings by the log's history is what it stores, but for operations whose
\* reducer failed before.
LEMMA BroughtOf ==
  ASSUME Regular, Inv, BaseInv, StateInv, StoreBatch, Applicable # <<>>
  PROVE  /\ Brought \in Seq(Op) /\ \A i, j \in 1..Len(Brought) : Brought[i] = Brought[j] => i = j
         /\ \A i \in 1..Len(Brought) : /\ Brought[i] \notin DOMAIN logged
                                       /\ \E k \in 1..Len(Applicable) : Applicable[k] = Brought[i]
         /\ \A k \in 1..Len(Applicable) : \/ \E i \in 1..Len(Brought) : Brought[i] = Applicable[k]
                                          \/ Applicable[k] \in Broken \cap DOMAIN logged
         /\ Brought = Applicable \/ (LastImport(Brought) = 0 /\ LastImport(Applicable) = 0)
         /\ first \in 1..target /\ target \in DOMAIN Feed
<1>1. /\ first \in Nat \ {0} /\ target \in 0..Len(Feed) /\ DOMAIN Feed = 1..Len(Feed) /\ Len(Feed) \in Nat
      /\ target \in Nat /\ stage = "flushed" /\ LogInv
  BY OpsAssumption DEF Inv, FeedType, StoreBatch
<1> DEFINE d == Admitted(SubSeq(Feed, first, target))
           N == News(target)
           a == Applicable
           b == Brought
<1>2. /\ d \in Seq(Remote) /\ \A k, l \in 1..Len(d) : d[k] = d[l] => k = l
      /\ \A k \in 1..Len(d) : \E i \in first..target : d[k] = Feed[i]
  <2> DEFINE s == SubSeq(Feed, first, target)
  <2>1. /\ d \in Seq(Remote) /\ \A k, l \in 1..Len(d) : d[k] = d[l] => k = l
        /\ \A k \in 1..Len(d) : \E i \in 1..Len(s) : s[i] = d[k]
    BY <1>1, AdmittedOf, Zenon
  <2>2. \A i \in 1..Len(s) : \E j \in first..target : s[i] = Feed[j]
    BY <1>1
  <2> HIDE DEF d, s
  <2> QED
    BY <2>1, <2>2
<1>3. N = Kept(d, Op \ Ids) /\ b = Kept(d, Op \ DOMAIN logged)
  BY DEF News, Brought
<1>4. \A k \in 1..Len(N) : \/ \E i \in 1..Len(a) : a[i] = N[k]
                           \/ N[k] \in cache.clock /\ LastImport(N) = 0
  BY <1>1, ApplicableOf
<1>5. \A i \in 1..Len(a) : \E k \in 1..Len(N) : N[k] = a[i]
  BY <1>1, ApplicableOf
<1>6. /\ \A k \in 1..Len(a) : a[k] \notin DOMAIN logged \ Broken
      /\ a \in Seq(Op) /\ Len(a) \in Nat \ {0}
  BY StoredRows, BatchFacts
<1>7. a = IF LastImport(N) # 0 THEN N ELSE Kept(N, Op \ cache.clock)
  BY DEF Applicable
<1>8. 1 \in 1..Len(a)
  BY <1>6
<1>9. first \in 1..target /\ target \in DOMAIN Feed
  <2>1. PICK i \in first..target : i \in DOMAIN Feed
    BY <1>8, BatchSource
  <2> QED
    BY <1>1, <2>1
<1> HIDE DEF d, N, a, b
<1>10. Ids \subseteq DOMAIN logged
  BY <1>1 DEF Ids, LogInv
<1>11. KeepsOf(N, d, Remote, Op \ Ids, Len(d)) /\ KeepsOf(b, d, Remote, Op \ DOMAIN logged, Len(d))
  BY <1>2, <1>3, KeptOf
<1>12. /\ b \in Seq(Remote) /\ (\A k \in 1..Len(b) : b[k] \notin DOMAIN logged /\ \E i \in 1..Len(d) : d[i] = b[k])
       /\ \A i \in 1..Len(d) : d[i] \in Op \ DOMAIN logged => \E k \in 1..Len(b) : b[k] = d[i]
       /\ \A k, l \in 1..Len(b) : b[k] = b[l] => k = l
  BY <1>2, <1>11 DEF KeepsOf
<1>13. /\ N \in Seq(Remote) /\ (\A k \in 1..Len(N) : \E i \in 1..Len(d) : d[i] = N[k])
       /\ \A i \in 1..Len(d) : d[i] \in Op \ Ids => \E k \in 1..Len(N) : N[k] = d[i]
  BY <1>11 DEF KeepsOf
<1>14. \A i \in 1..Len(d) : d[i] \in Op
  BY <1>2 DEF Op
<1>15. \A i \in 1..Len(b) : \E k \in 1..Len(a) : a[k] = b[i]
  <2> SUFFICES ASSUME NEW i \in 1..Len(b) PROVE \E k \in 1..Len(a) : a[k] = b[i]
    OBVIOUS
  <2>1. PICK j \in 1..Len(d) : d[j] = b[i]
    BY <1>12
  <2>2. d[j] \in Op \ Ids
    BY <1>10, <1>12, <1>14, <2>1
  <2>3. PICK k \in 1..Len(N) : N[k] = d[j]
    BY <1>13, <2>2
  <2>4. N[k] \notin cache.clock
    BY <1>12, <2>1, <2>3 DEF BaseInv, LearnInv
  <2> QED
    BY <1>4, <2>1, <2>3, <2>4
<1>16. ASSUME NEW k \in 1..Len(a) PROVE (\E i \in 1..Len(b) : b[i] = a[k]) \/ a[k] \in Broken \cap DOMAIN logged
  <2>1. PICK j \in 1..Len(N) : N[j] = a[k]
    BY <1>5
  <2>2. PICK i \in 1..Len(d) : d[i] = N[j]
    BY <1>13
  <2>3. CASE a[k] \in DOMAIN logged
    BY <1>6, <2>3
  <2>4. CASE a[k] \notin DOMAIN logged
    BY <1>12, <1>14, <2>1, <2>2, <2>4
  <2> QED
    BY <2>3, <2>4
<1>17. b = a \/ (LastImport(b) = 0 /\ LastImport(a) = 0)
  <2>1. CASE LastImport(N) = 0
    <3>1. \A k \in 1..Len(N) : N[k] \notin Imports
      <4>1. \A k \in 1..Len(N) : N[k] \in Imports => k <= 0
        BY <1>13, <2>1, LastImportOf
      <4> QED
        BY <4>1
    <3>2. \A k \in 1..Len(a) : a[k] \notin Imports
      BY <1>5, <3>1
    <3>3. \A k \in 1..Len(b) : b[k] \notin Imports
      BY <1>15, <3>2
    <3>4. LastImport(a) = 0
      BY <1>6, <3>2, LastImportOf
    <3>5. LastImport(b) = 0
      BY <1>12, <3>3, LastImportOf
    <3> QED
      BY <3>4, <3>5
  <2>2. CASE LastImport(N) # 0
    <3>1. LastImport(N) \in 1..Len(N) /\ N[LastImport(N)] \in Imports
      BY <1>13, <2>2, LastImportOf
    <3>2. PageInv
      BY <3>1 DEF StateInv, PagesInv
    <3>3. ASSUME NEW i \in 1..Len(d) PROVE d[i] \in Op \ Ids <=> d[i] \in Op \ DOMAIN logged
      <4>1. PICK j \in first..target : d[i] = Feed[j]
        BY <1>2
      <4>2. j \in first..Len(Feed)
        BY <1>1, <4>1
      <4>3. Feed[j] \in DOMAIN logged => Feed[j] \in Ids
        BY <1>1, <3>2, <4>2 DEF PageInv
      <4> QED
        BY <1>10, <1>14, <4>1, <4>3
    <3>4. Kept(d, Op \ Ids) = Kept(d, Op \ DOMAIN logged)
      <4> DEFINE T == Op \ Ids
                 U == Op \ DOMAIN logged
      <4>1. \A i \in 1..Len(d) : d[i] \in T <=> d[i] \in U
        BY <3>3
      <4> HIDE DEF T, U
      <4>2. Kept(d, T) = Kept(d, U)
        BY <1>2, <4>1, KeptSame
      <4> QED
        BY <4>2 DEF T, U
    <3> QED
      BY <1>3, <1>7, <2>2, <3>4
  <2> QED
    BY <2>1, <2>2
<1>18. b \in Seq(Op)
  <2>1. Remote \subseteq Op
    BY DEF Op
  <2> QED
    BY <1>12, <2>1
<1> QED
  BY <1>9, <1>12, <1>15, <1>16, <1>17, <1>18 DEF a, b

\* What the log holds, as a state.
HeldState == [o \in Op |-> IF Holds(o) THEN 1 ELSE 0]

\* A start rebuilds what the log holds.
LEMMA RebuiltHeld == Inv /\ BaseInv /\ StateInv => Rebuilt = HeldState
<1> SUFFICES ASSUME Inv, BaseInv, StateInv PROVE Rebuilt = HeldState
  OBVIOUS
<1>1. \A o \in Op : Rebuilt[o] = IF Holds(o) THEN 1 ELSE 0
  BY RebuiltOf DEF Inv, BaseInv, StateInv
<1>2. \E f : Rebuilt = [o \in Op |-> f[o]]
  <2> DEFINE s == OpsAt(Replayable)
             R(o) == Reduce(cache.state, s)[o]
             N(o) == IF o \in Broken THEN 0
                     ELSE Cardinality({i \in DOMAIN s : s[i] = o /\ i >= LastImport(s)})
  <2>1. Rebuilt = IF LastImport(s) = 0 THEN [o \in Op |-> cache.state[o] + N(o)] ELSE [o \in Op |-> N(o)]
    BY Zenon DEF Rebuilt, Reduce
  <2> HIDE DEF N, s
  <2>2. DOMAIN Rebuilt = Op /\ Rebuilt = [o \in Op |-> Rebuilt[o]]
    BY <2>1
  <2> QED
    BY <2>2
<1>3. Rebuilt = [o \in Op |-> Rebuilt[o]]
  BY <1>2
<1> QED
  BY <1>1, <1>3 DEF HeldState

\* The abstract specification speaks of the same operations.
LEMMA DurableOps ==
  /\ Durable!Local = Local /\ Durable!Op = Op /\ Durable!Empty = Empty
  /\ \A s, T : Durable!Kept(s, T) = Kept(s, T)
  /\ \A s : Durable!LastImport(s) = LastImport(s) /\ Durable!Admitted(s) = Admitted(s)
  /\ \A st, s : Durable!Reduce(st, s) = Reduce(st, s)
<1>1. Durable!Local = Local /\ Durable!Remote = Remote
  BY DEF Durable!Local, Local, Durable!Remote, Remote
<1>2. Durable!Op = Op /\ Durable!Empty = Empty
  BY <1>1 DEF Durable!Op, Op, Durable!Empty, Empty
<1>3. \A s, T : Durable!Kept(s, T) = Kept(s, T)
  BY DEF Durable!Kept, Kept
<1>4. \A s : Durable!LastImport(s) = LastImport(s)
  BY DEF Durable!LastImport, LastImport
<1>5. \A s : Durable!Admitted(s) = Admitted(s)
  BY <1>3, <1>4 DEF Durable!Admitted, Admitted
<1>6. \A st, s : Durable!Reduce(st, s) = Reduce(st, s)
  <2>1. \A S : Durable!Cardinality(S) = Cardinality(S)
    BY DEF Durable!Cardinality, Cardinality
  <2> QED
    BY <1>2, <1>4, <2>1 DEF Durable!Reduce, Reduce
<1> QED
  BY <1>1, <1>2, <1>3, <1>4, <1>5, <1>6

\* A state is what it is for each operation.
LEMMA ReduceFun == ASSUME NEW st, NEW s PROVE Reduce(st, s) = [o \in Op |-> Reduce(st, s)[o]]
<1> DEFINE R == Reduce(st, s)
           N(o) == IF o \in Broken THEN 0
                   ELSE Cardinality({i \in DOMAIN s : s[i] = o /\ i >= LastImport(s)})
<1>1. R = IF LastImport(s) = 0 THEN [o \in Op |-> st[o] + N(o)] ELSE [o \in Op |-> N(o)]
  BY Zenon DEF Reduce
<1> HIDE DEF N, R
<1>2. R = [o \in Op |-> R[o]]
  BY <1>1
<1> QED
  BY <1>2 DEF R

\* What the log holds is a state.
LEMMA HeldType == HeldState \in [Op -> Nat]
BY DEF HeldState

\* A local write is a write of the abstract log.
LEMMA RefineWrite ==
  ASSUME Inv, Rebuilt = HeldState, Rebuilt' = HeldState', NEW e \in Local \ DOMAIN logged, Writes(e)
  PROVE  Durable!Write(e)
<1>1. LogType /\ e \in Op
  BY DEF Inv, Op
<1>2. DOMAIN logged' = DOMAIN logged \cup {e}
  BY DEF Writes
<1>3. Reduce(Rebuilt, <<e>>) = Rebuilt'
  <2> DEFINE st == Rebuilt
             R == Reduce(st, <<e>>)
  <2>1. st \in [Op -> Nat]
    BY HeldType
  <2>2. \A p \in Op : R[p] = IF p = e THEN st[p] + 1 ELSE st[p]
    <3> HIDE DEF st
    <3> QED
      BY <2>1, ReduceLocal
  <2>3. \A p \in Op : Holds(p)' <=> p = e \/ Holds(p)
    BY <1>1, HoldsWritten
  <2>4. ~Holds(e)
    BY DEF Holds
  <2>5. \A p \in Op : st[p] = IF Holds(p) THEN 1 ELSE 0
    BY DEF HeldState
  <2> HIDE DEF R, st
  <2>6. \A p \in Op : R[p] = IF Holds(p)' THEN 1 ELSE 0
    BY <2>2, <2>3, <2>4, <2>5
  <2>7. R = [p \in Op |-> R[p]]
    BY ReduceFun DEF R
  <2>8. R = [p \in Op |-> IF Holds(p)' THEN 1 ELSE 0]
    BY <2>6, <2>7
  <2>9. HeldState' = [p \in Op |-> IF Holds(p)' THEN 1 ELSE 0]
    BY DEF HeldState
  <2> QED
    BY <2>8, <2>9 DEF R, st
<1> QED
  BY <1>2, <1>3, DurableOps DEF Durable!Write

\* A stored batch is a receipt of the abstract log: from here on the next start has it.
LEMMA RefineBatch ==
  ASSUME Regular, Inv, BaseInv, StateInv, Rebuilt = HeldState, Rebuilt' = HeldState', StoreBatch, Applicable # <<>>
  PROVE  Durable!Next \/ UNCHANGED <<Rebuilt, DOMAIN logged>>
<1> DEFINE a == Applicable
           b == Brought
           n == LastImport(a)
           m == LastImport(b)
<1>1. /\ b \in Seq(Op) /\ \A i, j \in 1..Len(b) : b[i] = b[j] => i = j
      /\ \A i \in 1..Len(b) : b[i] \notin DOMAIN logged /\ \E k \in 1..Len(a) : a[k] = b[i]
      /\ \A k \in 1..Len(a) : (\E i \in 1..Len(b) : b[i] = a[k]) \/ a[k] \in Broken \cap DOMAIN logged
      /\ b = a \/ (m = 0 /\ n = 0)
      /\ first \in 1..target /\ target \in DOMAIN Feed
  BY BroughtOf
<1>2. /\ LogType /\ Appends(a) /\ a \in Seq(Op)
      /\ \A i, j \in 1..Len(a) : a[i] = a[j] => i = j
      /\ \A k \in 1..Len(a) : a[k] \notin DOMAIN logged \ Broken
  BY StoredRows
<1>3. \A o \in Op : Holds(o)' <=> \/ o \notin Broken /\ \E i \in 1..Len(a) : a[i] = o /\ i >= n
                                  \/ n = 0 /\ Holds(o)
  BY <1>2, HoldsAfter
<1>4. \A o \in Op : (\E i \in 1..Len(a) : a[i] = o) => ~Holds(o)
  BY <1>2, HoldsAfter
<1>5. DOMAIN logged' = DOMAIN logged \cup {a[i] : i \in 1..Len(a)}
  BY <1>2 DEF Appends
<1>6. \A o \in Op : Reduce(Rebuilt, b)[o] = (IF m = 0 THEN Rebuilt[o] ELSE 0)
                      + (IF o \notin Broken /\ \E i \in 1..Len(b) : b[i] = o /\ i >= m THEN 1 ELSE 0)
  <2> DEFINE st == Rebuilt
  <2>1. st \in [Op -> Nat]
    BY HeldType
  <2> HIDE DEF st, b
  <2>2. \A o \in Op : Reduce(st, b)[o] = (IF LastImport(b) = 0 THEN st[o] ELSE 0)
                      + (IF o \notin Broken /\ \E i \in 1..Len(b) : b[i] = o /\ i >= LastImport(b) THEN 1 ELSE 0)
    BY <1>1, <2>1, ReduceOnce
  <2> QED
    BY <2>2 DEF st
<1>7. \A o \in Op : Rebuilt[o] = IF Holds(o) THEN 1 ELSE 0
  BY DEF HeldState
<1>8. DOMAIN a = 1..Len(a) /\ DOMAIN b = 1..Len(b) /\ m \in Nat /\ n \in Nat
  BY <1>1, <1>2, LastImportOf
<1>9. b = Durable!Kept(Durable!Admitted(SubSeq(Feed, first, target)), Durable!Op \ DOMAIN logged)
  BY DurableOps DEF Brought
<1> HIDE DEF a, b, n, m
<1>10. DOMAIN logged' = DOMAIN logged \cup {b[i] : i \in 1..Len(b)}
  <2>1. \A k \in 1..Len(a) : a[k] \in DOMAIN logged \cup {b[i] : i \in 1..Len(b)}
    <3> SUFFICES ASSUME NEW k \in 1..Len(a), a[k] \notin DOMAIN logged PROVE a[k] \in {b[i] : i \in 1..Len(b)}
      OBVIOUS
    <3>1. PICK i \in 1..Len(b) : b[i] = a[k]
      BY <1>1
    <3> QED
      BY <3>1
  <2>2. \A i \in 1..Len(b) : b[i] \in {a[k] : k \in 1..Len(a)}
    <3> SUFFICES ASSUME NEW i \in 1..Len(b) PROVE b[i] \in {a[k] : k \in 1..Len(a)}
      OBVIOUS
    <3>1. PICK k \in 1..Len(a) : a[k] = b[i]
      BY <1>1
    <3> QED
      BY <3>1
  <2> DEFINE A == {a[i] : i \in 1..Len(a)}
             B == {b[i] : i \in 1..Len(b)}
  <2>3. \A x \in A : x \in DOMAIN logged \cup B
    BY <2>1
  <2>4. \A x \in B : x \in A
    BY <2>2
  <2> HIDE DEF A, B
  <2>5. DOMAIN logged \cup A = DOMAIN logged \cup B
    BY <2>3, <2>4
  <2> QED
    BY <1>5, <2>5 DEF A, B
<1>11. \A o \in Op \ Broken : (\E i \in 1..Len(a) : a[i] = o /\ i >= n) <=> (\E i \in 1..Len(b) : b[i] = o /\ i >= m)
  <2>1. CASE b = a
    BY <2>1 DEF m, n
  <2>2. CASE m = 0 /\ n = 0
    <3>1. \A i \in 1..Len(a) : i >= n
      BY <2>2
    <3>2. \A i \in 1..Len(b) : i >= m
      BY <2>2
    <3> QED
      BY <1>1, <3>1, <3>2
  <2> QED
    BY <1>1, <2>1, <2>2
<1>12. m = 0 <=> n = 0
  BY <1>1 DEF m, n
<1>13. \A o \in Op : Reduce(Rebuilt, b)[o] = IF Holds(o)' THEN 1 ELSE 0
  <2> SUFFICES ASSUME NEW o \in Op PROVE Reduce(Rebuilt, b)[o] = IF Holds(o)' THEN 1 ELSE 0
    OBVIOUS
  <2> DEFINE E == o \notin Broken /\ \E i \in 1..Len(b) : b[i] = o /\ i >= m
  <2>1. Holds(o)' <=> E \/ (m = 0 /\ Holds(o))
    BY <1>3, <1>11, <1>12
  <2>2. E => ~Holds(o)
    BY <1>1, <1>4
  <2>3. Reduce(Rebuilt, b)[o] = (IF m = 0 THEN Rebuilt[o] ELSE 0) + (IF E THEN 1 ELSE 0)
    BY <1>6
  <2>4. Rebuilt[o] = IF Holds(o) THEN 1 ELSE 0
    BY <1>7
  <2> HIDE DEF E
  <2> QED
    BY <2>1, <2>2, <2>3, <2>4
<1>14. Rebuilt' = Reduce(Rebuilt, b)
  <2>1. Reduce(Rebuilt, b) = [o \in Op |-> Reduce(Rebuilt, b)[o]]
    BY ReduceFun
  <2>2. HeldState' = [o \in Op |-> IF Holds(o)' THEN 1 ELSE 0]
    BY DEF HeldState
  <2> QED
    BY <1>13, <2>1, <2>2
<1>15. CASE b # <<>>
  <2>1. Durable!Receive(first, target)
    BY <1>8, <1>9, <1>10, <1>14, <1>15, DurableOps DEF Durable!Receive
  <2> QED
    BY <1>1, <2>1 DEF Durable!Next
<1>16. CASE b = <<>>
  <2>1. Len(b) = 0 /\ m = 0
    <3>1. Len(b) = 0
      BY <1>16
    <3>2. m \in 0..Len(b)
      BY <1>1, LastImportOf DEF m
    <3> QED
      BY <3>1, <3>2
  <2>2. DOMAIN logged' = DOMAIN logged
    <3>1. 1..Len(b) = {}
      BY <2>1
    <3>2. {b[i] : i \in 1..Len(b)} = {}
      BY <3>1
    <3> DEFINE B == {b[i] : i \in 1..Len(b)}
    <3> HIDE DEF B
    <3> QED
      BY <1>10, <3>2 DEF B
  <2>3. \A o \in Op : Holds(o)' <=> Holds(o)
    <3> SUFFICES ASSUME NEW o \in Op PROVE Holds(o)' <=> Holds(o)
      OBVIOUS
    <3>1. ~\E i \in 1..Len(b) : b[i] = o /\ i >= m
      BY <2>1
    <3>2. o \notin Broken => ~\E i \in 1..Len(a) : a[i] = o /\ i >= n
      BY <1>11, <3>1
    <3>3. n = 0
      BY <1>12, <2>1
    <3> QED
      BY <1>3, <3>2, <3>3
  <2>4. HeldState' = HeldState
    BY <2>3 DEF HeldState
  <2> QED
    BY <2>2, <2>4
<1> QED
  BY <1>15, <1>16

\* No other step changes what a start rebuilds.
LEMMA RefineStep ==
  ASSUME Regular, Inv, BaseInv, StateInv, Rebuilt = HeldState, Rebuilt' = HeldState', Next
  PROVE  Durable!Next \/ UNCHANGED <<Rebuilt, DOMAIN logged>>
<1>1. LogType /\ LogInv /\ UiType /\ OwnInv
  BY DEF Inv, BaseInv
<1>2. logged' = logged => UNCHANGED <<Rebuilt, DOMAIN logged>>
  <2> SUFFICES ASSUME logged' = logged PROVE HeldState' = HeldState
    OBVIOUS
  <2> QED
    BY DEF HeldState, Holds
<1>3. CASE KeepsRows \/ Deletes(Older) \/ DeleteOld
  BY <1>2, <1>3 DEF KeepsRows, Deletes, DeleteOld
<1>4. ASSUME NEW e \in Local \ DOMAIN logged, Writes(e) PROVE Durable!Next
  <2>1. Durable!Write(e)
    BY <1>4, RefineWrite
  <2> QED
    BY <2>1, DurableOps DEF Durable!Next
<1>5. CASE StoreBatch /\ Applicable # <<>>
  BY <1>5, RefineBatch
<1>6. OwnOps \subseteq Local /\ TabOps \subseteq Local
  BY DEF Local
<1> QED
  BY <1>1, <1>3, <1>4, <1>5, <1>6, LogStep

\* The staged apply is an atomic one for the next start: what it rebuilds changes only by
\* the operations that are written (DurableLog).
THEOREM RemoteImplementsDurableLog == Regular => (Spec => ImplementsDurableLog)
<1> SUFFICES ASSUME Regular PROVE Spec => ImplementsDurableLog
  OBVIOUS
<1>1. Init => Durable!Init
  <2> SUFFICES ASSUME Init PROVE Durable!Init
    OBVIOUS
  <2>1. DOMAIN logged = {}
    BY DEF Init
  <2>2. Rebuilt = HeldState
    BY InitInv, InitBase, InitState, RebuiltHeld
  <2>3. HeldState = Empty
    BY <2>1 DEF HeldState, Holds, Empty
  <2> QED
    BY <2>1, <2>2, <2>3, DurableOps DEF Durable!Init
<1>2. Inv /\ BaseInv /\ StateInv => Rebuilt = HeldState
  BY RebuiltHeld
<1>3. /\ Inv /\ BaseInv /\ StateInv /\ Rebuilt = HeldState /\ (Rebuilt = HeldState)' /\ [Next]_vars
      => [Durable!Next]_<<Rebuilt, DOMAIN logged>>
  <2> SUFFICES ASSUME Inv, BaseInv, StateInv, Rebuilt = HeldState, Rebuilt' = HeldState', [Next]_vars
               PROVE  Durable!Next \/ UNCHANGED <<Rebuilt, DOMAIN logged>>
    OBVIOUS
  <2>1. CASE Next
    BY <2>1, RefineStep
  <2>2. CASE UNCHANGED vars
    <3>1. logged' = logged
      BY <2>2 DEF vars
    <3>2. HeldState' = HeldState
      BY <3>1 DEF HeldState, Holds
    <3> QED
      BY <3>1, <3>2
  <2> QED
    BY <2>1, <2>2
<1> QED
  BY <1>1, <1>2, <1>3, StateHolds, PTL DEF Spec, ImplementsDurableLog, Durable!Spec

-----------------------------------------------------------------------------
(* What a snapshot leaves out was replaced before it *)

\* Rows whose operation is not through yet.
Open == Pending \cup Unfinished

\* The archive work goes up the log and leaves nothing open out; a failed row stays open.
QueueInv ==
  /\ stage \in {"effects", "mark"} =>
       /\ \A i, j \in 1..Len(work) : i < j => work[i] < work[j]
       /\ Unfinished \subseteq Batch
  /\ stage \in {"clear", "quarantine"} /\ failed /\ work[done + 1] \in DOMAIN rows =>
       work[done + 1] \in Unfinished

\* Nothing is open before an applied row, and the server has all before a full-state operation.
DoneInv == \A g, s \in DOMAIN rows : rows[g].status = "applied" /\ s < g => s \notin Open
SyncedInv == \A g, s \in DOMAIN rows : rows[g].op \in Imports /\ s < g => rows[s].synced

\* The row of the full-state operation that is in effect is not deleted before earlier ones.
TailInv ==
  \A g \in (Imports \cap DOMAIN logged) \ Ids : Holds(g) => \A s \in DOMAIN rows : s > logged[g]

CoverInv == QueueInv /\ DoneInv /\ SyncedInv /\ TailInv /\ SnapshotCoversLog

\* What a step may do to a row, and what it may add.
RowKept(s) ==
  /\ s \in DOMAIN rows /\ rows'[s].op = rows[s].op
  /\ s \in Open' => s \in Open
  /\ rows'[s].status = "applied" => rows[s].status = "applied" \/ (MarkApplied /\ s \in Finished)
  /\ rows[s].synced => rows'[s].synced
RowNew(s) ==
  /\ s \notin DOMAIN rows /\ s >= nextSeq /\ rows'[s].status # "applied"
  /\ rows'[s].op \in Local \/ (StoreBatch /\ rows'[s].synced)

\* A row that is left alone.
LEMMA SameRow ==
  ASSUME NEW s \in DOMAIN rows, s \in DOMAIN rows', rows'[s] = rows[s]
  PROVE  RowKept(s)
BY DEF RowKept, Open, Pending, Unfinished

\* A local write.
LEMMA WrittenRow ==
  ASSUME LogType, LogInv', NEW o \in Local, Writes(o), NEW s \in DOMAIN rows'
  PROVE  RowKept(s) \/ RowNew(s)
<1>1. /\ DOMAIN rows' = DOMAIN rows \cup {nextSeq} /\ rows'[nextSeq].op = o
      /\ \A n \in DOMAIN rows : rows'[n] = rows[n]
  BY DEF Writes
<1>2. CASE s \in DOMAIN rows
  BY <1>1, <1>2, SameRow
<1>3. CASE s \notin DOMAIN rows
  <2>1. s = nextSeq /\ rows'[s].op \in Local /\ s \in Nat
    BY <1>1, <1>3 DEF LogType
  <2>2. rows'[s].op \notin Remote
    BY <2>1, OpsAssumption
  <2>3. rows'[s].status = "local"
    BY <2>2 DEF LogInv
  <2> QED
    BY <1>3, <2>1, <2>3 DEF RowNew
<1> QED
  BY <1>2, <1>3

\* The checkpoint of the reducers.
LEMMA CheckpointRow ==
  ASSUME LogType, LogInv, clock \subseteq Op, NEW S \in SUBSET Pending, Checkpoint(S),
         nextSeq' = nextSeq, logged' = logged, archived' = archived, NEW s \in DOMAIN rows'
  PROVE  RowKept(s)
<1>1. /\ DOMAIN rows' = DOMAIN rows
      /\ rows'[s] = IF s \notin S THEN rows[s]
                    ELSE IF rows[s].op \in Broken THEN [rows[s] EXCEPT !.rejected = TRUE]
                    ELSE [rows[s] EXCEPT !.status = "archive_pending"]
  BY DEF Checkpoint
<1>2. CASE s \notin S
  BY <1>1, <1>2, SameRow
<1>3. CASE s \in S
  <2>1. s \in Pending /\ rows[s] \in Row /\ rows[s].status = "pending"
    BY <1>1, <1>3 DEF LogType, Pending
  <2>2. /\ rows'[s].op = rows[s].op /\ rows'[s].synced = rows[s].synced
        /\ rows'[s].status \in {"pending", "archive_pending"}
    BY <1>1, <1>3, <2>1 DEF Row
  <2> QED
    BY <1>1, <2>1, <2>2 DEF RowKept, Open
<1> QED
  BY <1>2, <1>3

\* A mark.
LEMMA MarkedRow ==
  ASSUME LogType, NEW S, NEW st, rows' = Marked(S, st), NEW s \in DOMAIN rows',
         st \in {"applied", "failed"},
         s \in S => (st = "applied" /\ MarkApplied /\ S = Finished) \/ (st = "failed" /\ s \in Unfinished)
  PROVE  RowKept(s)
<1>1. /\ DOMAIN rows' = DOMAIN rows
      /\ rows'[s] = IF s \in S THEN [rows[s] EXCEPT !.status = st] ELSE rows[s]
  BY DEF Marked
<1>2. CASE s \notin S
  BY <1>1, <1>2, SameRow
<1>3. CASE s \in S
  <2>1. rows[s] \in Row
    BY <1>1 DEF LogType
  <2>2. rows'[s].op = rows[s].op /\ rows'[s].synced = rows[s].synced /\ rows'[s].status = st
    BY <1>1, <1>3, <2>1 DEF Row
  <2>3. CASE st = "applied" /\ MarkApplied /\ S = Finished
    BY <1>1, <1>3, <2>2, <2>3 DEF RowKept, Open, Pending, Unfinished
  <2>4. CASE st = "failed" /\ s \in Unfinished
    BY <1>1, <2>2, <2>4 DEF RowKept, Open
  <2> QED
    BY <1>3, <2>3, <2>4
<1> QED
  BY <1>2, <1>3

\* An upload.
LEMMA UploadedRow == ASSUME LogType, Upload, NEW s \in DOMAIN rows' PROVE RowKept(s)
<1>1. rows' = rows \/ rows' = [t \in DOMAIN rows |-> [rows[t] EXCEPT !.synced = TRUE]]
  BY DEF Upload
<1>2. CASE rows' = rows
  BY <1>2, SameRow
<1>3. CASE rows' = [t \in DOMAIN rows |-> [rows[t] EXCEPT !.synced = TRUE]]
  <2>1. s \in DOMAIN rows /\ rows'[s] = [rows[s] EXCEPT !.synced = TRUE]
    BY <1>3
  <2>2. rows[s] \in Row
    BY <2>1 DEF LogType
  <2>3. /\ rows'[s].op = rows[s].op /\ rows'[s].status = rows[s].status /\ rows'[s].rejected = rows[s].rejected
        /\ rows'[s].synced
    BY <2>1, <2>2 DEF Row
  <2> QED
    BY <2>1, <2>3 DEF RowKept, Open, Pending, Unfinished
<1> QED
  BY <1>1, <1>2, <1>3

\* A batch.
LEMMA StoredRow ==
  ASSUME Inv, StoreBatch, Applicable # <<>>, NEW s \in DOMAIN rows'
  PROVE  RowKept(s) \/ RowNew(s)
<1> DEFINE a == Applicable
<1>1. Fresh(a) /\ a \in Seq(Op) /\ Len(a) \in Nat \ {0}
  BY BatchFacts
<1>2. Stored(a, "pending", TRUE)
  BY DEF StoreBatch
<1>3. LogType /\ nextSeq \in Nat
  BY DEF Inv, LogType
<1>4. "pending" \in Statuses /\ TRUE \in BOOLEAN
  BY DEF Statuses
<1> HIDE DEF a
<1>5. /\ DOMAIN rows' = DOMAIN rows \cup nextSeq..(nextSeq + Len(a) - 1)
      /\ \A n \in DOMAIN rows : rows'[n] = rows[n]
      /\ \A i \in 1..Len(a) :
           rows'[nextSeq + i - 1] = [op |-> a[i], status |-> "pending", synced |-> TRUE, rejected |-> FALSE]
  BY <1>1, <1>2, <1>3, <1>4, StoredOf
<1>6. CASE s \in DOMAIN rows
  BY <1>5, <1>6, SameRow
<1>7. CASE s \notin DOMAIN rows
  <2> DEFINE i == s - nextSeq + 1
  <2>1. s \in nextSeq..(nextSeq + Len(a) - 1)
    BY <1>5, <1>7
  <2>2. i \in 1..Len(a) /\ s = nextSeq + i - 1 /\ s >= nextSeq
    BY <1>1, <1>3, <2>1
  <2> HIDE DEF i
  <2>3. rows'[s] = [op |-> a[i], status |-> "pending", synced |-> TRUE, rejected |-> FALSE]
    BY <1>5, <2>2
  <2>4. rows'[s].status = "pending" /\ rows'[s].synced
    BY <2>3
  <2> QED
    BY <1>7, <2>2, <2>4 DEF RowNew
<1> QED
  BY <1>6, <1>7

\* What a step does to the rows, one by one.
LEMMA RowChange ==
  ASSUME Inv, BaseInv, QueueInv, Next, NEW s \in DOMAIN rows'
  PROVE  RowKept(s) \/ RowNew(s)
<1>1. LogType /\ KnowType /\ UiType /\ WorkType /\ LogInv /\ WorkInv /\ OwnInv /\ Inv' /\ LogInv'
  BY NextInv DEF Inv, BaseInv
<1>2. rows' = rows => RowKept(s)
  BY SameRow
<1>3. ASSUME NEW S, Deletes(S) PROVE RowKept(s)
  <2>1. s \in DOMAIN rows /\ rows'[s] = rows[s]
    BY <1>3 DEF Deletes
  <2> QED
    BY <2>1, SameRow
<1>4. CASE Start
  <2>1. CASE Settle
    <3>1. Checkpoint(Pending) /\ nextSeq' = nextSeq /\ logged' = logged /\ archived' = archived
      BY <2>1 DEF Settle
    <3> QED
      BY <1>1, <3>1, CheckpointRow DEF KnowType
  <2>2. CASE Load \/ Replay \/ EndStart
    BY <1>2, <2>2 DEF Load, Replay, EndStart
  <2> QED
    BY <1>4, <2>1, <2>2 DEF Start
<1>5. CASE User
  <2>1. CASE WriteCaptured
    <3>1. captured # <<>> /\ WriteLocal(Head(captured))
      BY <2>1 DEF WriteCaptured
    <3> QED
      BY <1>1, <3>1, WaitingOf, WritesOf, WrittenRow
  <2>2. ASSUME NEW o \in TabOps, WriteElsewhere(o) PROVE RowKept(s) \/ RowNew(s)
    <3>1. o \in Local /\ WriteLocal(o)
      BY <2>2 DEF WriteElsewhere, Local
    <3> QED
      BY <1>1, <3>1, WritesOf, WrittenRow
  <2>3. Dispatch \/ LoseCaptured => rows' = rows
    BY DEF Dispatch, LoseCaptured, disk
  <2> QED
    BY <1>2, <1>5, <2>1, <2>2, <2>3 DEF User
<1>6. CASE Buffer
  <2>1. CASE WriteDeferred
    <3>1. deferred # <<>> /\ WriteLocal(Head(deferred))
      BY <2>1 DEF WriteDeferred
    <3> QED
      BY <1>1, <3>1, WaitingOf, WritesOf, WrittenRow
  <2>2. FailDeferred => rows' = rows
    BY DEF FailDeferred, disk
  <2> QED
    BY <1>2, <1>6, <2>1, <2>2 DEF Buffer
<1>7. CASE Publish \/ Crash
  BY <1>2, <1>7 DEF Publish, Crash, disk
<1>8. CASE Fetch
  <2>1. StoreBatch /\ Applicable # <<>> => RowKept(s) \/ RowNew(s)
    BY StoredRow
  <2>2. StoreBatch /\ Applicable = <<>> => rows' = rows
    BY DEF StoreBatch
  <2> QED
    BY <1>2, <1>8, <2>1, <2>2 DEF Fetch, Sync, Gate, FirstPage, LastPage, Refuse, disk
<1>9. CASE Stage
  <2>1. CASE CommitReducers
    <3> DEFINE S == {work[i] : i \in DOMAIN work}
    <3>1. Checkpoint(S) /\ nextSeq' = nextSeq /\ logged' = logged /\ archived' = archived /\ stage = "reduced"
      BY <2>1 DEF CommitReducers, Go
    <3>2. S \in SUBSET Pending
      <4>1. DOMAIN work = 1..Len(work)
        BY <1>1, WorkSeq
      <4> QED
        BY <1>1, <3>1, <4>1 DEF WorkInv
    <3> HIDE DEF S
    <3> QED
      BY <1>1, <3>1, <3>2, CheckpointRow DEF KnowType
  <2>2. CASE MergeClocks \/ RunReducers \/ Throw
    BY <1>2, <2>2 DEF MergeClocks, RunReducers, Throw, disk
  <2> QED
    BY <1>9, <2>1, <2>2 DEF Stage
<1>10. CASE Effects
  BY <1>2, <1>10 DEF Effects, RunEffect, FailEffect, EndEffects, disk
<1>11. CASE Finish
  <2>1. CASE MarkApplied
    <3>1. rows' = Marked(Finished, "applied")
      BY <2>1 DEF MarkApplied
    <3> QED
      BY <1>1, <2>1, <3>1, MarkedRow
  <2>2. CASE ClearOlder
    BY <1>1, <1>2, <1>3, <2>2, ClearOlderOf
  <2>3. CASE MarkFailed
    <3>1. stage = "quarantine" /\ (IF failed THEN rows' = Marked({work[done + 1]}, "failed") ELSE rows' = rows)
      BY <2>3 DEF MarkFailed, Go
    <3>2. CASE failed
      <4>1. DOMAIN rows' = DOMAIN rows /\ rows' = Marked({work[done + 1]}, "failed")
        BY <3>1, <3>2 DEF Marked
      <4>2. s \in {work[done + 1]} => s \in Unfinished
        BY <3>1, <3>2, <4>1 DEF QueueInv
      <4> QED
        BY <1>1, <4>1, <4>2, MarkedRow
    <3> QED
      BY <1>2, <3>1, <3>2
  <2>4. CASE Upload
    BY <1>1, <2>4, UploadedRow
  <2>5. CASE EndDrain \/ Advance
    BY <1>2, <2>5 DEF EndDrain, Advance, disk
  <2> QED
    BY <1>11, <2>1, <2>2, <2>3, <2>4, <2>5 DEF Finish
<1>12. CASE Compact
  <2>1. DeleteOld => RowKept(s)
    BY <1>1, <1>3, DeleteOldOf
  <2>2. SaveSnapshot => rows' = rows
    BY DEF SaveSnapshot
  <2> QED
    BY <1>2, <1>12, <2>1, <2>2 DEF Compact
<1> QED
  BY <1>4, <1>5, <1>6, <1>7, <1>8, <1>9, <1>10, <1>11, <1>12 DEF Next

\* No full-state operation is stored over unsynced work.
LEMMA SyncedStep == ASSUME Inv, BaseInv, QueueInv, SyncedInv, Next PROVE SyncedInv'
<1>1. LogType /\ LogType'
  BY NextInv DEF Inv
<1>2. /\ nextSeq \in Nat /\ \A n \in DOMAIN rows : n \in Nat /\ n < nextSeq
      /\ \A n \in DOMAIN rows' : n \in Nat
  BY <1>1 DEF LogType
<1> SUFFICES ASSUME NEW g \in DOMAIN rows', NEW s \in DOMAIN rows', rows'[g].op \in Imports, s < g
             PROVE  rows'[s].synced
  BY DEF SyncedInv
<1>3. /\ RowKept(g) \/ RowNew(g)
      /\ RowKept(s) \/ RowNew(s)
  BY RowChange
<1>4. CASE RowKept(g)
  <2>1. g \in DOMAIN rows /\ rows[g].op \in Imports
    BY <1>4 DEF RowKept
  <2>2. ~RowNew(s)
    BY <1>2, <2>1 DEF RowNew
  <2>3. s \in DOMAIN rows /\ (rows[s].synced => rows'[s].synced)
    BY <1>3, <2>2 DEF RowKept
  <2> QED
    BY <2>1, <2>3 DEF SyncedInv
<1>5. CASE RowNew(g)
  <2>1. rows'[g].op \notin Local
    BY OpsAssumption, ReducerAssumption
  <2>2. StoreBatch /\ g \notin DOMAIN rows
    BY <1>5, <2>1 DEF RowNew
  <2>3. Applicable # <<>>
    BY <2>2 DEF StoreBatch
  <2> DEFINE a == Applicable
  <2>4. /\ Appends(a) /\ Fresh(a) /\ Len(a) \in Nat \ {0} /\ first \in Nat \ {0} /\ target \in 0..Len(Feed)
    BY <2>2, <2>3, BatchFacts
  <2>5. \A k \in 1..Len(a) : \E l \in 1..Len(News(target)) : News(target)[l] = a[k]
    BY <2>4, ApplicableOf
  <2>6. News(target) \in Seq(Remote)
    BY <2>4, NewsOf DEF Fresh
  <2> HIDE DEF a
  <2>7. \E k \in 1..Len(a) : rows'[g].op = a[k]
    <3> DEFINE k == g - nextSeq + 1
    <3>1. g \in nextSeq..(nextSeq + Len(a) - 1)
      BY <2>2, <2>4 DEF Appends
    <3>2. k \in 1..Len(a) /\ g = nextSeq + k - 1
      BY <1>2, <2>4, <3>1
    <3> HIDE DEF k
    <3> QED
      BY <2>4, <3>2 DEF Appends
  <2>8. LastImport(News(target)) # 0
    <3> DEFINE n == News(target)
    <3> HIDE DEF n
    <3>1. PICK l \in 1..Len(n) : n[l] = rows'[g].op
      BY <2>5, <2>7 DEF n
    <3>2. l <= LastImport(n)
      BY <2>6, <3>1, LastImportOf DEF n
    <3> QED
      BY <3>1, <3>2 DEF n
  <2>9. Unsynced = {}
    BY <2>2, <2>8 DEF StoreBatch, Refused
  <2>10. CASE RowKept(s)
    BY <2>9, <2>10 DEF RowKept, Unsynced
  <2>11. CASE RowNew(s)
    <3>1. s \in nextSeq..(nextSeq + Len(a) - 1)
      BY <2>4, <2>11 DEF Appends, RowNew
    <3>2. rows'[s].op \in Remote
      <4> DEFINE k == s - nextSeq + 1
      <4>1. k \in 1..Len(a) /\ s = nextSeq + k - 1
        BY <1>2, <2>4, <3>1
      <4> HIDE DEF k
      <4>2. rows'[s].op = a[k] /\ a[k] \in Remote
        BY <2>4, <4>1 DEF Appends, Fresh
      <4> QED
        BY <4>2
    <3> QED
      BY <2>11, <3>2, OpsAssumption DEF RowNew
  <2> QED
    BY <1>3, <2>10, <2>11
<1> QED
  BY <1>3, <1>4, <1>5

\* A retry takes all that is unfinished, in the order of the log.
LEMMA BegunQueue ==
  ASSUME LogType, NEW m, Begin(m, Unfinished), rows' = rows
  PROVE  /\ \A i, j \in 1..Len(work') : i < j => work'[i] < work'[j]
         /\ Unfinished' \subseteq Batch'
<1>1. nextSeq \in Nat \ {0} /\ Unfinished \in SUBSET (1..(nextSeq - 1)) /\ work' = InOrder(Unfinished)
  BY DEF LogType, Unfinished, Begin
<1>2. Unfinished' = Unfinished
  BY DEF Unfinished
<1>3. \A i, j \in 1..Len(work') : i < j => work'[i] < work'[j]
  BY <1>1, InOrderRises
<1>4. work' \in Seq(1..(nextSeq - 1)) /\ \A x \in Unfinished : \E i \in 1..Len(work') : work'[i] = x
  BY <1>1, InOrderOf
<1>5. DOMAIN work' = 1..Len(work')
  BY <1>4
<1> QED
  BY <1>2, <1>3, <1>4, <1>5 DEF Batch

\* A download takes all of its batch, in the order of the log.
LEMMA CommittedQueue ==
  ASSUME Inv, BaseInv, CommitReducers
  PROVE  /\ \A i, j \in 1..Len(work') : i < j => work'[i] < work'[j]
         /\ Unfinished' \subseteq Batch'
<1>1. /\ LogType /\ WorkType /\ StageInv /\ BatchInv /\ Inv' /\ LogType' /\ WorkType' /\ GateInv'
      /\ stage = "reduced" /\ stage' = "effects" /\ mode' = mode
  <2>1. Next
    BY DEF Next, Stage
  <2>2. Inv'
    BY <2>1, NextInv
  <2> QED
    BY <2>2 DEF Inv, BaseInv, CommitReducers, Go
<1>2. work \in Seq(Nat)
  BY <1>1, WorkSeq
<1> DEFINE T == {s \in DOMAIN rows : rows[s].op \notin Broken}
<1>3. work' = Kept(work, T)
  BY DEF CommitReducers
<1> HIDE DEF T
<1>4. OrderOf(work', work, Len(work))
  BY <1>2, <1>3, KeptOrder
<1>5. \A i, j \in 1..Len(work) : i < j => work[i] < work[j]
  BY <1>1 DEF BatchInv
<1>6. \A i, j \in 1..Len(work') : i < j => work'[i] < work'[j]
  BY <1>4, <1>5 DEF OrderOf
<1>7. mode' = "download"
  BY <1>1 DEF StageInv
<1>8. \A s \in Unfinished' : \E i \in 1..Len(work') : work'[i] = s
  BY <1>1, <1>7 DEF GateInv, ApplyStages
<1>9. DOMAIN work' = 1..Len(work')
  BY <1>1 DEF WorkType
<1> QED
  BY <1>6, <1>8, <1>9 DEF Batch

\* How the tab comes to the stages of the archive work, and behind them.
LEMMA QueueStages ==
  ASSUME Inv, Next
  PROVE  /\ stage' \in {"effects", "mark"} =>
              \/ stage \in {"effects", "mark"} /\ work' = work /\ ~Settle /\ ~CommitReducers /\ ~MarkFailed
              \/ CommitReducers
              \/ rows' = rows /\ \E m \in {"start", "gate"} : Begin(m, Unfinished)
         /\ stage' \in {"clear", "quarantine"} =>
              \/ stage \in {"clear", "quarantine"} /\ work' = work /\ done' = done /\ failed' = failed
              \/ MarkApplied
<1> DEFINE E == {"effects", "mark"}
           C == {"clear", "quarantine"}
           Stays == stage' = stage /\ work' = work /\ done' = done /\ failed' = failed
<1>0. E \cap C = {}
  OBVIOUS
<1>1. CASE Start
  <2>1. CASE EndStart
    <3>1. rows' = rows /\ Begin("start", Unfinished) /\ stage' = "effects"
      BY <2>1 DEF EndStart, Begin
    <3> QED
      BY <3>1
  <2>2. CASE Load \/ Replay \/ Settle
    BY <2>2 DEF Load, Replay, Settle, Go
  <2> QED
    BY <1>1, <2>1, <2>2 DEF Start
<1>2. CASE User \/ Publish \/ SaveSnapshot \/ DeleteOld
  <2>1. stage' = stage /\ UNCHANGED <<work, done, failed>>
    BY <1>2 DEF User, Dispatch, WriteCaptured, LoseCaptured, WriteElsewhere, Publish, SaveSnapshot, DeleteOld, apply
  <2>2. stage' \in E => ~Settle /\ ~CommitReducers /\ ~MarkFailed
    BY <2>1 DEF Settle, CommitReducers, MarkFailed, Go
  <2> QED
    BY <2>1, <2>2
<1>3. CASE Buffer
  <2>1. stage' \notin E \cup C
    BY <1>3 DEF Buffer, WriteDeferred, FailDeferred
  <2> QED
    BY <2>1
<1>4. CASE Fetch
  <2>1. CASE Gate
    <3>1. rows' = rows
      BY <2>1 DEF Gate, disk
    <3>2. Begin("gate", Unfinished) \/ stage' \in {"idle", "fetched"}
      BY <2>1 DEF Gate
    <3>3. Begin("gate", Unfinished) => stage' = "effects"
      BY DEF Begin
    <3> QED
      BY <3>1, <3>2, <3>3
  <2>2. CASE ~Gate
    <3>1. stage' \notin E \cup C
      BY <1>4, <2>2 DEF Fetch, Sync, FirstPage, LastPage, Refuse, StoreBatch, Go
    <3> QED
      BY <3>1
  <2> QED
    BY <2>1, <2>2
<1>5. CASE Stage
  <2>1. stage' \notin C /\ (stage' \in E => CommitReducers)
    BY <1>5 DEF Stage, MergeClocks, RunReducers, CommitReducers, Throw, Go
  <2> QED
    BY <2>1
<1>6. CASE Effects
  <2>1. stage' \notin C /\ stage = "effects" /\ work' = work
    BY <1>6 DEF Effects, RunEffect, FailEffect, EndEffects, Go, apply
  <2>2. ~Settle /\ ~CommitReducers /\ ~MarkFailed
    BY <2>1 DEF Settle, CommitReducers, MarkFailed, Go
  <2> QED
    BY <2>1, <2>2
<1>7. CASE Finish
  <2>1. stage' \notin E
    BY <1>7 DEF Finish, MarkApplied, ClearOlder, MarkFailed, EndDrain, Advance, Upload, Go
  <2>2. stage' \in C => MarkApplied \/ (ClearOlder /\ stage = "clear" /\ UNCHANGED <<work, done, failed>>)
    BY <1>7 DEF Finish, ClearOlder, MarkFailed, EndDrain, Advance, Upload, Go, apply
  <2> QED
    BY <2>1, <2>2
<1>8. CASE Crash
  BY <1>8 DEF Crash
<1> QED
  BY <1>1, <1>2, <1>3, <1>4, <1>5, <1>6, <1>7, <1>8 DEF Next, Compact

\* While rows are marked, no row but the marked ones changes.
LEMMA MarkStages ==
  ASSUME Inv, BaseInv, Next, stage \in {"clear", "quarantine"}, stage' \in {"clear", "quarantine"},
         NEW s \in Unfinished, s \in DOMAIN rows'
  PROVE  s \in Unfinished'
<1>1. LogType /\ KnowType /\ LogInv /\ UiType /\ OwnInv
  BY DEF Inv, BaseInv
<1>2. rows' = rows => s \in Unfinished'
  BY DEF Unfinished
<1>3. ASSUME NEW S, Deletes(S) PROVE s \in Unfinished'
  BY <1>3 DEF Deletes, Unfinished
<1>4. ASSUME NEW o, Writes(o) PROVE s \in Unfinished'
  BY <1>4 DEF Writes
<1>5. CASE Start \/ Stage \/ Effects \/ Fetch \/ Buffer
  <2>1. Start => stage \in BootStages
    BY DEF Start, Load, Replay, Settle, EndStart, Go, BootStages
  <2>2. Stage => stage \in {"stored", "informed", "reduced"} \/ stage' \in {"drain"}
    BY DEF Stage, MergeClocks, RunReducers, CommitReducers, Throw, Go
  <2>3. Effects => stage = "effects"
    BY DEF Effects, RunEffect, FailEffect, EndEffects, Go
  <2>4. Fetch => stage \in {"idle", "flush", "fetched", "paging", "flushed"}
    BY DEF Fetch, Sync, Gate, FirstPage, LastPage, Refuse, StoreBatch, Go
  <2>5. Buffer => stage \in {"drain", "flush"}
    BY DEF Buffer, WriteDeferred, FailDeferred
  <2> QED
    BY <1>5, <2>1, <2>2, <2>3, <2>4, <2>5 DEF BootStages
<1>6. CASE User
  <2>1. WriteCaptured => s \in Unfinished'
    BY <1>1, <1>4, WaitingOf, WritesOf DEF WriteCaptured
  <2>2. \A o \in TabOps : WriteElsewhere(o) => s \in Unfinished'
    BY <1>1, <1>4, WritesOf DEF WriteElsewhere, Local
  <2>3. Dispatch \/ LoseCaptured => rows' = rows
    BY DEF Dispatch, LoseCaptured, disk
  <2> QED
    BY <1>2, <1>6, <2>1, <2>2, <2>3 DEF User
<1>7. CASE Publish \/ Crash
  BY <1>2, <1>7 DEF Publish, Crash, disk
<1>8. CASE Finish
  <2>1. ClearOlder => s \in Unfinished'
    BY <1>1, <1>2, <1>3, ClearOlderOf
  <2>2. ~ClearOlder => stage' \notin {"clear", "quarantine"} \/ stage = "mark"
    BY <1>8 DEF Finish, MarkApplied, MarkFailed, EndDrain, Advance, Upload, Go
  <2> QED
    BY <2>1, <2>2
<1>9. CASE Compact
  <2>1. DeleteOld => s \in Unfinished'
    BY <1>1, <1>3, DeleteOldOf
  <2> QED
    BY <1>2, <1>9, <2>1 DEF Compact, SaveSnapshot
<1> QED
  BY <1>5, <1>6, <1>7, <1>8, <1>9 DEF Next

\* The archive work is complete and in order.
LEMMA QueueStep == ASSUME Inv, BaseInv, QueueInv, Next PROVE QueueInv'
<1>1. LogType /\ WorkType /\ WorkInv /\ OwnInv
  BY DEF Inv, BaseInv
<1>2. DOMAIN work = 1..Len(work) /\ Len(work) \in Nat /\ done \in 0..Len(work) /\ \A i \in 1..Len(work) : work[i] \in Nat
  <2>1. work \in Seq(Nat) /\ DOMAIN work = 1..Len(work) /\ Len(work) \in Nat
    BY <1>1, WorkSeq
  <2> QED
    BY <1>1, <2>1 DEF WorkType
<1>3. ASSUME stage' \in {"effects", "mark"}
      PROVE  /\ \A i, j \in 1..Len(work') : i < j => work'[i] < work'[j]
             /\ Unfinished' \subseteq Batch'
  <2>1. CASE stage \in {"effects", "mark"} /\ work' = work /\ ~Settle /\ ~CommitReducers /\ ~MarkFailed
    <3>1. Unfinished' \subseteq Unfinished
      BY <1>1, <2>1, UnfinishedStep
    <3>2. Batch' = Batch
      BY <2>1 DEF Batch
    <3> QED
      BY <2>1, <3>1, <3>2 DEF QueueInv
  <2>2. CASE CommitReducers
    BY <2>2, CommittedQueue
  <2>3. CASE rows' = rows /\ \E m \in {"start", "gate"} : Begin(m, Unfinished)
    BY <1>1, <2>3, BegunQueue
  <2> QED
    BY <1>3, <2>1, <2>2, <2>3, QueueStages
<1>4. ASSUME stage' \in {"clear", "quarantine"}, failed', work'[done' + 1] \in DOMAIN rows'
      PROVE  work'[done' + 1] \in Unfinished'
  <2>1. CASE stage \in {"clear", "quarantine"} /\ work' = work /\ done' = done /\ failed' = failed
    <3> DEFINE x == work[done + 1]
    <3>1. x = work'[done' + 1] /\ failed
      BY <1>4, <2>1
    <3>2. x \in DOMAIN rows
      <4>1. RowKept(x) \/ RowNew(x)
        BY <1>4, <3>1, RowChange
      <4>2. done + 1 \in 1..Len(work)
        BY <1>1, <1>2, <2>1, <3>1 DEF WorkInv
      <4>3. x \in 1..(nextSeq - 1) /\ nextSeq \in Nat
        BY <1>1, <4>2, WorkSeq DEF LogType
      <4>4. ~RowNew(x)
        BY <4>3 DEF RowNew
      <4> QED
        BY <4>1, <4>4 DEF RowKept
    <3>3. x \in Unfinished
      BY <2>1, <3>1, <3>2 DEF QueueInv
    <3> HIDE DEF x
    <3> QED
      BY <1>4, <2>1, <3>1, <3>3, MarkStages
  <2>2. CASE MarkApplied
    <3>1. /\ stage = "mark" /\ rows' = Marked(Finished, "applied") /\ work' = work /\ done' = done /\ failed' = failed
      BY <2>2 DEF MarkApplied, Go, apply
    <3> DEFINE x == work[done + 1]
    <3>2. done + 1 \in 1..Len(work) /\ \A i \in 1..done : i \in 1..Len(work) /\ i < done + 1
      BY <1>1, <1>2, <1>4, <3>1 DEF WorkInv
    <3>3. x \in Unfinished
      BY <1>1, <3>1, <3>2 DEF WorkInv
    <3>4. \A i \in 1..done : work[i] < x
      BY <3>1, <3>2 DEF QueueInv
    <3>5. x \notin Finished
      <4>1. x \in Nat
        BY <1>2, <3>2
      <4> HIDE DEF x
      <4> QED
        BY <1>2, <3>2, <3>4, <4>1 DEF Finished
    <3>6. x \in DOMAIN rows' /\ rows'[x] = rows[x]
      BY <3>1, <3>3, <3>5 DEF Marked, Unfinished
    <3>7. x \in Unfinished'
      BY <3>3, <3>6 DEF Unfinished
    <3> QED
      BY <3>1, <3>7
  <2> QED
    BY <1>4, <2>1, <2>2, QueueStages
<1> QED
  BY <1>3, <1>4 DEF QueueInv

\* What is marked applied is a prefix of what is open.
LEMMA DoneStep == ASSUME Inv, BaseInv, QueueInv, DoneInv, Next PROVE DoneInv'
<1>1. LogType /\ LogType' /\ WorkType /\ Inv' /\ PendInv
  BY NextInv DEF Inv, BaseInv
<1>2. /\ nextSeq \in Nat /\ \A n \in DOMAIN rows : n \in Nat /\ n < nextSeq
      /\ \A n \in DOMAIN rows' : n \in Nat
  BY <1>1 DEF LogType
<1> SUFFICES ASSUME NEW g \in DOMAIN rows', NEW s \in DOMAIN rows', rows'[g].status = "applied", s < g
             PROVE  s \notin Open'
  BY DEF DoneInv
<1>3. RowKept(g) \/ RowNew(g)
  BY RowChange
<1>4. RowKept(s) \/ RowNew(s)
  BY RowChange
<1>5. RowKept(g)
  BY <1>3 DEF RowNew
<1>6. g \in DOMAIN rows /\ (rows[g].status = "applied" \/ (MarkApplied /\ g \in Finished))
  BY <1>5 DEF RowKept
<1>7. RowKept(s) /\ s \in DOMAIN rows
  <2>1. ~RowNew(s)
    BY <1>2, <1>6 DEF RowNew
  <2> QED
    BY <1>4, <2>1 DEF RowKept
<1>8. CASE rows[g].status = "applied"
  BY <1>6, <1>7, <1>8 DEF DoneInv, RowKept
<1>9. CASE MarkApplied /\ g \in Finished
  <2>1. stage = "mark" /\ rows' = Marked(Finished, "applied") /\ Pending = {}
    BY <1>1, <1>9 DEF MarkApplied, Go, PendInv
  <2> SUFFICES ASSUME s \in Open' PROVE FALSE
    OBVIOUS
  <2>2. s \in Unfinished
    BY <1>7, <2>1 DEF RowKept, Open
  <2>3. s \notin Finished
    <3> SUFFICES ASSUME s \in Finished PROVE FALSE
      OBVIOUS
    <3>1. rows'[s] = [rows[s] EXCEPT !.status = "applied"] /\ rows[s] \in Row
      BY <1>1, <1>7, <2>1 DEF Marked, LogType
    <3>2. rows'[s].status = "applied"
      BY <3>1 DEF Row
    <3> QED
      BY <3>2 DEF Open, Pending, Unfinished
  <2>4. DOMAIN work = 1..Len(work) /\ Len(work) \in Nat /\ done \in 0..Len(work) /\ \A i \in 1..Len(work) : work[i] \in Nat
    <3>1. work \in Seq(Nat) /\ DOMAIN work = 1..Len(work) /\ Len(work) \in Nat
      BY <1>1, WorkSeq
    <3> QED
      BY <1>1, <3>1 DEF WorkType
  <2>5. PICK j \in 1..Len(work) : work[j] = s
    BY <2>1, <2>2, <2>4 DEF QueueInv, Batch
  <2>6. PICK i \in 1..done : work[i] = g
    BY <1>9 DEF Finished
  <2>7. j \notin 1..done
    BY <2>3, <2>5 DEF Finished
  <2>8. i \in 1..Len(work) /\ i < j
    BY <2>4, <2>5, <2>6, <2>7
  <2>9. work[i] < work[j]
    BY <2>1, <2>5, <2>8 DEF QueueInv
  <2> QED
    BY <1>2, <1>6, <1>7, <2>5, <2>6, <2>9
<1> QED
  BY <1>6, <1>8, <1>9

\* An old full-state operation takes what is before it along.
LEMMA DeletedBefore ==
  ASSUME Regular, Inv, BaseInv, StateInv, DoneInv, SyncedInv, DeleteOld,
         NEW g \in DOMAIN rows \ DOMAIN rows', rows[g].op \in Imports, NEW s \in DOMAIN rows, s < g
  PROVE  s \notin DOMAIN rows'
<1>1. LogType /\ LogInv /\ KnowType /\ OnceInv /\ FeedType
  BY DEF Inv, BaseInv
<1>2. PICK age \in 0..cache.anchor :
        rows' = [t \in {u \in DOMAIN rows : ~(u \in Old(age) /\ Deletable(u))} |-> rows[t]]
  BY DEF DeleteOld
<1>3. g \in Old(age) /\ Deletable(g)
  BY <1>2
<1>4. "stall" \notin Events
  BY ReducerAssumption DEF Regular
<1>5. g \in Nat /\ s \in Nat /\ age \in Nat /\ cache.anchor \in Nat
  BY <1>1, <1>2 DEF LogType, KnowType, Snapshot
<1>6. s \in Old(age)
  <2>1. s <= age
    BY <1>3, <1>5 DEF Old
  <2>2. ASSUME NEW i \in (cursor + 1)..Len(Feed), Feed[i] = rows[s].op PROVE FALSE
    <3>1. cursor \in Nat /\ Len(Feed) \in Nat /\ DOMAIN Feed = 1..Len(Feed)
      BY <1>1, OpsAssumption DEF FeedType
    <3>2. i \in DOMAIN Feed /\ i \in Nat
      BY <2>2, <3>1
    <3>3. PICK k \in DOMAIN Feed : Feed[k] = rows[g].op
      BY ReducerAssumption DEF Remote
    <3>4. rows[s].op \in DOMAIN logged /\ rows[g].op \in DOMAIN logged /\ logged[rows[s].op] = s /\ logged[rows[g].op] = g
      BY <1>1 DEF LogInv, OnceInv
    <3>5. k > i
      BY <1>5, <2>2, <3>2, <3>3, <3>4 DEF StateInv, PagesInv, OrderInv
    <3>6. k \notin (cursor + 1)..Len(Feed)
      BY <1>3, <1>4, <3>3 DEF Old
    <3> QED
      BY <2>2, <3>1, <3>2, <3>3, <3>5, <3>6
  <2> QED
    BY <2>1, <2>2 DEF Old
<1>7. Deletable(s)
  <2>1. rows[g].op \in Remote /\ ~rows[g].rejected /\ rows[g].status # "local"
    BY <1>1, ReducerAssumption DEF LogInv
  <2>2. rows[g].status = "applied"
    BY <1>3, <2>1 DEF Deletable
  <2>3. s \notin Pending \cup Unfinished
    BY <2>2 DEF DoneInv, Open
  <2>4. rows[s].synced
    BY DEF SyncedInv
  <2>5. rows[s].status \in {"local", "pending", "archive_pending", "failed", "applied"}
    BY <1>1 DEF LogType, Row, Statuses
  <2> QED
    BY <2>3, <2>4, <2>5 DEF Deletable, Pending, Unfinished
<1> QED
  BY <1>2, <1>6, <1>7

\* A compaction that takes the replacing operation takes what it replaced.
LEMMA TailStep ==
  ASSUME Regular, Inv, BaseInv, StateInv, QueueInv, DoneInv, SyncedInv, TailInv, Next
  PROVE  TailInv'
<1>1. /\ LogType /\ KnowType /\ LogInv /\ UiType /\ OnceInv /\ OwnInv /\ CursorInv /\ CoveredInv /\ PagesInv
      /\ nextSeq \in Nat /\ (\A n \in DOMAIN rows : n \in Nat) /\ \A p \in DOMAIN logged : logged[p] \in Nat /\ logged[p] < nextSeq
  BY DEF Inv, BaseInv, StateInv, PagesInv, LogType
<1> SUFFICES ASSUME NEW g \in Imports, g \in DOMAIN logged', g \notin Ids', Holds(g)', NEW s \in DOMAIN rows'
             PROVE  s > logged'[g]
  BY DEF TailInv
<1>2. ASSUME g \in DOMAIN logged, g \notin Ids, Holds(g), NEW t \in DOMAIN rows PROVE t > logged[g]
  BY <1>2 DEF TailInv
<1>3. CASE KeepsRows
  <2>1. logged' = logged /\ DOMAIN rows' = DOMAIN rows /\ \A t \in DOMAIN rows : rows'[t].op = rows[t].op
    BY <1>3 DEF KeepsRows
  <2>2. g \notin Ids /\ Holds(g)
    BY <2>1 DEF Ids, Holds
  <2> QED
    BY <1>2, <2>1, <2>2
<1>4. ASSUME NEW S, Deletes(S) PROVE Holds(g) /\ g \in DOMAIN logged /\ s \in DOMAIN rows /\ logged' = logged
  <2>1. logged' = logged /\ s \in DOMAIN rows
    BY <1>4 DEF Deletes
  <2> QED
    BY <2>1 DEF Holds
<1>5. CASE ClearOlder /\ Deletes(Older) /\ mode = "download" /\ \E t \in Finished : rows[t].op \in Imports
  <2>1. Holds(g) /\ g \in DOMAIN logged /\ s \in DOMAIN rows /\ logged' = logged
    BY <1>4, <1>5
  <2>2. g \notin Ids
    <3> SUFFICES ASSUME g \in Ids PROVE FALSE
      OBVIOUS
    <3>1. PICK t \in DOMAIN rows : rows[t].op = g
      BY DEF Ids
    <3>2. t \notin DOMAIN rows'
      BY <1>5, <3>1 DEF Deletes, Ids
    <3>3. t \in Older
      BY <1>5, <3>1, <3>2 DEF Deletes
    <3> QED
      BY <1>1, <1>5, <2>1, <3>1, <3>3, OlderReplaced
  <2> QED
    BY <1>2, <2>1, <2>2
<1>6. CASE DeleteOld
  <2>1. PICK S \in SUBSET (DOMAIN rows) : Deletes(S)
    BY <1>1, <1>6, DeleteOldOf
  <2>2. Holds(g) /\ g \in DOMAIN logged /\ s \in DOMAIN rows /\ logged' = logged
    BY <1>4, <2>1
  <2>3. CASE g \notin Ids
    BY <1>2, <2>2, <2>3
  <2>4. CASE g \in Ids
    <3>1. PICK t \in DOMAIN rows : rows[t].op = g
      BY <2>4 DEF Ids
    <3>2. t \notin DOMAIN rows'
      BY <2>1, <3>1 DEF Deletes, Ids
    <3>3. ~(s < t)
      BY <1>6, <2>2, <3>1, <3>2, DeletedBefore
    <3>4. logged[g] = t
      BY <1>1, <3>1 DEF OnceInv
    <3>5. s # t
      BY <3>2
    <3> QED
      BY <1>1, <2>2, <3>1, <3>3, <3>4, <3>5
  <2> QED
    BY <2>3, <2>4
<1>7. ASSUME NEW o \in Local \ DOMAIN logged, Writes(o) PROVE s > logged'[g]
  <2>1. g # o /\ g \in Op
    BY OpsAssumption, ReducerAssumption DEF Op
  <2>2. g \in DOMAIN logged /\ logged'[g] = logged[g] /\ Holds(g)
    <3>1. g \in DOMAIN logged
      BY <1>7, <2>1 DEF Writes
    <3>2. Holds(g)
      BY <1>1, <1>7, <2>1, HoldsWritten
    <3> QED
      BY <1>7, <2>1, <3>1, <3>2 DEF Writes
  <2>3. /\ DOMAIN rows' = DOMAIN rows \cup {nextSeq} /\ \A n \in DOMAIN rows : rows'[n] = rows[n]
    BY <1>7 DEF Writes
  <2>4. g \notin Ids
    BY <2>3 DEF Ids
  <2>5. CASE s \in DOMAIN rows
    BY <1>2, <2>2, <2>4, <2>5
  <2>6. CASE s = nextSeq
    BY <1>1, <2>2, <2>6
  <2> QED
    BY <2>3, <2>5, <2>6
<1>8. CASE StoreBatch /\ Applicable # <<>>
  <2> DEFINE a == Applicable
  <2>1. Appends(a) /\ Fresh(a) /\ a \in Seq(Op) /\ Len(a) \in Nat \ {0} /\ stage = "flushed"
    BY <1>8, BatchFacts
  <2>2. \A k \in 1..Len(a) : a[k] \notin DOMAIN logged \ Broken
    BY <1>1, <2>1, FreshBatch
  <2> HIDE DEF a
  <2>3. \A i, j \in 1..Len(a) : a[i] = a[j] => i = j
    BY <2>1 DEF Fresh
  <2>4. \A i \in 1..Len(a) : a[i] # g
    <3> SUFFICES ASSUME NEW i \in 1..Len(a), a[i] = g PROVE FALSE
      OBVIOUS
    <3> DEFINE n == nextSeq + i - 1
    <3>1. n \in DOMAIN rows' /\ rows'[n].op = g
      <4>1. n \in nextSeq..(nextSeq + Len(a) - 1)
        BY <1>1, <2>1
      <4> QED
        BY <2>1, <4>1 DEF Appends
    <3> HIDE DEF n
    <3> QED
      BY <3>1 DEF Ids
  <2>5. g \in Op
    BY ReducerAssumption DEF Op
  <2>6. Holds(g)
    BY <1>1, <2>1, <2>2, <2>3, <2>4, <2>5, HoldsAfter
  <2>7. g \in DOMAIN logged /\ logged'[g] = logged[g]
    BY <2>1, <2>4 DEF Appends
  <2>8. g \notin Ids
    BY <2>1 DEF Appends, Ids
  <2>9. CASE s \in DOMAIN rows
    BY <1>2, <2>6, <2>7, <2>8, <2>9
  <2>10. CASE s \notin DOMAIN rows
    <3>1. s \in nextSeq..(nextSeq + Len(a) - 1)
      BY <2>1, <2>10 DEF Appends
    <3> QED
      BY <1>1, <2>7, <3>1
  <2> QED
    BY <2>9, <2>10
<1>9. OwnOps \subseteq Local /\ TabOps \subseteq Local
  BY DEF Local
<1> QED
  BY <1>1, <1>3, <1>5, <1>6, <1>7, <1>8, <1>9, LogStep

\* The snapshot that is taken now.
LEMMA CoversTaken ==
  ASSUME Regular, Inv, BaseInv, LiveInv, TailInv, Snap, SaveSafe(LastSeq), ~PhantomRisk, Pending = {},
         stage \notin {"off", "loaded", "replayed"}, UNCHANGED <<rows, nextSeq, logged>>
  PROVE  SnapshotCoversLog'
<1>1. LogType /\ OnceInv
  BY DEF Inv, BaseInv
<1>2. cache'.state = live /\ cache'.anchor = LastSeq
  BY DEF Snap
<1>3. /\ LastSeq \in Nat /\ (\A n \in DOMAIN rows : n \in Nat /\ n <= LastSeq)
      /\ \A p \in DOMAIN logged : logged[p] \in Nat /\ logged[p] > 0 /\ p \in Op
  BY <1>1, LastSeqBounds DEF LogType
<1> SUFFICES ASSUME NEW o \in DOMAIN logged \ Broken, logged[o] <= LastSeq
             PROVE  live[o] > 0 \/ \E i \in Imports \cap DOMAIN logged : logged[i] \in (logged[o] + 1)..LastSeq
  BY <1>2 DEF SnapshotCoversLog
<1>4. Exact(o)
  BY <1>3, SnapExact
<1>5. CASE Holds(o)
  BY <1>4, <1>5 DEF Exact
<1>6. CASE ~Holds(o)
  <2>1. PICK i \in Imports \cap DOMAIN logged : ~(logged[i] <= logged[o])
    BY <1>6 DEF Holds
  <2>2. PICK g \in Imports \cap DOMAIN logged : Holds(g) /\ logged[i] <= logged[g]
    BY <1>1, LastHolds
  <2>3. logged[g] <= LastSeq
    <3>1. CASE g \in Ids
      <4>1. PICK s \in DOMAIN rows : rows[s].op = g
        BY <3>1 DEF Ids
      <4>2. logged[g] = s
        BY <1>1, <4>1 DEF OnceInv
      <4> QED
        BY <1>3, <4>1, <4>2
    <3>2. CASE g \notin Ids
      <4>1. \A s \in DOMAIN rows : s > logged[g]
        BY <2>2, <3>2 DEF TailInv
      <4>2. DOMAIN rows # {}
        <5>1. LastSeq # 0
          BY <1>3
        <5> QED
          BY <5>1 DEF LastSeq
      <4>3. PICK s \in DOMAIN rows : TRUE
        BY <4>2
      <4>4. s > logged[g] /\ s <= LastSeq /\ s \in Nat /\ logged[g] \in Nat
        BY <1>3, <4>1
      <4> QED
        BY <1>3, <4>4
    <3> QED
      BY <3>1, <3>2
  <2>4. logged[g] \in (logged[o] + 1)..LastSeq
    BY <1>3, <2>1, <2>2, <2>3
  <2> QED
    BY <2>4
<1> QED
  BY <1>5, <1>6

\* What the snapshot's number covers, its state does.
LEMMA CoversStep ==
  ASSUME Regular, Inv, BaseInv, StateInv, TailInv, SnapshotCoversLog, Next
  PROVE  SnapshotCoversLog'
<1>1. LogType /\ KnowType /\ LogInv /\ UiType /\ OwnInv /\ PendInv /\ CoveredInv /\ PagesInv /\ LiveInv
  BY DEF Inv, BaseInv, StateInv
<1>2. CASE cache' # cache
  <2>1. /\ Snap /\ SaveSafe(LastSeq) /\ ~PhantomRisk /\ Pending = {} /\ UNCHANGED <<rows, nextSeq, logged>>
        /\ stage \notin {"off", "loaded", "replayed"}
    BY <1>1, <1>2, CacheStep
  <2> QED
    BY <1>1, <2>1, CoversTaken
<1>3. CASE cache' = cache
  <2>1. cache.anchor \in Nat /\ nextSeq \in Nat /\ cache.anchor < nextSeq
    BY <1>1 DEF LogType, KnowType, Snapshot
  <2>2. ASSUME NEW o \in DOMAIN logged', logged'[o] <= cache.anchor
        PROVE  o \in DOMAIN logged /\ logged'[o] = logged[o]
    <3>1. CASE StoreBatch /\ Applicable # <<>> /\ \E k \in 1..Len(Applicable) : Applicable[k] = o
      <4> DEFINE a == Applicable
      <4>1. Appends(a) /\ Len(a) \in Nat
        BY <3>1, BatchFacts
      <4>2. PICK k \in 1..Len(a) : a[k] = o
        BY <3>1
      <4> HIDE DEF a
      <4>3. logged'[o] = nextSeq + k - 1
        BY <4>1, <4>2 DEF Appends
      <4>4. logged'[o] >= nextSeq
        BY <2>1, <4>1, <4>2, <4>3
      <4> QED
        BY <2>1, <2>2, <4>3, <4>4
    <3>2. CASE ~(StoreBatch /\ Applicable # <<>> /\ \E k \in 1..Len(Applicable) : Applicable[k] = o)
      <4>1. (\E k \in 1..Len(Applicable) : Applicable[k] = o) => Applicable # <<>>
        OBVIOUS
      <4>2. ~(StoreBatch /\ \E k \in 1..Len(Applicable) : Applicable[k] = o)
        BY <3>2, <4>1
      <4>3. CASE o \in DOMAIN logged
        BY <1>1, <4>2, <4>3, LoggedStays
      <4>4. CASE o \notin DOMAIN logged
        <5>1. Writes(o)
          BY <1>1, <4>2, <4>4, LoggedGrows
        <5>2. logged'[o] = nextSeq
          BY <5>1 DEF Writes
        <5> QED
          BY <2>1, <2>2, <5>2
      <4> QED
        BY <4>3, <4>4
    <3> QED
      BY <3>1, <3>2
  <2>3. ASSUME NEW i \in Imports \cap DOMAIN logged PROVE i \in DOMAIN logged' /\ logged'[i] = logged[i]
    <3>1. i \notin Broken
      BY ReducerAssumption
    <3>2. ~(StoreBatch /\ \E k \in 1..Len(Applicable) : Applicable[k] = i)
      <4> SUFFICES ASSUME StoreBatch, NEW k \in 1..Len(Applicable), Applicable[k] = i PROVE FALSE
        OBVIOUS
      <4>1. stage = "flushed"
        BY DEF StoreBatch
      <4>2. Applicable[k] \notin DOMAIN logged \ Broken
        BY <1>1, <4>1, FreshBatch
      <4> QED
        BY <3>1, <4>2
    <3>3. logged'[i] = logged[i]
      BY <1>1, <3>2, LoggedStays
    <3>4. i \in DOMAIN logged'
      BY <1>1, LoggedGrows
    <3> QED
      BY <3>3, <3>4
  <2> SUFFICES ASSUME NEW o \in DOMAIN logged' \ Broken, logged'[o] <= cache.anchor, ~(cache.state[o] > 0)
               PROVE  \E i \in Imports \cap DOMAIN logged' : logged'[i] \in (logged'[o] + 1)..cache.anchor
    BY <1>3 DEF SnapshotCoversLog
  <2>4. o \in DOMAIN logged /\ logged'[o] = logged[o]
    BY <2>2
  <2>5. PICK i \in Imports \cap DOMAIN logged : logged[i] \in (logged[o] + 1)..cache.anchor
    BY <2>4 DEF SnapshotCoversLog
  <2> QED
    BY <2>3, <2>4, <2>5
<1> QED
  BY <1>2, <1>3

\* All of it, and steps that change nothing.
LEMMA CoverStep == ASSUME Regular, Inv, BaseInv, StateInv, CoverInv, [Next]_vars PROVE CoverInv'
<1>1. CASE Next
  BY <1>1, QueueStep, DoneStep, SyncedStep, TailStep, CoversStep DEF CoverInv
<1>2. CASE UNCHANGED vars
  <2>1. UNCHANGED <<rows, cache, stage, work, done, failed, logged>>
    BY <1>2 DEF vars, disk, apply
  <2>2. Open' = Open /\ Unfinished' = Unfinished /\ Batch' = Batch /\ Ids' = Ids
    BY <2>1 DEF Open, Pending, Unfinished, Batch, Ids
  <2>3. \A o : Holds(o)' <=> Holds(o)
    BY <2>1 DEF Holds
  <2>4. QueueInv' /\ DoneInv' /\ SyncedInv'
    BY <2>1, <2>2 DEF CoverInv, QueueInv, DoneInv, SyncedInv
  <2>5. TailInv' /\ SnapshotCoversLog'
    BY <2>1, <2>2, <2>3 DEF CoverInv, TailInv, SnapshotCoversLog
  <2> QED
    BY <2>4, <2>5 DEF CoverInv
<1> QED
  BY <1>1, <1>2

\* Every operation up to the snapshot's sequence number is in the snapshot or was replaced
\* by a full-state operation up to there: no start replays too little.
THEOREM RemoteSnapshotCovers == Regular => (Spec => []SnapshotCoversLog)
<1> SUFFICES ASSUME Regular PROVE Spec => []SnapshotCoversLog
  OBVIOUS
<1>1. Init => CoverInv
  <2> SUFFICES ASSUME Init PROVE CoverInv
    OBVIOUS
  <2>1. DOMAIN rows = {} /\ DOMAIN logged = {} /\ stage = "off"
    BY DEF Init
  <2>2. QueueInv /\ DoneInv /\ SyncedInv
    BY <2>1 DEF QueueInv, DoneInv, SyncedInv
  <2>3. TailInv /\ SnapshotCoversLog
    BY <2>1 DEF TailInv, SnapshotCoversLog
  <2> QED
    BY <2>2, <2>3 DEF CoverInv
<1>2. Inv /\ BaseInv /\ StateInv /\ CoverInv /\ [Next]_vars => CoverInv'
  BY CoverStep
<1>3. CoverInv => SnapshotCoversLog
  BY DEF CoverInv
<1> QED
  BY <1>1, <1>2, <1>3, StateHolds, PTL DEF Spec

-----------------------------------------------------------------------------
(* What the device's next operation knows.  Without full-state operations, *)
(* for every event: other tabs, failed writes, stalls, snapshots or none.  *)

\* The screen shows no remote operation that the clock does not know, and the clock knows
\* all of the device's own; a start takes both from the snapshot and the rows behind it.
\* Between them the batch is known before it is shown.
KnowsInv ==
  /\ stage \notin {"off", "loaded"} => /\ \A r \in Remote : live[r] > 0 => r \in clock
                                       /\ DOMAIN logged \cap Local \subseteq clock
  /\ \A r \in Remote : cache.state[r] > 0 => r \in cache.clock
  /\ stage = "loaded" => live = cache.state
  /\ stage = "informed" => \A i \in 1..Len(work) : rows[work[i]].op \in clock
  /\ \A o \in DOMAIN logged \cap Local :
       o \in cache.clock \/ \E s \in DOMAIN rows : rows[s].op = o /\ s > cache.anchor

\* What rows show that was not shown before is in them.
LEMMA ShownByRows ==
  ASSUME LogType, OnceInv, NEW w \in Seq(Nat), \A i \in 1..Len(w) : w[i] \in DOMAIN rows,
         \A i, j \in 1..Len(w) : i < j => w[i] < w[j],
         NEW st \in [Op -> Nat], NEW r \in Op, Reduce(st, OpsAt(w))[r] > 0
  PROVE  st[r] > 0 \/ \E i \in 1..Len(w) : rows[w[i]].op = r
<1> DEFINE S == {w[i] : i \in 1..Len(w)}
<1>1. S \in SUBSET Nat
  OBVIOUS
<1>2. (\A i \in 1..Len(w) : w[i] \in S) /\ \A x \in S : \E i \in 1..Len(w) : w[i] = x
  OBVIOUS
<1> HIDE DEF S
<1>3. Reduce(st, OpsAt(w))[r] = (IF \E t \in S : rows[t].op \in Imports THEN 0 ELSE st[r])
                                 + (IF Effective(r, S) THEN 1 ELSE 0)
  BY <1>1, <1>2, ReduceRows
<1>4. CASE Effective(r, S)
  <2>1. PICK s \in S : rows[s].op = r
    BY <1>4 DEF Effective
  <2> QED
    BY <1>2, <2>1
<1>5. CASE ~Effective(r, S)
  BY <1>3, <1>5
<1> QED
  BY <1>4, <1>5

\* A start learns every row that it replays.
LEMMA ReplayKnows ==
  ASSUME Imports = {}, LogType, UiType, OnceInv, Replay
  PROVE  /\ clock \subseteq clock' /\ \A s \in Replayed : rows[s].op \in clock'
         /\ \A r \in Op : live'[r] > 0 => live[r] > 0 \/ r \in clock'
<1> DEFINE w == Replayable
           t == OpsAt(w)
<1>1. /\ w \in Seq(Nat) /\ \A i \in 1..Len(w) : w[i] \in DOMAIN rows
      /\ \A i, j \in 1..Len(w) : i < j => w[i] < w[j]
      /\ \A x \in Replayed : \E i \in 1..Len(w) : w[i] = x
  BY ReplayableOf
<1>2. clock' = Merge(clock, t) /\ live' = Reduce(live, OpsAt(w))
  BY DEF Replay
<1> HIDE DEF w
<1>3. t \in Seq(Ids) /\ Len(t) = Len(w) /\ \A i \in 1..Len(w) : t[i] = rows[w[i]].op
  BY <1>1, OpsAtOf
<1> HIDE DEF t
<1>4. clock' = clock \cup {t[i] : i \in 1..Len(t)}
  BY <1>2, <1>3, MergeKeeps
<1>5. \A i \in 1..Len(w) : rows[w[i]].op \in clock'
  BY <1>3, <1>4
<1>6. ASSUME NEW s \in Replayed PROVE rows[s].op \in clock'
  BY <1>1, <1>5
<1>7. ASSUME NEW r \in Op, live'[r] > 0 PROVE live[r] > 0 \/ r \in clock'
  <2>1. live \in [Op -> Nat] /\ Reduce(live, OpsAt(w))[r] > 0
    BY <1>2, <1>7 DEF UiType
  <2>2. live[r] > 0 \/ \E i \in 1..Len(w) : rows[w[i]].op = r
    BY <1>1, <2>1, ShownByRows
  <2> QED
    BY <1>5, <2>2
<1> QED
  BY <1>4, <1>6, <1>7

\* A row of the device's own is never rejected, hence replayed.
LEMMA OwnRowReplayed ==
  ASSUME LogInv, NEW o \in Local, NEW s \in DOMAIN rows, rows[s].op = o, s > cache.anchor
  PROVE  s \in Replayed
<1>1. o \notin Broken
  BY OpsAssumption, ReducerAssumption
<1> QED
  BY <1>1 DEF Replayed, LogInv

\* The screen and the clock once the tab is started.
LEMMA KnowsShown ==
  ASSUME Imports = {}, Inv, BaseInv, CoveredInv, KnowsInv, Next, stage' \notin {"off", "loaded"}
  PROVE  \A r \in Remote : live'[r] > 0 => r \in clock'
<1>1. LogType /\ LogInv /\ UiType /\ WorkType /\ WorkInv /\ OnceInv /\ OwnInv /\ BatchInv
  BY DEF Inv, BaseInv
<1>2. ~Load /\ ~Crash
  BY DEF Load, Crash, Go
<1>3. clock \subseteq clock'
  BY <1>1, <1>2, ClockStays
<1> SUFFICES ASSUME NEW r \in Remote, live'[r] > 0 PROVE r \in clock'
  OBVIOUS
<1>4. r \in Op
  BY DEF Op
<1>5. CASE Replay
  <2>1. stage = "loaded"
    BY <1>5 DEF Replay, Go
  <2>2. live[r] > 0 \/ r \in clock'
    BY <1>1, <1>4, <1>5, ReplayKnows
  <2>3. live[r] > 0 => r \in clock
    BY <2>1 DEF KnowsInv, CoveredInv
  <2> QED
    BY <1>3, <2>2, <2>3
<1>6. CASE ~Replay
  <2>1. stage \notin {"off", "loaded"}
    BY <1>2, <1>6, BootStep
  <2>2. live[r] > 0 => r \in clock'
    BY <1>3, <2>1 DEF KnowsInv
  <2>3. CASE live' = live
    BY <2>2, <2>3
  <2>4. CASE Dispatch
    <3>1. nextOwn' \in OwnOps /\ live'[r] = IF r = nextOwn' THEN live[r] + 1 ELSE live[r]
      BY <1>1, <1>4, <2>4, DispatchLive
    <3>2. r \notin OwnOps
      BY OpsAssumption DEF Local
    <3> QED
      BY <2>2, <3>1, <3>2
  <2>5. CASE RunReducers
    <3>1. stage = "informed" /\ live' = Reduce(live, OpsAt(work))
      BY <2>5 DEF RunReducers, Go
    <3>2. work \in Seq(Nat) /\ \A i, j \in 1..Len(work) : i < j => work[i] < work[j]
      BY <1>1, <3>1, WorkSeq DEF BatchInv
    <3>3. \A i \in 1..Len(work) : work[i] \in DOMAIN rows
      BY <1>1, <3>1 DEF WorkInv, Pending
    <3>4. live \in [Op -> Nat] /\ Reduce(live, OpsAt(work))[r] > 0
      BY <1>1, <3>1 DEF UiType
    <3>5. live[r] > 0 \/ \E i \in 1..Len(work) : rows[work[i]].op = r
      BY <1>1, <1>4, <3>2, <3>3, <3>4, ShownByRows
    <3>6. \A i \in 1..Len(work) : rows[work[i]].op \in clock
      BY <3>1 DEF KnowsInv
    <3> QED
      BY <1>3, <2>2, <3>5, <3>6
  <2> QED
    BY <1>2, <1>6, <2>3, <2>4, <2>5, LiveStep
<1> QED
  BY <1>5, <1>6

\* The clock knows what the device has written.
LEMMA KnowsOwn ==
  ASSUME Imports = {}, Inv, BaseInv, CoveredInv, KnowsInv, Next, stage' \notin {"off", "loaded"}
  PROVE  DOMAIN logged' \cap Local \subseteq clock'
<1>1. LogType /\ LogInv /\ UiType /\ OnceInv /\ OwnInv
  BY DEF Inv, BaseInv
<1>2. ~Load
  BY DEF Load, Go
<1>3. clock \subseteq clock'
  BY <1>1, <1>2, ClockStays
<1> SUFFICES ASSUME NEW o \in DOMAIN logged' \cap Local PROVE o \in clock'
  OBVIOUS
<1>4. CASE o \notin DOMAIN logged
  <2>1. o \notin Remote
    BY OpsAssumption
  <2>2. Writes(o)
    BY <1>1, <1>4, <2>1, LoggedGrows
  <2> QED
    BY <2>2 DEF Writes
<1>5. CASE o \in DOMAIN logged /\ Replay
  <2>1. stage = "loaded"
    BY <1>5 DEF Replay, Go
  <2>2. cache.clock \subseteq clock
    BY <2>1 DEF CoveredInv
  <2>3. ASSUME NEW s \in DOMAIN rows, rows[s].op = o, s > cache.anchor PROVE o \in clock'
    <3>1. s \in Replayed
      BY <1>1, <2>3, OwnRowReplayed
    <3> QED
      BY <1>1, <1>5, <2>3, <3>1, ReplayKnows
  <2> QED
    BY <1>3, <1>5, <2>2, <2>3 DEF KnowsInv
<1>6. CASE o \in DOMAIN logged /\ ~Replay
  <2>1. stage \notin {"off", "loaded"}
    BY <1>2, <1>6, BootStep
  <2> QED
    BY <1>3, <1>6, <2>1 DEF KnowsInv
<1> QED
  BY <1>4, <1>5, <1>6

\* Only the merge of the clocks leads to the reducers.
LEMMA InformedStep == ASSUME Next, stage' = "informed" PROVE stage = "informed" \/ MergeClocks
<1>1. CASE Start
  BY <1>1 DEF Start, Load, Replay, Settle, EndStart, Begin, Go
<1>2. CASE User
  BY <1>2 DEF User, Dispatch, WriteCaptured, LoseCaptured, WriteElsewhere
<1>3. CASE Buffer
  BY <1>3 DEF Buffer, WriteDeferred, FailDeferred
<1>4. CASE Publish \/ Crash
  BY <1>4 DEF Publish, Crash
<1>5. CASE Fetch
  BY <1>5 DEF Fetch, Sync, Gate, FirstPage, LastPage, Refuse, StoreBatch, Begin, Go
<1>6. CASE Stage
  BY <1>6 DEF Stage, RunReducers, CommitReducers, Throw, Go
<1>7. CASE Effects
  BY <1>7 DEF Effects, RunEffect, FailEffect, EndEffects, Go
<1>8. CASE Finish
  BY <1>8 DEF Finish, MarkApplied, ClearOlder, MarkFailed, EndDrain, Advance, Upload, Go
<1>9. CASE Compact
  BY <1>9 DEF Compact, SaveSnapshot, DeleteOld
<1> QED
  BY <1>1, <1>2, <1>3, <1>4, <1>5, <1>6, <1>7, <1>8, <1>9 DEF Next

\* A batch is known before its reducers run, and what is stored stays.
LEMMA KnowsBatch ==
  ASSUME Imports = {}, Inv, BaseInv, KnowsInv, Next, stage' = "informed"
  PROVE  \A i \in 1..Len(work') : rows'[work'[i]].op \in clock'
<1>1. LogType /\ WorkType /\ WorkInv /\ OwnInv
  BY DEF Inv, BaseInv
<1>2. ~Load /\ ~StoreBatch
  BY DEF Load, StoreBatch, Go
<1>3. stage \in {"stored", "informed"} /\ rows' = rows /\ work' = work
  BY <1>2, StoredStep
<1>4. CASE stage = "informed"
  <2>1. clock \subseteq clock'
    BY <1>1, <1>2, ClockStays
  <2> QED
    BY <1>3, <1>4, <2>1 DEF KnowsInv
<1>5. CASE MergeClocks
  <2> DEFINE t == OpsAt(work)
  <2>1. clock' = Merge(clock, t) /\ stage = "stored"
    BY <1>5 DEF MergeClocks, Go
  <2>2. work \in Seq(Nat) /\ \A i \in 1..Len(work) : work[i] \in DOMAIN rows
    BY <1>1, <2>1, WorkSeq DEF WorkInv, Pending
  <2>3. t \in Seq(Ids) /\ Len(t) = Len(work) /\ \A i \in 1..Len(work) : t[i] = rows[work[i]].op
    BY <1>1, <2>2, OpsAtOf
  <2> HIDE DEF t
  <2>4. clock' = clock \cup {t[i] : i \in 1..Len(t)}
    BY <2>1, <2>3, MergeKeeps
  <2> QED
    BY <1>3, <2>3, <2>4
<1>6. stage = "informed" \/ MergeClocks
  BY InformedStep
<1> QED
  BY <1>4, <1>5, <1>6

\* The snapshot knows what it shows, and the rows behind it the rest.
LEMMA KnowsSnapshot ==
  ASSUME Imports = {}, Inv, BaseInv, KnowsInv, Next
  PROVE  /\ \A r \in Remote : cache'.state[r] > 0 => r \in cache'.clock
         /\ \A o \in DOMAIN logged' \cap Local :
              o \in cache'.clock \/ \E s \in DOMAIN rows' : rows'[s].op = o /\ s > cache'.anchor
<1>1. LogType /\ KnowType /\ OwnInv /\ PendInv
  BY DEF Inv, BaseInv
<1>2. nextSeq \in Nat /\ cache.anchor \in Nat /\ cache.anchor < nextSeq /\ DOMAIN rows \subseteq Nat
  BY <1>1 DEF LogType, KnowType, Snapshot
<1>3. CASE cache' # cache
  <2>1. Snap /\ logged' = logged
    BY <1>1, <1>3, CacheStep
  <2>2. stage \notin {"off", "loaded"}
    BY <1>1, <1>3, CacheStep DEF EndStart, SaveSnapshot, Running, BootStages
  <2>3. cache'.state = live /\ cache'.clock = clock
    BY <2>1 DEF Snap
  <2> QED
    BY <2>1, <2>2, <2>3 DEF KnowsInv
<1>4. CASE cache' = cache
  <2>1. \A s \in DOMAIN rows : s > cache.anchor => s \in DOMAIN rows' /\ rows'[s].op = rows[s].op
    <3>1. \A s \in DOMAIN rows : ~(ClearOlder /\ s \in Older)
      BY DEF Older
    <3>2. \A s \in DOMAIN rows : s > cache.anchor => ~(s <= cache.anchor)
      BY <1>2
    <3> QED
      BY <1>1, <3>1, <3>2, RowStep
  <2>2. ASSUME NEW o \in DOMAIN logged' \cap Local, o \notin DOMAIN logged
        PROVE  \E s \in DOMAIN rows' : rows'[s].op = o /\ s > cache.anchor
    <3>1. o \notin Remote
      BY OpsAssumption
    <3>2. Writes(o)
      BY <1>1, <2>2, <3>1, LoggedGrows
    <3> QED
      BY <1>2, <3>2 DEF Writes
  <2> QED
    BY <1>4, <2>1, <2>2 DEF KnowsInv
<1> QED
  BY <1>3, <1>4

\* A start begins with the snapshot.
LEMMA KnowsLoaded ==
  ASSUME Inv, BaseInv, KnowsInv, Next, stage' = "loaded"
  PROVE  live' = cache'.state
<1>1. PendInv
  BY DEF BaseInv
<1>2. CASE Load
  BY <1>2 DEF Load
<1>3. CASE ~Load
  <2>1. stage = "loaded"
    BY <1>3, BootStep
  <2>2. cache' = cache
    BY <1>1, <2>1, CacheStep DEF EndStart, SaveSnapshot, Running, BootStages
  <2>3. live' = live
    BY <1>3, <2>1, LiveStep DEF Dispatch, Running, BootStages, Replay, RunReducers, Crash, Go
  <2> QED
    BY <2>1, <2>2, <2>3 DEF KnowsInv
<1> QED
  BY <1>2, <1>3

\* So the invariant is inductive.
LEMMA KnowsStep ==
  ASSUME Imports = {}, Inv, BaseInv, CoveredInv, KnowsInv, [Next]_vars
  PROVE  KnowsInv'
<1>1. CASE Next
  <2>1. stage' \notin {"off", "loaded"} => /\ \A r \in Remote : live'[r] > 0 => r \in clock'
                                           /\ DOMAIN logged' \cap Local \subseteq clock'
    BY <1>1, KnowsShown, KnowsOwn
  <2>2. stage' = "informed" => \A i \in 1..Len(work') : rows'[work'[i]].op \in clock'
    BY <1>1, KnowsBatch
  <2>3. stage' = "loaded" => live' = cache'.state
    BY <1>1, KnowsLoaded
  <2> QED
    BY <1>1, <2>1, <2>2, <2>3, KnowsSnapshot DEF KnowsInv
<1>2. CASE UNCHANGED vars
  <2>1. UNCHANGED <<rows, cache, clock, live, stage, work, logged>>
    BY <1>2 DEF vars, disk, ui, apply
  <2> QED
    BY <2>1 DEF KnowsInv
<1> QED
  BY <1>1, <1>2

\* Who writes an operation of the device.
LEMMA WrittenBy ==
  ASSUME Inv, BaseInv, Next, NEW o \in (DOMAIN logged' \ DOMAIN logged) \cap Local
  PROVE  WriteCaptured \/ WriteDeferred \/ (o \in TabOps /\ WriteElsewhere(o))
<1>1. LogType /\ LogInv /\ UiType /\ OwnInv /\ o \notin Remote
  BY OpsAssumption DEF Inv, BaseInv
<1>2. Writes(o) /\ (o \in TabOps => WriteElsewhere(o))
  BY <1>1, LoggedGrows
<1>3. logged' # logged
  OBVIOUS
<1>4. \A S : Deletes(S) => logged' = logged
  BY DEF Deletes
<1>5. ~StoreBatch
  <2> SUFFICES ASSUME StoreBatch PROVE FALSE
    OBVIOUS
  <2>1. clock' = clock /\ o \in clock'
    BY <1>2 DEF StoreBatch, Writes
  <2> QED
    BY <2>1 DEF BaseInv, LearnInv
<1>6. ASSUME NEW p \in TabOps \ DOMAIN logged, Writes(p) PROVE p = o
  BY <1>6 DEF Writes
<1>7. ~DeleteOld
  <2>1. DeleteOld => logged' = logged
    BY DEF DeleteOld
  <2> QED
    BY <1>3, <2>1
<1>8. ~KeepsRows /\ ~Deletes(Older)
  BY <1>3, <1>4 DEF KeepsRows
<1>9. \/ WriteCaptured \/ WriteDeferred
      \/ \E p \in TabOps \ DOMAIN logged : Writes(p) /\ WriteElsewhere(p)
  BY <1>1, <1>5, <1>7, <1>8, LogStep
<1>10. CASE \E p \in TabOps \ DOMAIN logged : Writes(p) /\ WriteElsewhere(p)
  BY <1>6, <1>10
<1> QED
  BY <1>9, <1>10

\* The invariant of the devices that meet no full-state operation.
LEMMA KnowsHolds == ASSUME Imports = {} PROVE Spec => [](Inv /\ BaseInv /\ CoveredInv /\ KnowsInv)
<1>1. Init => BaseInv /\ CoveredInv /\ KnowsInv
  <2> SUFFICES ASSUME Init PROVE BaseInv /\ CoveredInv /\ KnowsInv
    OBVIOUS
  <2>1. /\ DOMAIN rows = {} /\ DOMAIN logged = {} /\ stage = "off" /\ cache.state = [o \in Op |-> 0]
    BY DEF Init, Empty
  <2>2. \A r \in Remote : ~(cache.state[r] > 0)
    BY <2>1 DEF Op
  <2>3. KnowsInv
    BY <2>1, <2>2 DEF KnowsInv
  <2>4. CoveredInv
    BY <2>1 DEF CoveredInv, Downloaded
  <2> QED
    BY <2>3, <2>4, InitBase
<1>2. Inv /\ BaseInv /\ [Next]_vars => BaseInv'
  BY BaseStep
<1>3. Inv /\ BaseInv /\ CoveredInv /\ [Next]_vars => CoveredInv'
  <2>1. CASE UNCHANGED vars
    <3>1. UNCHANGED <<rows, cache, clock, stage, logged>>
      BY <2>1 DEF vars, disk
    <3>2. Pending' = Pending /\ Downloaded' = Downloaded
      BY <3>1 DEF Pending, Downloaded
    <3> QED
      BY <3>1, <3>2 DEF CoveredInv
  <2> QED
    BY <2>1, CoveredStep
<1>4. Inv /\ BaseInv /\ CoveredInv /\ KnowsInv /\ [Next]_vars => KnowsInv'
  BY KnowsStep
<1> QED
  BY <1>1, <1>2, <1>3, <1>4, InvHolds, PTL DEF Spec

\* A new operation of the user knows every remote operation on his screen, so that no other
\* device takes the two for concurrent edits (mergeRemoteOpClocks before the reducers).
THEOREM RemoteWritesKnow == Imports = {} => (Spec => WritesKnowRemote)
<1> SUFFICES ASSUME Imports = {} PROVE Spec => WritesKnowRemote
  OBVIOUS
<1>1. Inv /\ BaseInv /\ CoveredInv /\ KnowsInv /\ [Next]_vars =>
        [\A o \in (DOMAIN logged' \ DOMAIN logged) \cap OwnOps : {r \in Remote : live[r] > 0} \subseteq clock']_vars
  <2> SUFFICES ASSUME Inv, BaseInv, CoveredInv, KnowsInv, Next,
                      NEW o \in (DOMAIN logged' \ DOMAIN logged) \cap OwnOps,
                      NEW r \in Remote, live[r] > 0
               PROVE  r \in clock'
    OBVIOUS
  <2>1. o \in Local /\ o \notin Remote /\ o \notin TabOps
    BY OpsAssumption DEF Local
  <2>2. WriteCaptured \/ WriteDeferred
    BY <2>1, WrittenBy
  <2>3. stage \notin {"off", "loaded"}
    BY <2>2 DEF WriteCaptured, WriteDeferred, Running, BootStages
  <2>4. clock \subseteq clock'
    BY <2>2 DEF WriteCaptured, WriteDeferred, WriteLocal
  <2> QED
    BY <2>3, <2>4 DEF KnowsInv
<1> QED
  BY <1>1, KnowsHolds, PTL DEF Spec, WritesKnowRemote

\* A new operation's counter is above every counter this device has used, in either tab and
\* before any crash (#8939): no two of its operations have the same clock.
THEOREM RemoteCountersFresh == Imports = {} => (Spec => CountersAreFresh)
<1> SUFFICES ASSUME Imports = {} PROVE Spec => CountersAreFresh
  OBVIOUS
<1>1. Inv /\ BaseInv /\ CoveredInv /\ KnowsInv /\ [Next]_vars =>
        [\A o \in (DOMAIN logged' \ DOMAIN logged) \cap Local : DOMAIN logged \cap Local \subseteq clock']_vars
  <2> SUFFICES ASSUME Inv, BaseInv, CoveredInv, KnowsInv, Next,
                      NEW o \in (DOMAIN logged' \ DOMAIN logged) \cap Local
               PROVE  DOMAIN logged \cap Local \subseteq clock'
    OBVIOUS
  <2>1. WriteCaptured \/ WriteDeferred \/ WriteElsewhere(o)
    BY WrittenBy
  <2>2. stage \notin {"off", "loaded"}
    BY <2>1 DEF WriteCaptured, WriteDeferred, WriteElsewhere, Running, BootStages
  <2>3. clock \subseteq clock'
    BY <2>1 DEF WriteCaptured, WriteDeferred, WriteElsewhere, WriteLocal
  <2> QED
    BY <2>2, <2>3 DEF KnowsInv
<1> QED
  BY <1>1, KnowsHolds, PTL DEF Spec, CountersAreFresh
=============================================================================
