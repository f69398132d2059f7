-------------------------- MODULE RemoteApplyProofs --------------------------
(***************************************************************************)
(* Theorems about one device's staged apply, for every feed, every set of  *)
(* operations and any number of faults.                                    *)
(***************************************************************************)
EXTENDS RemoteApply, SelectionProofs

-----------------------------------------------------------------------------
(* What the helpers return *)

\* A set of numbers up to n that is not empty has a greatest element.
LEMMA Greatest ==
  ASSUME NEW n \in Nat, NEW S \in SUBSET (0..n), S # {}
  PROVE  \E m \in S : \A j \in S : j <= m
<1> DEFINE B == {k \in Nat : \A j \in S : j <= k}
<1>1. n \in B
  OBVIOUS
<1>2. PICK m \in B : \A k \in B : ~(k < m)
  <2>1. PICK m \in B : \A k \in B : <<k, m>> \notin OpToRel(<, Nat)
    BY <1>1, WFMin, NatLessThanWellFounded, Zenon
  <2> QED
    BY <2>1, Zenon DEF OpToRel
<1>3. CASE m = 0
  <2>1. \A j \in S : j <= m
    BY <1>2
  <2>2. PICK j \in S : TRUE
    OBVIOUS
  <2>3. j = m
    BY <1>3, <2>1, <2>2
  <2> QED
    BY <2>1, <2>3
<1>4. CASE m # 0
  <2>1. m - 1 \in Nat /\ m - 1 < m
    BY <1>4
  <2>2. m - 1 \notin B
    BY <1>2, <2>1
  <2>3. PICK j \in S : ~(j <= m - 1)
    BY <2>1, <2>2
  <2>4. j = m
    BY <2>1, <2>3
  <2> QED
    BY <2>3, <2>4
<1> QED
  BY <1>3, <1>4

LEMMA LastImportOf ==
  ASSUME NEW X, NEW s \in Seq(X)
  PROVE  /\ LastImport(s) \in 0..Len(s)
         /\ \A i \in 1..Len(s) : s[i] \in Imports => i <= LastImport(s)
         /\ LastImport(s) # 0 => s[LastImport(s)] \in Imports
<1> DEFINE at == {i \in DOMAIN s : s[i] \in Imports}
<1>1. DOMAIN s = 1..Len(s) /\ Len(s) \in Nat
  OBVIOUS
<1>2. CASE at = {}
  <2>1. LastImport(s) = 0
    BY <1>2 DEF LastImport
  <2> QED
    BY <1>1, <1>2, <2>1
<1>3. CASE at # {}
  <2>1. at \in SUBSET (0..Len(s))
    BY <1>1
  <2>2. \E m \in at : \A j \in at : j <= m
    <3> HIDE DEF at
    <3> QED
      BY <1>1, <1>3, <2>1, Greatest
  <2>3. LastImport(s) = CHOOSE i \in at : \A j \in at : j <= i
    BY <1>3 DEF LastImport
  <2>4. LastImport(s) \in at /\ \A j \in at : j <= LastImport(s)
    <3> HIDE DEF at
    <3> QED
      BY <2>2, <2>3
  <2> QED
    BY <1>1, <2>4
<1> QED
  BY <1>2, <1>3

LEMMA ReduceType ==
  ASSUME NEW st \in [Op -> Nat], NEW X, NEW s \in Seq(X)
  PROVE  Reduce(st, s) \in [Op -> Nat]
<1> DEFINE C(o) == {i \in DOMAIN s : s[i] = o /\ i >= LastImport(s)}
           N(o) == Cardinality(C(o))
           R(o) == IF o \in Broken THEN 0 ELSE N(o)
<1>1. ASSUME NEW o PROVE N(o) \in Nat
  <2>1. C(o) \subseteq 1..Len(s) /\ Len(s) \in Nat
    OBVIOUS
  <2>2. IsFiniteSet(1..Len(s))
    BY <2>1, FS_Interval
  <2>3. IsFiniteSet(C(o))
    <3> HIDE DEF C
    <3> QED
      BY <2>1, <2>2, FS_Subset
  <2> QED
    BY <2>3, FS_CardinalityType
<1>2. Reduce(st, s) = IF LastImport(s) = 0 THEN [o \in Op |-> st[o] + R(o)] ELSE [o \in Op |-> R(o)]
  BY Zenon DEF Reduce
<1> HIDE DEF N
<1>3. \A o \in Op : R(o) \in Nat
  BY <1>1
<1> HIDE DEF R
<1> QED
  BY <1>2, <1>3

LEMMA MergeOf ==
  ASSUME NEW c \in SUBSET Op, NEW s \in Seq(Op)
  PROVE  /\ \A o \in Merge(c, s) : o \in c \/ \E i \in 1..Len(s) : s[i] = o
         /\ Merge(c, s) \subseteq Op
<1>1. LastImport(s) \in 0..Len(s)
  BY LastImportOf
<1>2. \A i \in DOMAIN FromImport(s) : \E j \in 1..Len(s) : FromImport(s)[i] = s[j]
  <2>1. CASE LastImport(s) = 0
    BY <2>1 DEF FromImport
  <2>2. CASE LastImport(s) # 0
    <3>1. ASSUME NEW i \in DOMAIN FromImport(s)
          PROVE  /\ LastImport(s) + i - 1 \in 1..Len(s)
                 /\ FromImport(s)[i] = s[LastImport(s) + i - 1]
      BY <1>1, <2>2 DEF FromImport
    <3> QED
      BY <3>1
  <2> QED
    BY <2>1, <2>2
<1>3. \A i \in 1..LastImport(s) : i \in 1..Len(s)
  BY <1>1
<1>4. \A o \in Merge(c, s) : o \in c \/ \E i \in 1..Len(s) : s[i] = o
  BY <1>2, <1>3 DEF Merge
<1> QED
  BY <1>4

\* Feed names no operation twice.
LEMMA FeedOf ==
  ASSUME NEW m \in Nat \ {0}, NEW n \in 0..Len(Feed)
  PROVE  /\ SubSeq(Feed, m, n) \in Seq(Remote)
         /\ m <= n + 1 => Len(SubSeq(Feed, m, n)) = n + 1 - m
         /\ \A i, j \in 1..Len(SubSeq(Feed, m, n)) :
              SubSeq(Feed, m, n)[i] = SubSeq(Feed, m, n)[j] => i = j
         /\ \A i \in 1..Len(SubSeq(Feed, m, n)) :
              m + i - 1 \in m..n /\ SubSeq(Feed, m, n)[i] = Feed[m + i - 1]
<1>1. /\ Feed \in Seq(Nat) /\ DOMAIN Feed = 1..Len(Feed) /\ Len(Feed) \in Nat
      /\ \A i, j \in DOMAIN Feed : Feed[i] = Feed[j] => i = j
  BY OpsAssumption
<1>2. \A i \in m..n : i \in DOMAIN Feed /\ Feed[i] \in Remote
  BY <1>1 DEF Remote
<1>3. CASE m > n
  BY <1>1, <1>3
<1>4. CASE m <= n
  <2>1. SubSeq(Feed, m, n) = [i \in 1..(n - m + 1) |-> Feed[m + i - 1]]
    BY <1>1, <1>4
  <2>2. \A i \in 1..(n - m + 1) : m + i - 1 \in m..n
    BY <1>4
  <2>3. SubSeq(Feed, m, n) \in Seq(Remote) /\ Len(SubSeq(Feed, m, n)) = n - m + 1
    BY <1>2, <1>4, <2>1, <2>2
  <2>4. \A i \in 1..(n - m + 1) : SubSeq(Feed, m, n)[i] = Feed[m + i - 1]
    BY <2>1
  <2>5. ASSUME NEW i \in 1..(n - m + 1), NEW j \in 1..(n - m + 1),
               SubSeq(Feed, m, n)[i] = SubSeq(Feed, m, n)[j]
        PROVE  i = j
    <3>1. Feed[m + i - 1] = Feed[m + j - 1]
      BY <2>4, <2>5
    <3>2. m + i - 1 = m + j - 1
      BY <1>1, <1>2, <2>2, <3>1
    <3> QED
      BY <3>2
  <2>6. m <= n + 1 => n - m + 1 = n + 1 - m
    BY <1>4
  <2> QED
    BY <2>2, <2>3, <2>4, <2>5, <2>6
<1>5. m > n \/ m <= n
  BY <1>1
<1> QED
  BY <1>3, <1>4, <1>5, Zenon

LEMMA AdmittedOf ==
  ASSUME NEW m \in Nat \ {0}, NEW n \in 0..Len(Feed)
  PROVE  LET s == SubSeq(Feed, m, n)
             a == Admitted(s)
         IN /\ a \in Seq(Remote) /\ Len(a) <= Len(s)
            /\ \A k \in 1..Len(a) : \E i \in 1..Len(s) : s[i] = a[k]
            /\ \A i \in 1..Len(s) :
                 s[i] \in Imports \/ i >= LastImport(s) => \E k \in 1..Len(a) : a[k] = s[i]
            /\ \A k, l \in 1..Len(a) : a[k] = a[l] => k = l
<1> DEFINE s == SubSeq(Feed, m, n)
           T == {s[i] : i \in {j \in DOMAIN s : s[j] \in Imports \/ j >= LastImport(s)}}
<1>1. s \in Seq(Remote) /\ \A i, j \in 1..Len(s) : s[i] = s[j] => i = j
  BY FeedOf
<1>2. DOMAIN s = 1..Len(s)
  BY <1>1
<1>3. \A i \in 1..Len(s) : s[i] \in Imports \/ i >= LastImport(s) => s[i] \in T
  BY <1>2
<1>4. Admitted(s) = Kept(s, T)
  BY DEF Admitted
<1> HIDE DEF s, T
<1>5. KeepsOf(Kept(s, T), s, Remote, T, Len(s))
  BY <1>1, KeptOf
<1>6. /\ Admitted(s) \in Seq(Remote) /\ Len(Admitted(s)) <= Len(s)
      /\ \A k \in 1..Len(Admitted(s)) : \E i \in 1..Len(s) : s[i] = Admitted(s)[k]
      /\ \A i \in 1..Len(s) :
           s[i] \in Imports \/ i >= LastImport(s)
             => \E k \in 1..Len(Admitted(s)) : Admitted(s)[k] = s[i]
      /\ \A k, l \in 1..Len(Admitted(s)) : Admitted(s)[k] = Admitted(s)[l] => k = l
  BY <1>1, <1>3, <1>4, <1>5 DEF KeepsOf
<1> QED
  BY <1>6 DEF s

\* News and what is applied of it: operations of the feed that the log does not have.
Fresh(s) ==
  /\ s \in Seq(Remote)
  /\ \A i \in 1..Len(s) : s[i] \notin Ids
  /\ \A i, j \in 1..Len(s) : s[i] = s[j] => i = j

LEMMA NewsOf ==
  ASSUME first \in Nat \ {0}, NEW n \in 0..Len(Feed)
  PROVE  /\ Fresh(News(n))
         /\ \A i \in first..n :
              \/ Feed[i] \in Ids
              \/ \E k \in 1..Len(News(n)) : News(n)[k] = Feed[i]
              \/ Feed[i] \notin Imports /\ \E j \in (i + 1)..n : Feed[j] \in Imports
         /\ \A k \in 1..Len(News(n)) : \E i \in first..n : News(n)[k] = Feed[i]
<1> DEFINE s == SubSeq(Feed, first, n)
           a == Admitted(s)
           T == Op \ Ids
<1>1. /\ s \in Seq(Remote) /\ (first <= n + 1 => Len(s) = n + 1 - first)
      /\ \A i \in 1..Len(s) : first + i - 1 \in first..n /\ s[i] = Feed[first + i - 1]
  BY FeedOf
<1>2. /\ a \in Seq(Remote) /\ Len(a) <= Len(s)
      /\ \A k \in 1..Len(a) : \E i \in 1..Len(s) : s[i] = a[k]
      /\ \A i \in 1..Len(s) :
           s[i] \in Imports \/ i >= LastImport(s) => \E k \in 1..Len(a) : a[k] = s[i]
      /\ \A k, l \in 1..Len(a) : a[k] = a[l] => k = l
  BY AdmittedOf
<1>3. News(n) = Kept(a, T)
  BY DEF News
<1>4. /\ LastImport(s) \in 0..Len(s)
      /\ \A i \in 1..Len(s) : s[i] \in Imports => i <= LastImport(s)
      /\ LastImport(s) # 0 => s[LastImport(s)] \in Imports
  BY <1>1, LastImportOf
<1> HIDE DEF s, a
<1>5. KeepsOf(News(n), a, Remote, T, Len(a))
  BY <1>2, <1>3, KeptOf
<1>6. Fresh(News(n))
  BY <1>2, <1>5 DEF KeepsOf, Fresh
<1>7. ASSUME NEW i \in first..n
      PROVE  \/ Feed[i] \in Ids
             \/ \E k \in 1..Len(News(n)) : News(n)[k] = Feed[i]
             \/ Feed[i] \notin Imports /\ \E j \in (i + 1)..n : Feed[j] \in Imports
  <2> DEFINE p == i + 1 - first
  <2>1. Len(Feed) \in Nat
    BY OpsAssumption
  <2>2. p \in 1..Len(s) /\ s[p] = Feed[i] /\ Len(s) = n + 1 - first /\ s[p] \in Remote
    <3>1. n \in Nat /\ i \in Nat /\ first <= i /\ i <= n
      BY <2>1
    <3>2. Len(s) = n + 1 - first
      BY <1>1, <3>1
    <3>3. p \in 1..Len(s) /\ first + p - 1 = i
      BY <3>1, <3>2
    <3> HIDE DEF p
    <3>4. s[p] = Feed[first + p - 1] /\ s[p] \in Remote
      BY <1>1, <3>3
    <3> QED
      BY <3>2, <3>3, <3>4
  <2> HIDE DEF p
  <2>3. CASE s[p] \in Imports \/ p >= LastImport(s)
    <3>1. PICK q \in 1..Len(a) : a[q] = s[p]
      BY <1>2, <2>2, <2>3
    <3>2. a[q] \in T => \E k \in 1..Len(News(n)) : News(n)[k] = a[q]
      BY <1>5, <3>1 DEF KeepsOf
    <3>3. a[q] \in Op
      BY <2>2, <3>1 DEF Op
    <3> QED
      BY <2>2, <3>1, <3>2, <3>3
  <2>4. CASE s[p] \notin Imports /\ ~(p >= LastImport(s))
    <3> DEFINE j == first + LastImport(s) - 1
    <3>1. LastImport(s) \in 1..Len(s) /\ s[LastImport(s)] \in Imports
      BY <1>4, <2>2, <2>4
    <3>2. j \in (i + 1)..n
      BY <1>4, <2>1, <2>2, <2>4 DEF p
    <3>3. Feed[j] \in Imports
      BY <1>1, <3>1
    <3> QED
      BY <2>2, <2>4, <3>2, <3>3
  <2> QED
    BY <2>3, <2>4
<1>8. ASSUME NEW k \in 1..Len(News(n)) PROVE \E i \in first..n : News(n)[k] = Feed[i]
  <2>1. PICK q \in 1..Len(a) : a[q] = News(n)[k]
    BY <1>5 DEF KeepsOf
  <2>2. PICK i \in 1..Len(s) : s[i] = a[q]
    BY <1>2
  <2> QED
    BY <1>1, <2>1, <2>2
<1> QED
  BY <1>6, <1>7, <1>8

LEMMA ApplicableOf ==
  ASSUME first \in Nat \ {0}, target \in 0..Len(Feed)
  PROVE  /\ Fresh(Applicable)
         /\ \A k \in 1..Len(News(target)) :
              \/ \E i \in 1..Len(Applicable) : Applicable[i] = News(target)[k]
              \/ News(target)[k] \in cache.clock /\ LastImport(News(target)) = 0
         /\ \A i \in 1..Len(Applicable) : \E k \in 1..Len(News(target)) : News(target)[k] = Applicable[i]
<1>1. Fresh(News(target))
  BY NewsOf
<1>2. CASE LastImport(News(target)) # 0
  BY <1>1, <1>2 DEF Applicable
<1>3. CASE LastImport(News(target)) = 0
  <2>1. Applicable = Kept(News(target), Op \ cache.clock)
    BY <1>3 DEF Applicable
  <2>2. News(target) \in Seq(Remote)
    BY <1>1 DEF Fresh
  <2>3. KeepsOf(Applicable, News(target), Remote, Op \ cache.clock, Len(News(target)))
    BY <2>1, <2>2, KeptOf
  <2>4. Fresh(Applicable)
    BY <1>1, <2>3 DEF KeepsOf, Fresh
  <2>5. \A k \in 1..Len(News(target)) : News(target)[k] \in Op
    BY <2>2 DEF Op
  <2> QED
    BY <1>3, <2>3, <2>4, <2>5 DEF KeepsOf
<1> QED
  BY <1>2, <1>3

\* The sequence numbers in S, in order.
LEMMA InOrderOf ==
  ASSUME nextSeq \in Nat \ {0}, NEW S \in SUBSET (1..(nextSeq - 1))
  PROVE  /\ InOrder(S) \in Seq(1..(nextSeq - 1))
         /\ \A i \in 1..Len(InOrder(S)) : InOrder(S)[i] \in S
         /\ \A x \in S : \E i \in 1..Len(InOrder(S)) : InOrder(S)[i] = x
         /\ \A i, j \in 1..Len(InOrder(S)) : InOrder(S)[i] = InOrder(S)[j] => i = j
<1> DEFINE s == [i \in 1..nextSeq |-> i]
<1>1. s \in Seq(Nat) /\ Len(s) = nextSeq /\ \A i \in 1..nextSeq : s[i] = i
  OBVIOUS
<1>2. InOrder(S) = Kept(s, S)
  BY DEF InOrder
<1> HIDE DEF s
<1>3. KeepsOf(InOrder(S), s, Nat, S, Len(s))
  BY <1>1, <1>2, KeptOf
<1>4. \A i \in 1..Len(InOrder(S)) : InOrder(S)[i] \in S
  BY <1>3 DEF KeepsOf
<1>5. InOrder(S) \in Seq(1..(nextSeq - 1))
  <2>1. InOrder(S) \in Seq(Nat)
    BY <1>3 DEF KeepsOf
  <2> QED
    BY <1>4, <2>1
<1>6. \A x \in S : \E i \in 1..Len(InOrder(S)) : InOrder(S)[i] = x
  <2>1. \A i \in 1..Len(s) : s[i] \in S => \E k \in 1..Len(InOrder(S)) : InOrder(S)[k] = s[i]
    BY <1>3 DEF KeepsOf
  <2>2. \A x \in S : x \in 1..Len(s) /\ s[x] = x
    BY <1>1
  <2> QED
    BY <2>1, <2>2
<1>7. \A i, j \in 1..Len(InOrder(S)) : InOrder(S)[i] = InOrder(S)[j] => i = j
  <2>1. \A i, j \in 1..Len(s) : s[i] = s[j] => i = j
    BY <1>1
  <2> QED
    BY <1>3, <2>1 DEF KeepsOf
<1> QED
  BY <1>4, <1>5, <1>6, <1>7

-----------------------------------------------------------------------------
(***************************************************************************)
(* The invariant.  TypeOK by parts; what each row of the log, each stage   *)
(* and the batch under way have to do with the archive work that is done.  *)
(***************************************************************************)

LogType ==
  /\ nextSeq \in Nat \ {0} /\ DOMAIN rows \subseteq 1..(nextSeq - 1)
  /\ rows \in [DOMAIN rows -> Row]
  /\ DOMAIN logged \subseteq Op /\ logged \in [DOMAIN logged -> 1..(nextSeq - 1)]

KnowType ==
  /\ cache \in Snapshot /\ cache.anchor < nextSeq
  /\ clock \subseteq Op /\ archived \subseteq Remote
  /\ frontier \in 0..(nextSeq - 1) /\ foreign \in BOOLEAN

FeedType ==
  /\ served \in 0..Len(Feed) /\ cursor \in 0..served
  /\ first \in 1..(Len(Feed) + 1) /\ target \in 0..served

UiType ==
  /\ live \in [Op -> Nat]
  /\ captured \in Seq(OwnOps) /\ deferred \in Seq(OwnOps) /\ lost \in BOOLEAN
  /\ nextOwn \in Nat /\ faults \in 0..MaxFaults

WorkType ==
  /\ stage \in Stages /\ mode \in {"start", "gate", "download"}
  /\ work \in Seq(1..(nextSeq - 1)) /\ done \in 0..Len(work) /\ failed \in BOOLEAN
  /\ compacting \in BOOLEAN

\* Rows of remote operations are rejected only for their reducer, and done only with
\* their archive work; an operation has one row.
LogInv ==
  /\ \A s \in DOMAIN rows :
       /\ rows[s].op \in DOMAIN logged
       /\ rows[s].op \in Remote <=> rows[s].status # "local"
       /\ rows[s].rejected => rows[s].op \in Broken
       /\ rows[s].status = "applied" => rows[s].op \in archived
  /\ \A s, t \in DOMAIN rows : rows[s].op \in Remote /\ rows[s].op = rows[t].op => s = t

\* The stages each kind of apply goes through; a compaction does not meet a download's.
StageInv ==
  /\ stage \in BootStages => mode = "start"
  /\ stage \notin BootStages \cup ApplyStages \/ stage \in {"stored", "informed", "reduced"}
       => mode = "download"
  /\ compacting => Running /\ ~(mode = "download" /\ stage \in ApplyStages)

\* The rows being applied.
WorkInv ==
  /\ stage \in {"off", "loaded"} => done = 0
  /\ stage \in {"stored", "informed", "reduced"} =>
       /\ done = 0 /\ ~failed
       /\ \A i \in 1..Len(work) : work[i] \in Pending
  /\ stage \in {"effects", "mark"} =>
       /\ \A i \in 1..Len(work) : work[i] \in Unfinished
       /\ \A i \in 1..done : rows[work[i]].op \in archived
  /\ stage \in {"clear", "quarantine"} =>
       \A i \in 1..Len(work) : work[i] \in DOMAIN rows => rows[work[i]].op \in Remote
  /\ stage \in {"effects", "mark", "clear", "quarantine"} /\ failed => done < Len(work)

\* What the gate has made sure of: a download has no unfinished rows but its own.
GateInv ==
  /\ mode = "gate" => Pending = {}
  /\ stage \in {"fetched", "paging", "flushed"} => Pending = {} /\ Unfinished = {}
  /\ mode = "download" /\ stage \in ApplyStages \ {"drain"} =>
       \A s \in Pending \cup Unfinished : \E i \in 1..Len(work) : work[i] = s

Complete(i) == Feed[i] \in Broken \/ Feed[i] \in archived \/ Buried(i)

PassedInv == \A i \in 1..cursor : Complete(i)

\* A page skips only what a full-state operation replaced.
FirstInv ==
  /\ stage = "paging" =>
       first = cursor + 1 \/ (first \in (cursor + 1)..served /\ Feed[first] \in Imports)
  /\ stage = "flushed" =>
       first = cursor + 1 \/ (first \in (cursor + 1)..target /\ Feed[first] \in Imports)

\* Up to the target all is complete, or in what is left of the batch, until something fails.
TargetInv ==
  /\ stage = "advance" => \A i \in 1..target : Complete(i)
  /\ mode = "download" /\ stage \in {"stored", "informed", "reduced", "effects"} /\ ~failed =>
       \A i \in 1..target :
         Complete(i) \/ \E k \in (done + 1)..Len(work) : rows[work[k]].op = Feed[i]
  /\ mode = "download" /\ stage \in {"mark", "clear", "quarantine", "drain"} /\ ~failed =>
       \A i \in 1..target : Complete(i)

\* What a clock covers is complete or still in the log.
KnownInv ==
  \A i \in DOMAIN Feed : Feed[i] \in clock \cup cache.clock => Feed[i] \in Ids \/ Complete(i)

Inv ==
  /\ LogType /\ KnowType /\ FeedType /\ UiType /\ WorkType
  /\ LogInv /\ StageInv /\ WorkInv /\ GateInv
  /\ PassedInv /\ FirstInv /\ TargetInv /\ KnownInv

LEMMA InvTypeOK == Inv => TypeOK
BY DEF Inv, LogType, KnowType, FeedType, UiType, WorkType, TypeOK

LEMMA InitInv == Init => Inv
<1> SUFFICES ASSUME Init PROVE Inv
  OBVIOUS
<1>1. Anchored \in Nat /\ MaxFaults \in Nat /\ Feed \in Seq(Nat) /\ Len(Feed) \in Nat
  BY BoundAssumption, OpsAssumption
<1>2. /\ DOMAIN rows = {} /\ DOMAIN logged = {}
      /\ rows \in [DOMAIN rows -> Row] /\ logged \in [DOMAIN logged -> 1..(nextSeq - 1)]
  BY DEF Init
<1>3. Empty \in [Op -> Nat]
  BY DEF Empty
<1>4. LogType
  <2>1. nextSeq \in Nat \ {0}
    BY <1>1 DEF Init
  <2> QED
    BY <1>2, <2>1 DEF LogType
<1>5. KnowType /\ UiType
  <2>1. cache \in Snapshot /\ cache.anchor < nextSeq
    BY <1>1, <1>3 DEF Init, Snapshot
  <2>2. frontier \in 0..(nextSeq - 1)
    BY <1>1 DEF Init
  <2>3. clock \subseteq Op /\ archived \subseteq Remote /\ foreign \in BOOLEAN /\ lost \in BOOLEAN
    BY DEF Init
  <2>4. live \in [Op -> Nat] /\ nextOwn \in Nat /\ faults \in 0..MaxFaults
    BY <1>1, <1>3 DEF Init
  <2>5. captured \in Seq(OwnOps) /\ deferred \in Seq(OwnOps)
    BY DEF Init
  <2> QED
    BY <2>1, <2>2, <2>3, <2>4, <2>5 DEF KnowType, UiType
<1>6. FeedType /\ WorkType
  <2>1. served = 0 /\ cursor = 0 /\ first = 1 /\ target = 0
    BY DEF Init
  <2>2. stage = "off" /\ mode = "start" /\ work = <<>> /\ done = 0 /\ ~failed /\ ~compacting
    BY DEF Init
  <2>3. failed \in BOOLEAN /\ compacting \in BOOLEAN
    BY DEF Init
  <2>4. work \in Seq(1..(nextSeq - 1)) /\ done \in 0..Len(work)
    BY <2>2
  <2> QED
    BY <1>1, <2>1, <2>2, <2>3, <2>4 DEF FeedType, WorkType, Stages, BootStages
<1>7. LogInv /\ StageInv
  BY <1>2 DEF Init, LogInv, StageInv, BootStages, ApplyStages
<1>8. WorkInv /\ GateInv
  BY DEF Init, WorkInv, GateInv
<1>9. PassedInv /\ FirstInv /\ TargetInv /\ KnownInv
  BY DEF Init, PassedInv, FirstInv, TargetInv, KnownInv
<1> QED
  BY <1>4, <1>5, <1>6, <1>7, <1>8, <1>9 DEF Inv

\* Rows that are written.
LEMMA StoredOf ==
  ASSUME LogType, NEW s \in Seq(Op), NEW st \in Statuses, NEW sy \in BOOLEAN, Stored(s, st, sy)
  PROVE  /\ LogType' /\ nextSeq' = nextSeq + Len(s)
         /\ DOMAIN rows' = DOMAIN rows \cup nextSeq..(nextSeq + Len(s) - 1)
         /\ \A n \in DOMAIN rows : rows'[n] = rows[n]
         /\ \A i \in 1..Len(s) :
              rows'[nextSeq + i - 1] = [op |-> s[i], status |-> st, synced |-> sy, rejected |-> FALSE]
         /\ DOMAIN logged' = DOMAIN logged \cup {s[i] : i \in 1..Len(s)}
<1> DEFINE new == nextSeq..(nextSeq + Len(s) - 1)
           at(n) == s[n - nextSeq + 1]
           new_row(n) == [op |-> at(n), status |-> st, synced |-> sy, rejected |-> FALSE]
<1>1. /\ nextSeq \in Nat \ {0} /\ Len(s) \in Nat /\ DOMAIN rows \subseteq 1..(nextSeq - 1)
      /\ rows \in [DOMAIN rows -> Row]
      /\ DOMAIN logged \subseteq Op /\ logged \in [DOMAIN logged -> 1..(nextSeq - 1)]
  BY DEF LogType
<1>2. /\ rows' = [n \in DOMAIN rows \cup new |-> IF n \in DOMAIN rows THEN rows[n] ELSE new_row(n)]
      /\ nextSeq' = nextSeq + Len(s)
      /\ logged' = [o \in DOMAIN logged \cup {at(n) : n \in new} |->
                      IF \E n \in new : at(n) = o THEN CHOOSE n \in new : at(n) = o
                      ELSE logged[o]]
  BY DEF Stored
<1>3. ASSUME NEW n \in new
      PROVE  n \notin DOMAIN rows /\ n \in 1..(nextSeq' - 1) /\ n - nextSeq + 1 \in 1..Len(s) /\ at(n) \in Op
  <2>1. n \in Nat /\ nextSeq <= n /\ n <= nextSeq + Len(s) - 1
    BY <1>1
  <2>2. n - nextSeq + 1 \in 1..Len(s)
    BY <1>1, <2>1
  <2> QED
    BY <1>1, <1>2, <2>1, <2>2
<1>4. ASSUME NEW i \in 1..Len(s) PROVE nextSeq + i - 1 \in new /\ at(nextSeq + i - 1) = s[i]
  <2>1. nextSeq + i - 1 \in new /\ (nextSeq + i - 1) - nextSeq + 1 = i
    BY <1>1
  <2> QED
    BY <2>1
<1> HIDE DEF new, at
<1>5. \A n \in new : new_row(n) \in Row
  BY <1>3 DEF Row
<1>6. {at(n) : n \in new} = {s[i] : i \in 1..Len(s)}
  <2>1. ASSUME NEW n \in new PROVE \E i \in 1..Len(s) : at(n) = s[i]
    BY <1>3 DEF at
  <2> QED
    BY <1>4, <2>1
<1>7. LogType'
  <2>1. nextSeq' \in Nat \ {0} /\ nextSeq' >= nextSeq
    BY <1>1, <1>2
  <2>2. DOMAIN rows' \subseteq 1..(nextSeq' - 1) /\ rows' \in [DOMAIN rows' -> Row]
    <3>1. \A n \in DOMAIN rows : n \in 1..(nextSeq' - 1)
      BY <1>1, <2>1
    <3> QED
      BY <1>1, <1>2, <1>3, <1>5, <3>1
  <2>3. DOMAIN logged' \subseteq Op
    BY <1>1, <1>2, <1>3
  <2>4. ASSUME NEW o \in DOMAIN logged' PROVE logged'[o] \in 1..(nextSeq' - 1)
    <3>1. CASE \E n \in new : at(n) = o
      BY <1>2, <1>3, <3>1
    <3>2. CASE ~ \E n \in new : at(n) = o
      <4>1. o \in DOMAIN logged /\ logged'[o] = logged[o]
        BY <1>2, <3>2
      <4> QED
        BY <1>1, <2>1, <4>1
    <3> QED
      BY <3>1, <3>2
  <2>5. logged' \in [DOMAIN logged' -> 1..(nextSeq' - 1)]
    BY <1>2, <2>4
  <2> QED
    BY <2>1, <2>2, <2>3, <2>5 DEF LogType
<1>8. \A i \in 1..Len(s) : rows'[nextSeq + i - 1] = new_row(nextSeq + i - 1)
  BY <1>2, <1>3, <1>4
<1>9. \A n \in DOMAIN rows : rows'[n] = rows[n]
  BY <1>2
<1> QED
  BY <1>2, <1>4, <1>6, <1>7, <1>8, <1>9 DEF new

-----------------------------------------------------------------------------
(* What the parts of the invariant read *)

LEMMA Frame ==
  /\ LogType /\ rows' = rows /\ nextSeq' = nextSeq /\ logged' = logged => LogType'
  /\ KnowType /\ cache' = cache /\ nextSeq' = nextSeq /\ clock' = clock /\ archived' = archived
       /\ frontier' = frontier /\ foreign' = foreign => KnowType'
  /\ FeedType /\ served' = served /\ cursor' = cursor /\ first' = first /\ target' = target
       => FeedType'
  /\ UiType /\ live' = live /\ captured' = captured /\ deferred' = deferred /\ lost' = lost
       /\ nextOwn' = nextOwn /\ faults' = faults => UiType'
  /\ WorkType /\ stage' = stage /\ mode' = mode /\ work' = work /\ nextSeq' = nextSeq
       /\ done' = done /\ failed' = failed /\ compacting' = compacting => WorkType'
  /\ LogInv /\ rows' = rows /\ logged' = logged /\ archived' = archived => LogInv'
  /\ StageInv /\ stage' = stage /\ mode' = mode /\ compacting' = compacting => StageInv'
  /\ WorkInv /\ stage' = stage /\ done' = done /\ failed' = failed /\ work' = work
       /\ rows' = rows /\ archived' = archived => WorkInv'
  /\ GateInv /\ mode' = mode /\ stage' = stage /\ rows' = rows /\ work' = work => GateInv'
  /\ PassedInv /\ cursor' = cursor /\ archived' = archived /\ logged' = logged => PassedInv'
  /\ FirstInv /\ stage' = stage /\ first' = first /\ cursor' = cursor /\ served' = served
       /\ target' = target => FirstInv'
  /\ TargetInv /\ stage' = stage /\ target' = target /\ mode' = mode /\ failed' = failed
       /\ done' = done /\ work' = work /\ rows' = rows /\ archived' = archived
       /\ logged' = logged => TargetInv'
  /\ KnownInv /\ clock' = clock /\ cache' = cache /\ rows' = rows /\ archived' = archived
       /\ logged' = logged => KnownInv'
<1>1. LogType /\ rows' = rows /\ nextSeq' = nextSeq /\ logged' = logged => LogType'
  BY DEF LogType
<1>2. KnowType /\ cache' = cache /\ nextSeq' = nextSeq /\ clock' = clock /\ archived' = archived
       /\ frontier' = frontier /\ foreign' = foreign => KnowType'
  BY DEF KnowType
<1>3. FeedType /\ served' = served /\ cursor' = cursor /\ first' = first /\ target' = target
       => FeedType'
  BY DEF FeedType
<1>4. UiType /\ live' = live /\ captured' = captured /\ deferred' = deferred /\ lost' = lost
       /\ nextOwn' = nextOwn /\ faults' = faults => UiType'
  BY DEF UiType
<1>5. WorkType /\ stage' = stage /\ mode' = mode /\ work' = work /\ nextSeq' = nextSeq
       /\ done' = done /\ failed' = failed /\ compacting' = compacting => WorkType'
  BY DEF WorkType
<1>6. LogInv /\ rows' = rows /\ logged' = logged /\ archived' = archived => LogInv'
  BY DEF LogInv
<1>7. StageInv /\ stage' = stage /\ mode' = mode /\ compacting' = compacting => StageInv'
  BY DEF StageInv, Running
<1>8. WorkInv /\ stage' = stage /\ done' = done /\ failed' = failed /\ work' = work
       /\ rows' = rows /\ archived' = archived => WorkInv'
  BY DEF WorkInv, Pending, Unfinished
<1>9. GateInv /\ mode' = mode /\ stage' = stage /\ rows' = rows /\ work' = work => GateInv'
  BY DEF GateInv, Pending, Unfinished
<1>10. PassedInv /\ cursor' = cursor /\ archived' = archived /\ logged' = logged => PassedInv'
  BY DEF PassedInv, Complete, Buried
<1>11. FirstInv /\ stage' = stage /\ first' = first /\ cursor' = cursor /\ served' = served
        /\ target' = target => FirstInv'
  BY DEF FirstInv
<1>12. TargetInv /\ stage' = stage /\ target' = target /\ mode' = mode /\ failed' = failed
        /\ done' = done /\ work' = work /\ rows' = rows /\ archived' = archived
        /\ logged' = logged => TargetInv'
  BY DEF TargetInv, Complete, Buried
<1>13. KnownInv /\ clock' = clock /\ cache' = cache /\ rows' = rows /\ archived' = archived
        /\ logged' = logged => KnownInv'
  BY DEF KnownInv, Complete, Buried, Ids
<1> QED
  BY <1>1, <1>2, <1>3, <1>4, <1>5, <1>6, <1>7, <1>8, <1>9, <1>10, <1>11, <1>12, <1>13

LEMMA SeqGrows == ASSUME NEW S, NEW T, S \subseteq T, NEW s \in Seq(S) PROVE s \in Seq(T)
OBVIOUS

\* What is complete stays so.
LEMMA CompleteStays ==
  ASSUME archived \subseteq archived', DOMAIN logged \subseteq DOMAIN logged',
         NEW i, Complete(i)
  PROVE  Complete(i)'
BY DEF Complete, Buried

LEMMA LastSeqOf == ASSUME LogType PROVE LastSeq \in 0..(nextSeq - 1)
<1>1. nextSeq - 1 \in Nat /\ DOMAIN rows \subseteq 0..(nextSeq - 1) /\ 0 \in 0..(nextSeq - 1)
  BY DEF LogType
<1>2. CASE DOMAIN rows = {}
  BY <1>1, <1>2 DEF LastSeq
<1>3. CASE DOMAIN rows # {}
  <2>1. \E s \in DOMAIN rows : \A t \in DOMAIN rows : t <= s
    BY <1>1, <1>3, Greatest
  <2>2. LastSeq \in DOMAIN rows
    BY <1>3, <2>1 DEF LastSeq
  <2> QED
    BY <1>1, <2>2
<1> QED
  BY <1>2, <1>3

\* The operations of rows, and what a clock becomes that learns them.
LEMMA OpsAtOf ==
  ASSUME LogType, NEW s \in Seq(Nat), \A i \in 1..Len(s) : s[i] \in DOMAIN rows
  PROVE  /\ OpsAt(s) \in Seq(Ids) /\ Len(OpsAt(s)) = Len(s)
         /\ \A i \in 1..Len(s) : OpsAt(s)[i] = rows[s[i]].op
<1>1. DOMAIN s = 1..Len(s) /\ Len(s) \in Nat
  OBVIOUS
<1>2. \A i \in 1..Len(s) : rows[s[i]].op \in Ids
  BY DEF Ids
<1> QED
  BY <1>1, <1>2 DEF OpsAt

LEMMA IdsOf == ASSUME LogType PROVE Ids \subseteq Op
BY DEF LogType, Ids, Row

LEMMA MergeOfLog ==
  ASSUME LogType, clock \subseteq Op, NEW s \in Seq(Ids)
  PROVE  /\ Merge(clock, s) \subseteq Op
         /\ \A o \in Merge(clock, s) : o \in clock \/ o \in Ids
<1>1. s \in Seq(Op)
  <2>1. Ids \subseteq Op
    BY IdsOf
  <2> QED
    BY <2>1, SeqGrows, Zenon
<1>2. \A i \in 1..Len(s) : s[i] \in Ids
  OBVIOUS
<1>3. /\ \A o \in Merge(clock, s) : o \in clock \/ \E i \in 1..Len(s) : s[i] = o
      /\ Merge(clock, s) \subseteq Op
  BY <1>1, MergeOf
<1> QED
  BY <1>2, <1>3

-----------------------------------------------------------------------------
(* The user, the other tab and the writes of local operations *)

\* What the write of a local operation leaves as it was.
LEMMA WriteLocalOf ==
  ASSUME LogType, LogInv, NEW o \in Local, WriteLocal(o)
  PROVE  /\ LogType' /\ LogInv' /\ nextSeq' = nextSeq + 1
         /\ Pending' = Pending /\ Unfinished' = Unfinished /\ Ids \subseteq Ids'
         /\ \A n \in DOMAIN rows : n \in DOMAIN rows' /\ rows'[n] = rows[n]
         /\ \A n \in DOMAIN rows' : n \in DOMAIN rows \/ n = nextSeq
         /\ archived' = archived /\ DOMAIN logged \subseteq DOMAIN logged'
<1>1. o \in Op /\ o \notin Remote
  BY OpsAssumption DEF Op
<1>2. <<o>> \in Seq(Op) /\ Len(<<o>>) = 1 /\ <<o>>[1] = o /\ "local" \in Statuses
  BY <1>1 DEF Statuses
<1>3. Stored(<<o>>, "local", FALSE) /\ archived' = archived
  BY DEF WriteLocal
<1> DEFINE new == [op |-> o, status |-> "local", synced |-> FALSE, rejected |-> FALSE]
<1>4. /\ LogType' /\ nextSeq' = nextSeq + Len(<<o>>)
      /\ DOMAIN rows' = DOMAIN rows \cup nextSeq..(nextSeq + Len(<<o>>) - 1)
      /\ \A n \in DOMAIN rows : rows'[n] = rows[n]
      /\ \A i \in 1..Len(<<o>>) :
           rows'[nextSeq + i - 1] =
             [op |-> <<o>>[i], status |-> "local", synced |-> FALSE, rejected |-> FALSE]
      /\ DOMAIN logged' = DOMAIN logged \cup {<<o>>[i] : i \in 1..Len(<<o>>)}
  BY <1>2, <1>3, StoredOf
<1>5. nextSeq \in Nat /\ nextSeq \notin DOMAIN rows
  BY DEF LogType
<1>6. DOMAIN rows' = DOMAIN rows \cup {nextSeq} /\ nextSeq' = nextSeq + 1
  BY <1>2, <1>4, <1>5
<1>7. rows'[nextSeq] = new
  <2>1. rows'[nextSeq + 1 - 1] =
          [op |-> <<o>>[1], status |-> "local", synced |-> FALSE, rejected |-> FALSE]
    BY <1>2, <1>4
  <2>2. nextSeq + 1 - 1 = nextSeq
    BY <1>5
  <2> QED
    BY <1>2, <2>1, <2>2
<1>8. DOMAIN logged' = DOMAIN logged \cup {o}
  BY <1>2, <1>4
<1>9. /\ rows'[nextSeq].op = o /\ rows'[nextSeq].status = "local"
      /\ rows'[nextSeq].rejected = FALSE
  BY <1>7
<1> HIDE DEF new
<1>10. Pending' = Pending /\ Unfinished' = Unfinished
  BY <1>4, <1>5, <1>6, <1>9 DEF Pending, Unfinished
<1>11. Ids \subseteq Ids'
  BY <1>4, <1>6 DEF Ids
<1>12. LogInv'
  <2>1. ASSUME NEW s \in DOMAIN rows'
        PROVE  /\ rows'[s].op \in DOMAIN logged'
               /\ rows'[s].op \in Remote <=> rows'[s].status # "local"
               /\ rows'[s].rejected => rows'[s].op \in Broken
               /\ rows'[s].status = "applied" => rows'[s].op \in archived'
    <3>1. CASE s \in DOMAIN rows
      BY <1>3, <1>4, <1>8, <3>1 DEF LogInv
    <3>2. CASE s = nextSeq
      BY <1>1, <1>8, <1>9, <3>2
    <3> QED
      BY <1>6, <3>1, <3>2
  <2>2. ASSUME NEW s \in DOMAIN rows', NEW t \in DOMAIN rows',
               rows'[s].op \in Remote, rows'[s].op = rows'[t].op
        PROVE  s = t
    <3>1. s \in DOMAIN rows /\ t \in DOMAIN rows
      BY <1>1, <1>6, <1>9, <2>2
    <3> QED
      BY <1>4, <2>2, <3>1 DEF LogInv
  <2> QED
    BY <2>1, <2>2 DEF LogInv
<1> QED
  BY <1>3, <1>4, <1>6, <1>8, <1>10, <1>11, <1>12

LEMMA LocalWrite ==
  ASSUME Inv, NEW o \in Local, WriteLocal(o), UiType',
         frontier' \in 0..nextSeq, foreign' \in BOOLEAN,
         stage' = stage, mode' = mode, first' = first, target' = target, work' = work,
         done' = done, failed' = failed, compacting' = compacting, served' = served
  PROVE  Inv'
<1>1. LogType /\ KnowType /\ FeedType /\ WorkType /\ LogInv /\ StageInv /\ WorkInv /\ GateInv
      /\ PassedInv /\ FirstInv /\ TargetInv /\ KnownInv
  BY DEF Inv
<1>2. /\ LogType' /\ LogInv' /\ nextSeq' = nextSeq + 1
      /\ Pending' = Pending /\ Unfinished' = Unfinished /\ Ids \subseteq Ids'
      /\ \A n \in DOMAIN rows : n \in DOMAIN rows' /\ rows'[n] = rows[n]
      /\ \A n \in DOMAIN rows' : n \in DOMAIN rows \/ n = nextSeq
      /\ archived' = archived /\ DOMAIN logged \subseteq DOMAIN logged'
  BY <1>1, WriteLocalOf
<1>3. cache' = cache /\ cursor' = cursor /\ clock' = clock \cup {o} /\ o \in Op /\ o \notin Remote
  BY OpsAssumption DEF WriteLocal, Op
<1>4. nextSeq \in Nat \ {0}
  BY <1>1 DEF LogType
<1>5. KnowType'
  <2>1. cache.anchor < nextSeq' /\ frontier' \in 0..(nextSeq' - 1)
    BY <1>1, <1>2, <1>4 DEF KnowType, Snapshot
  <2> QED
    BY <1>1, <1>2, <1>3, <2>1 DEF KnowType
<1>6. FeedType' /\ StageInv' /\ FirstInv'
  BY <1>1, <1>3, Frame
<1>7. \A i \in 1..Len(work) : work[i] \in 1..(nextSeq - 1) /\ work[i] # nextSeq
  BY <1>1, <1>4 DEF WorkType
<1>8. WorkType'
  <2>1. work \in Seq(1..(nextSeq' - 1))
    <3>1. 1..(nextSeq - 1) \subseteq 1..(nextSeq' - 1)
      BY <1>2, <1>4
    <3>2. work \in Seq(1..(nextSeq - 1))
      BY <1>1 DEF WorkType
    <3> QED
      BY <3>1, <3>2, SeqGrows, Zenon
  <2> QED
    BY <1>1, <2>1 DEF WorkType
<1>9. WorkInv'
  <2>1. \A i \in 1..Len(work) : work[i] \in Unfinished => rows'[work[i]] = rows[work[i]]
    BY <1>2 DEF Unfinished
  <2>2. done \in 0..Len(work) /\ Len(work) \in Nat
    BY <1>1 DEF WorkType
  <2>3. stage \in {"effects", "mark"} => \A i \in 1..done : rows'[work[i]].op \in archived'
    BY <1>1, <1>2, <2>1, <2>2 DEF WorkInv
  <2>4. stage \in {"clear", "quarantine"} =>
          \A i \in 1..Len(work) : work[i] \in DOMAIN rows' => rows'[work[i]].op \in Remote
    BY <1>1, <1>2, <1>7 DEF WorkInv
  <2> QED
    BY <1>1, <1>2, <2>3, <2>4 DEF WorkInv
<1>10. GateInv'
  BY <1>1, <1>2 DEF GateInv
<1>11. \A i : Complete(i) => Complete(i)'
  BY <1>2, CompleteStays
<1>12. PassedInv'
  BY <1>1, <1>3, <1>11 DEF PassedInv
<1>13. TargetInv'
  <2>1. mode = "download" /\ stage \in {"stored", "informed", "reduced", "effects"} /\ ~failed =>
          \A i \in 1..target :
            Complete(i)' \/ \E k \in (done + 1)..Len(work) : rows'[work[k]].op = Feed[i]
    <3> SUFFICES ASSUME mode = "download", ~failed, NEW i \in 1..target, ~Complete(i),
                        stage \in {"stored", "informed", "reduced", "effects"}
                 PROVE  \E k \in (done + 1)..Len(work) : rows'[work[k]].op = Feed[i]
      BY <1>11
    <3>1. PICK k \in (done + 1)..Len(work) : rows[work[k]].op = Feed[i]
      BY <1>1 DEF TargetInv
    <3>2. k \in 1..Len(work)
      BY <1>1 DEF WorkType
    <3>3. work[k] \in Pending \/ work[k] \in Unfinished
      BY <1>1, <3>2 DEF WorkInv
    <3>4. work[k] \in DOMAIN rows
      BY <3>3 DEF Pending, Unfinished
    <3> QED
      BY <1>2, <3>1, <3>4
  <2> QED
    BY <1>1, <1>11, <2>1 DEF TargetInv
<1>14. KnownInv'
  <2>1. \A i \in DOMAIN Feed : Feed[i] # o
    BY <1>3 DEF Remote
  <2> QED
    BY <1>1, <1>2, <1>3, <1>11, <2>1 DEF KnownInv
<1> QED
  BY <1>2, <1>5, <1>6, <1>8, <1>9, <1>10, <1>12, <1>13, <1>14 DEF Inv

LEMMA ObserveOf ==
  ASSUME KnowType, LogType, NEW n \in Nat \ {0}, Observe(nextSeq, n)
  PROVE  frontier' \in 0..(nextSeq + n - 1) /\ foreign' \in BOOLEAN
<1>1. nextSeq \in Nat
  BY DEF LogType
<1>2. frontier' \in 0..(nextSeq + n - 1)
  BY <1>1 DEF Observe
<1>3. foreign' \in BOOLEAN
  BY DEF Observe, KnowType
<1> QED
  BY <1>2, <1>3

LEMMA WriteCapturedInv == Inv /\ WriteCaptured => Inv'
<1> SUFFICES ASSUME Inv, WriteCaptured PROVE Inv'
  OBVIOUS
<1>1. LogType /\ KnowType /\ UiType
  BY DEF Inv
<1>2. captured # <<>> /\ WriteLocal(Head(captured)) /\ Observe(nextSeq, 1) /\ captured' = Tail(captured)
  BY DEF WriteCaptured
<1>3. /\ live' = live /\ deferred' = deferred /\ lost' = lost /\ nextOwn' = nextOwn /\ faults' = faults
      /\ stage' = stage /\ mode' = mode /\ first' = first /\ target' = target /\ work' = work
      /\ done' = done /\ failed' = failed /\ compacting' = compacting /\ served' = served
  BY DEF WriteCaptured, apply, world
<1>4. captured \in Seq(OwnOps)
  BY <1>1 DEF UiType
<1>5. Head(captured) \in Local /\ Tail(captured) \in Seq(OwnOps)
  BY <1>2, <1>4 DEF Local
<1>6. frontier' \in 0..nextSeq /\ foreign' \in BOOLEAN
  <2>1. nextSeq + 1 - 1 = nextSeq
    BY <1>1 DEF LogType
  <2>2. frontier' \in 0..(nextSeq + 1 - 1) /\ foreign' \in BOOLEAN
    BY <1>1, <1>2, ObserveOf
  <2> QED
    BY <2>1, <2>2
<1>7. UiType'
  BY <1>1, <1>2, <1>3, <1>5 DEF UiType
<1> QED
  BY <1>2, <1>3, <1>5, <1>6, <1>7, LocalWrite

LEMMA WriteDeferredInv == Inv /\ WriteDeferred => Inv'
<1> SUFFICES ASSUME Inv, WriteDeferred PROVE Inv'
  OBVIOUS
<1>1. LogType /\ KnowType /\ UiType
  BY DEF Inv
<1>2. deferred # <<>> /\ WriteLocal(Head(deferred)) /\ Observe(nextSeq, 1) /\ deferred' = Tail(deferred)
  BY DEF WriteDeferred
<1>3. /\ live' = live /\ captured' = captured /\ lost' = lost /\ nextOwn' = nextOwn /\ faults' = faults
      /\ stage' = stage /\ mode' = mode /\ first' = first /\ target' = target /\ work' = work
      /\ done' = done /\ failed' = failed /\ compacting' = compacting /\ served' = served
  BY DEF WriteDeferred, apply, world
<1>4. deferred \in Seq(OwnOps)
  BY <1>1 DEF UiType
<1>5. Head(deferred) \in Local /\ Tail(deferred) \in Seq(OwnOps)
  BY <1>2, <1>4 DEF Local
<1>6. frontier' \in 0..nextSeq /\ foreign' \in BOOLEAN
  <2>1. nextSeq + 1 - 1 = nextSeq
    BY <1>1 DEF LogType
  <2>2. frontier' \in 0..(nextSeq + 1 - 1) /\ foreign' \in BOOLEAN
    BY <1>1, <1>2, ObserveOf
  <2> QED
    BY <2>1, <2>2
<1>7. UiType'
  BY <1>1, <1>2, <1>3, <1>5 DEF UiType
<1> QED
  BY <1>2, <1>3, <1>5, <1>6, <1>7, LocalWrite

LEMMA WriteElsewhereInv == ASSUME Inv, NEW o \in TabOps, WriteElsewhere(o) PROVE Inv'
<1>1. LogType /\ KnowType /\ UiType
  BY DEF Inv
<1>2. WriteLocal(o) /\ o \in Local
  BY DEF WriteElsewhere, Local
<1>3. /\ live' = live /\ captured' = captured /\ deferred' = deferred /\ lost' = lost
      /\ nextOwn' = nextOwn /\ faults' = faults /\ frontier' = frontier /\ foreign' = foreign
      /\ stage' = stage /\ mode' = mode /\ first' = first /\ target' = target /\ work' = work
      /\ done' = done /\ failed' = failed /\ compacting' = compacting /\ served' = served
  BY DEF WriteElsewhere, ui, tab, apply, world
<1>4. frontier' \in 0..nextSeq /\ foreign' \in BOOLEAN
  BY <1>1, <1>3 DEF KnowType, LogType
<1>5. UiType'
  BY <1>1, <1>3, Frame
<1> QED
  BY <1>2, <1>3, <1>4, <1>5, LocalWrite

LEMMA LoseCapturedInv == Inv /\ LoseCaptured => Inv'
<1> SUFFICES ASSUME Inv, LoseCaptured PROVE Inv'
  OBVIOUS
<1>1. /\ LogType /\ KnowType /\ FeedType /\ UiType /\ WorkType /\ LogInv /\ StageInv
      /\ WorkInv /\ GateInv /\ PassedInv /\ FirstInv /\ TargetInv /\ KnownInv
  BY DEF Inv
<1>2. /\ rows' = rows /\ nextSeq' = nextSeq /\ cache' = cache /\ clock' = clock
      /\ archived' = archived /\ cursor' = cursor /\ live' = live
      /\ deferred' = deferred /\ frontier' = frontier /\ foreign' = foreign
      /\ stage' = stage /\ mode' = mode /\ first' = first /\ target' = target
      /\ work' = work /\ done' = done /\ failed' = failed /\ compacting' = compacting
      /\ served' = served /\ nextOwn' = nextOwn /\ logged' = logged
  BY DEF LoseCaptured, disk, ui, tab, apply, world
<1>3. /\ LogType' /\ KnowType' /\ FeedType' /\ WorkType' /\ LogInv' /\ StageInv'
      /\ WorkInv' /\ GateInv' /\ PassedInv' /\ FirstInv' /\ TargetInv' /\ KnownInv'
  BY <1>1, <1>2, Frame
<1>4. UiType'
  <2>1. captured \in Seq(OwnOps) /\ captured # <<>> /\ captured' = Tail(captured)
    BY <1>1 DEF UiType, LoseCaptured
  <2>2. captured' \in Seq(OwnOps)
    BY <2>1
  <2>3. lost' \in BOOLEAN
    BY DEF LoseCaptured
  <2>4. faults' \in 0..MaxFaults
    BY <1>1, BoundAssumption DEF UiType, LoseCaptured
  <2> QED
    BY <1>1, <1>2, <2>2, <2>3, <2>4 DEF UiType
<1> QED
  BY <1>3, <1>4 DEF Inv

LEMMA DispatchInv == Inv /\ Dispatch => Inv'
<1> SUFFICES ASSUME Inv, Dispatch PROVE Inv'
  OBVIOUS
<1>1. /\ LogType /\ KnowType /\ FeedType /\ UiType /\ WorkType /\ LogInv /\ StageInv
      /\ WorkInv /\ GateInv /\ PassedInv /\ FirstInv /\ TargetInv /\ KnownInv
  BY DEF Inv
<1>2. /\ rows' = rows /\ nextSeq' = nextSeq /\ cache' = cache /\ clock' = clock
      /\ archived' = archived /\ cursor' = cursor /\ lost' = lost
      /\ frontier' = frontier /\ foreign' = foreign /\ stage' = stage /\ mode' = mode
      /\ first' = first /\ target' = target /\ work' = work /\ done' = done
      /\ failed' = failed /\ compacting' = compacting /\ served' = served
      /\ faults' = faults /\ logged' = logged
  BY DEF Dispatch, disk, ui, tab, apply, world
<1>3. /\ LogType' /\ KnowType' /\ FeedType' /\ WorkType' /\ LogInv' /\ StageInv'
      /\ WorkInv' /\ GateInv' /\ PassedInv' /\ FirstInv' /\ TargetInv' /\ KnownInv'
  BY <1>1, <1>2, Frame
<1>4. UiType'
  <2>1. nextOwn + 1 \in OwnOps /\ nextOwn + 1 \in Op /\ nextOwn' = nextOwn + 1 /\ nextOwn' \in Nat
    BY <1>1 DEF Dispatch, UiType, Op, Local
  <2>2. live' = Reduce(live, <<nextOwn + 1>>)
    BY DEF Dispatch
  <2>3. live' \in [Op -> Nat]
    <3>1. <<nextOwn + 1>> \in Seq(Op) /\ live \in [Op -> Nat]
      BY <1>1, <2>1 DEF UiType
    <3> QED
      BY <2>2, <3>1, ReduceType
  <2>4. \/ captured' = Append(captured, nextOwn + 1) /\ deferred' = deferred
        \/ deferred' = Append(deferred, nextOwn + 1) /\ captured' = captured
    BY DEF Dispatch
  <2>5. captured' \in Seq(OwnOps) /\ deferred' \in Seq(OwnOps)
    <3>1. captured \in Seq(OwnOps) /\ deferred \in Seq(OwnOps)
      BY <1>1 DEF UiType
    <3>2. /\ Append(captured, nextOwn + 1) \in Seq(OwnOps)
          /\ Append(deferred, nextOwn + 1) \in Seq(OwnOps)
      BY <2>1, <3>1
    <3> QED
      BY <2>4, <3>1, <3>2, Zenon
  <2> QED
    BY <1>1, <1>2, <2>1, <2>3, <2>5 DEF UiType
<1> QED
  BY <1>3, <1>4 DEF Inv

LEMMA FailDeferredInv == Inv /\ FailDeferred => Inv'
<1> SUFFICES ASSUME Inv, FailDeferred PROVE Inv'
  OBVIOUS
<1>1. /\ LogType /\ KnowType /\ FeedType /\ UiType /\ WorkType /\ LogInv /\ StageInv
      /\ WorkInv /\ GateInv /\ PassedInv /\ FirstInv /\ TargetInv /\ KnownInv
  BY DEF Inv
<1>2. /\ rows' = rows /\ nextSeq' = nextSeq /\ cache' = cache /\ clock' = clock
      /\ archived' = archived /\ cursor' = cursor /\ live' = live
      /\ captured' = captured /\ deferred' = deferred /\ lost' = lost
      /\ frontier' = frontier /\ foreign' = foreign /\ first' = first
      /\ target' = target /\ work' = work /\ done' = done /\ failed' = failed
      /\ compacting' = compacting /\ served' = served /\ nextOwn' = nextOwn
      /\ logged' = logged
  BY DEF FailDeferred, disk, ui, tab, apply, world
<1>3. /\ LogType' /\ KnowType' /\ FeedType' /\ LogInv' /\ PassedInv' /\ KnownInv'
  BY <1>1, <1>2, Frame
<1>4. UiType'
  <2>1. faults' \in 0..MaxFaults
    BY <1>1, BoundAssumption DEF UiType, FailDeferred
  <2> QED
    BY <1>1, <1>2, <2>1 DEF UiType
<1>5. /\ mode' = "download" /\ stage' \in {"fetched", "idle"}
      /\ stage' = "fetched" => mode = "gate" /\ Unfinished = {}
  BY DEF FailDeferred
<1>6. ~compacting \/ Running
  BY <1>1 DEF StageInv
<1>7. WorkType' /\ StageInv'
  BY <1>1, <1>2, <1>5, <1>6 DEF WorkType, StageInv, Running, Stages, BootStages, ApplyStages
<1>8. WorkInv'
  BY <1>5 DEF WorkInv
<1>9. GateInv'
  <2>1. Pending' = Pending /\ Unfinished' = Unfinished
    BY <1>2 DEF Pending, Unfinished
  <2> QED
    BY <1>1, <1>5, <2>1 DEF GateInv, ApplyStages
<1>10. FirstInv' /\ TargetInv'
  BY <1>5 DEF FirstInv, TargetInv
<1> QED
  BY <1>3, <1>4, <1>7, <1>8, <1>9, <1>10 DEF Inv

-----------------------------------------------------------------------------
(* Download *)

LEMMA PublishInv == Inv /\ Publish => Inv'
<1> SUFFICES ASSUME Inv, Publish PROVE Inv'
  OBVIOUS
<1>1. /\ LogType /\ KnowType /\ FeedType /\ UiType /\ WorkType /\ LogInv /\ StageInv
      /\ WorkInv /\ GateInv /\ PassedInv /\ FirstInv /\ TargetInv /\ KnownInv
  BY DEF Inv
<1>2. /\ rows' = rows /\ nextSeq' = nextSeq /\ cache' = cache /\ clock' = clock
      /\ archived' = archived /\ cursor' = cursor /\ live' = live
      /\ captured' = captured /\ deferred' = deferred /\ lost' = lost
      /\ frontier' = frontier /\ foreign' = foreign /\ stage' = stage /\ mode' = mode
      /\ first' = first /\ target' = target /\ work' = work /\ done' = done
      /\ failed' = failed /\ compacting' = compacting /\ nextOwn' = nextOwn
      /\ faults' = faults /\ logged' = logged
  BY DEF Publish, disk, ui, tab, apply, world
<1>3. /\ LogType' /\ KnowType' /\ UiType' /\ WorkType' /\ LogInv' /\ StageInv'
      /\ WorkInv' /\ GateInv' /\ PassedInv' /\ TargetInv' /\ KnownInv'
  BY <1>1, <1>2, Frame
<1>4. FeedType' /\ FirstInv'
  <2>1. served' = served + 1 /\ served < Len(Feed) /\ Len(Feed) \in Nat
    BY OpsAssumption DEF Publish
  <2>2. FeedType'
    BY <1>1, <1>2, <2>1 DEF FeedType
  <2>3. FirstInv'
    <3>1. \A n : n \in (cursor + 1)..served => n \in (cursor + 1)..served'
      BY <1>1, <2>1 DEF FeedType
    <3> QED
      BY <1>1, <1>2, <3>1 DEF FirstInv
  <2> QED
    BY <2>2, <2>3
<1> QED
  BY <1>3, <1>4 DEF Inv

LEMMA SyncInv == Inv /\ Sync => Inv'
<1> SUFFICES ASSUME Inv, Sync PROVE Inv'
  OBVIOUS
<1>1. /\ LogType /\ KnowType /\ FeedType /\ UiType /\ WorkType /\ LogInv /\ StageInv
      /\ WorkInv /\ GateInv /\ PassedInv /\ FirstInv /\ TargetInv /\ KnownInv
  BY DEF Inv
<1>2. /\ rows' = rows /\ nextSeq' = nextSeq /\ cache' = cache /\ clock' = clock
      /\ archived' = archived /\ cursor' = cursor /\ live' = live
      /\ captured' = captured /\ deferred' = deferred /\ lost' = lost
      /\ frontier' = frontier /\ foreign' = foreign /\ mode' = mode /\ first' = first
      /\ target' = target /\ work' = work /\ done' = done /\ failed' = failed
      /\ compacting' = compacting /\ served' = served /\ nextOwn' = nextOwn
      /\ faults' = faults /\ logged' = logged
  BY DEF Sync, disk, ui, tab, apply, world
<1>3. /\ LogType' /\ KnowType' /\ FeedType' /\ UiType' /\ LogInv' /\ PassedInv'
      /\ KnownInv'
  BY <1>1, <1>2, Frame
<1>4. stage = "idle" /\ stage' = "flush"
  BY DEF Sync, Go
<1>5. WorkType' /\ StageInv'
  BY <1>1, <1>2, <1>4 DEF WorkType, StageInv, Running, Stages, BootStages, ApplyStages
<1>6. WorkInv' /\ GateInv' /\ FirstInv' /\ TargetInv'
  <2>1. Pending' = Pending
    BY <1>2 DEF Pending
  <2> QED
    BY <1>1, <1>2, <1>4, <2>1 DEF WorkInv, GateInv, FirstInv, TargetInv, ApplyStages
<1> QED
  BY <1>3, <1>5, <1>6 DEF Inv

LEMMA RefuseInv == Inv /\ Refuse => Inv'
<1> SUFFICES ASSUME Inv, Refuse PROVE Inv'
  OBVIOUS
<1>1. /\ LogType /\ KnowType /\ FeedType /\ UiType /\ WorkType /\ LogInv /\ StageInv
      /\ WorkInv /\ GateInv /\ PassedInv /\ FirstInv /\ TargetInv /\ KnownInv
  BY DEF Inv
<1>2. /\ rows' = rows /\ nextSeq' = nextSeq /\ cache' = cache /\ clock' = clock
      /\ archived' = archived /\ cursor' = cursor /\ live' = live
      /\ captured' = captured /\ deferred' = deferred /\ lost' = lost
      /\ frontier' = frontier /\ foreign' = foreign /\ mode' = mode /\ first' = first
      /\ target' = target /\ work' = work /\ done' = done /\ failed' = failed
      /\ compacting' = compacting /\ served' = served /\ nextOwn' = nextOwn
      /\ faults' = faults /\ logged' = logged
  BY DEF Refuse, disk, ui, tab, apply, world
<1>3. /\ LogType' /\ KnowType' /\ FeedType' /\ UiType' /\ LogInv' /\ PassedInv'
      /\ KnownInv'
  BY <1>1, <1>2, Frame
<1>4. stage = "flushed" /\ stage' = "idle"
  BY DEF Refuse, Go
<1>5. WorkType' /\ StageInv'
  BY <1>1, <1>2, <1>4 DEF WorkType, StageInv, Running, Stages, BootStages, ApplyStages
<1>6. WorkInv' /\ GateInv' /\ FirstInv' /\ TargetInv'
  <2>1. Pending' = Pending
    BY <1>2 DEF Pending
  <2> QED
    BY <1>1, <1>2, <1>4, <2>1 DEF WorkInv, GateInv, FirstInv, TargetInv, ApplyStages
<1> QED
  BY <1>3, <1>5, <1>6 DEF Inv

-----------------------------------------------------------------------------
(* Start *)

\* What a clock covers stays complete or in the log.
LEMMA KnownStays ==
  ASSUME KnownInv, archived \subseteq archived', DOMAIN logged \subseteq DOMAIN logged',
         \A i \in DOMAIN Feed : Feed[i] \in Ids => Feed[i] \in Ids' \/ Complete(i),
         \A o \in clock' \cup cache'.clock : o \in clock \cup cache.clock \cup Ids
  PROVE  KnownInv'
<1>1. \A i : Complete(i) => Complete(i)'
  BY CompleteStays
<1> SUFFICES ASSUME NEW i \in DOMAIN Feed, Feed[i] \in clock' \cup cache'.clock
             PROVE  Feed[i] \in Ids' \/ Complete(i)'
  BY DEF KnownInv
<1>2. Feed[i] \in clock \cup cache.clock \/ Feed[i] \in Ids
  OBVIOUS
<1>3. Feed[i] \in Ids \/ Complete(i)
  BY <1>2 DEF KnownInv
<1> QED
  BY <1>1, <1>3

LEMMA LoadInv == Inv /\ Load => Inv'
<1> SUFFICES ASSUME Inv, Load PROVE Inv'
  OBVIOUS
<1>1. /\ LogType /\ KnowType /\ FeedType /\ UiType /\ WorkType /\ LogInv /\ StageInv
      /\ WorkInv /\ GateInv /\ PassedInv /\ FirstInv /\ TargetInv /\ KnownInv
  BY DEF Inv
<1>2. /\ rows' = rows /\ nextSeq' = nextSeq /\ cache' = cache /\ archived' = archived
      /\ cursor' = cursor /\ captured' = captured /\ deferred' = deferred
      /\ lost' = lost /\ frontier' = frontier /\ foreign' = foreign /\ mode' = mode
      /\ first' = first /\ target' = target /\ work' = work /\ done' = done
      /\ failed' = failed /\ compacting' = compacting /\ served' = served
      /\ nextOwn' = nextOwn /\ faults' = faults /\ logged' = logged
  BY DEF Load, disk, ui, tab, apply, world
<1>3. /\ LogType' /\ FeedType' /\ LogInv' /\ PassedInv'
  BY <1>1, <1>2, Frame
<1>4. stage = "off" /\ stage' = "loaded" /\ live' = cache.state
  BY DEF Load, Go
<1>5. clock' \subseteq clock \cup cache.clock
  BY DEF Load
<1>6. cache.state \in [Op -> Nat] /\ cache.clock \subseteq Op
  BY <1>1 DEF KnowType, Snapshot
<1>7. KnowType' /\ UiType'
  BY <1>1, <1>2, <1>4, <1>5, <1>6 DEF KnowType, UiType
<1>8. WorkType' /\ StageInv'
  BY <1>1, <1>2, <1>4 DEF WorkType, StageInv, Running, Stages, BootStages, ApplyStages
<1>9. mode = "start"
  BY <1>1, <1>4 DEF StageInv, BootStages
<1>10. WorkInv' /\ GateInv' /\ FirstInv' /\ TargetInv'
  BY <1>1, <1>2, <1>4, <1>9 DEF WorkInv, GateInv, FirstInv, TargetInv, ApplyStages
<1>11. KnownInv'
  <2>1. Ids' = Ids
    BY <1>2 DEF Ids
  <2> QED
    BY <1>1, <1>2, <1>5, <2>1, KnownStays
<1> QED
  BY <1>3, <1>7, <1>8, <1>10, <1>11 DEF Inv

LEMMA ReplayInv == Inv /\ Replay => Inv'
<1> SUFFICES ASSUME Inv, Replay PROVE Inv'
  OBVIOUS
<1>1. /\ LogType /\ KnowType /\ FeedType /\ UiType /\ WorkType /\ LogInv /\ StageInv
      /\ WorkInv /\ GateInv /\ PassedInv /\ FirstInv /\ TargetInv /\ KnownInv
  BY DEF Inv
<1>2. /\ rows' = rows /\ nextSeq' = nextSeq /\ cache' = cache /\ archived' = archived
      /\ cursor' = cursor /\ captured' = captured /\ deferred' = deferred
      /\ lost' = lost /\ frontier' = frontier /\ foreign' = foreign /\ mode' = mode
      /\ first' = first /\ target' = target /\ done' = done /\ failed' = failed
      /\ compacting' = compacting /\ served' = served /\ nextOwn' = nextOwn
      /\ faults' = faults /\ logged' = logged
  BY DEF Replay, disk, ui, tab, apply, world
<1>3. /\ LogType' /\ FeedType' /\ LogInv' /\ PassedInv'
  BY <1>1, <1>2, Frame
<1>4. stage = "loaded" /\ stage' = "replayed"
  BY DEF Replay, Go
<1>5. mode = "start" /\ done = 0 /\ ~compacting
  BY <1>1, <1>4 DEF StageInv, BootStages, WorkInv, Running
<1>6. /\ Replayable \in Seq(1..(nextSeq - 1)) /\ OpsAt(Replayable) \in Seq(Ids)
  <2>1. DOMAIN rows \subseteq 1..(nextSeq - 1) /\ nextSeq \in Nat \ {0}
    BY <1>1 DEF LogType
  <2> DEFINE S == {s \in DOMAIN rows : s > cache.anchor /\ ~rows[s].rejected}
  <2>2. S \in SUBSET (1..(nextSeq - 1)) /\ S \subseteq DOMAIN rows /\ Replayable = InOrder(S)
    BY <2>1 DEF Replayable
  <2> HIDE DEF S
  <2>3. Replayable \in Seq(1..(nextSeq - 1)) /\ \A i \in 1..Len(Replayable) : Replayable[i] \in DOMAIN rows
    BY <2>1, <2>2, InOrderOf
  <2>4. 1..(nextSeq - 1) \subseteq Nat
    BY <2>1
  <2>5. Replayable \in Seq(Nat)
    BY <2>3, <2>4, SeqGrows, Zenon
  <2> QED
    BY <1>1, <2>3, <2>5, OpsAtOf
<1>7. PICK tail : /\ tail \in Seq(Ids) /\ live' = Reduce(live, tail) /\ clock' = Merge(clock, tail)
                  /\ work' = <<>> \/ work' = Replayable
  <2> DEFINE t == OpsAt(Replayable)
             last == SubSeq(t, Len(t), Len(t))
  <2>1. \/ live' = Reduce(live, t) /\ clock' = Merge(clock, t) /\ work' = Replayable
        \/ t # <<>> /\ live' = Reduce(live, last) /\ clock' = Merge(clock, last) /\ work' = <<>>
    BY DEF Replay
  <2>2. t \in Seq(Ids)
    BY <1>6
  <2> HIDE DEF t
  <2>3. t # <<>> => last \in Seq(Ids)
    BY <2>2
  <2> HIDE DEF last
  <2> QED
    BY <2>1, <2>2, <2>3
<1>8. clock' \subseteq Op /\ \A o \in clock' : o \in clock \/ o \in Ids
  <2>1. clock \subseteq Op
    BY <1>1 DEF KnowType
  <2>2. tail \in Seq(Ids) /\ clock' = Merge(clock, tail)
    BY <1>7
  <2>3. Merge(clock, tail) \subseteq Op /\ \A o \in Merge(clock, tail) : o \in clock \/ o \in Ids
    BY <1>1, <2>1, <2>2, MergeOfLog
  <2> QED
    BY <2>2, <2>3
<1>9. KnowType'
  BY <1>1, <1>2, <1>8 DEF KnowType
<1>10. UiType'
  <2>1. live' \in [Op -> Nat]
    <3>1. live \in [Op -> Nat]
      BY <1>1 DEF UiType
    <3>2. tail \in Seq(Ids) /\ live' = Reduce(live, tail)
      BY <1>7
    <3> QED
      BY <3>1, <3>2, ReduceType
  <2> QED
    BY <1>1, <1>2, <2>1 DEF UiType
<1>11. WorkType'
  <2>1. work' \in Seq(1..(nextSeq' - 1))
    <3>1. <<>> \in Seq(1..(nextSeq - 1))
      OBVIOUS
    <3> QED
      BY <1>2, <1>6, <1>7, <3>1, Zenon
  <2> QED
    BY <1>1, <1>2, <1>4, <1>5, <2>1 DEF WorkType, Stages, BootStages
<1>12. StageInv' /\ WorkInv' /\ GateInv' /\ FirstInv' /\ TargetInv'
  BY <1>2, <1>4, <1>5 DEF StageInv, WorkInv, GateInv, FirstInv, TargetInv, Running, ApplyStages, BootStages
<1>13. KnownInv'
  <2>1. Ids' = Ids
    BY <1>2 DEF Ids
  <2> QED
    BY <1>1, <1>2, <1>8, <2>1, KnownStays
<1> QED
  BY <1>3, <1>9, <1>10, <1>11, <1>12, <1>13 DEF Inv

\* The reducers' outcome becomes durable for rows that waited for it.
LEMMA CheckpointOf ==
  ASSUME LogType, LogInv, clock \subseteq Op, NEW S \in SUBSET Pending, Checkpoint(S),
         nextSeq' = nextSeq, logged' = logged, archived' = archived
  PROVE  /\ LogType' /\ LogInv' /\ DOMAIN rows' = DOMAIN rows /\ Ids' = Ids
         /\ \A s \in DOMAIN rows : rows'[s].op = rows[s].op
         /\ \A s \in DOMAIN rows \ S : rows'[s] = rows[s]
         /\ \A s \in S : IF rows[s].op \in Broken THEN rows'[s].rejected
                         ELSE rows'[s].status = "archive_pending" /\ ~rows'[s].rejected
         /\ clock' \subseteq Op /\ \A o \in clock' : o \in clock \/ o \in Ids
<1>1. /\ rows \in [DOMAIN rows -> Row] /\ DOMAIN rows \subseteq 1..(nextSeq - 1) /\ nextSeq \in Nat \ {0}
      /\ S \subseteq DOMAIN rows
      /\ \A s \in S : rows[s].status = "pending" /\ ~rows[s].rejected
  BY DEF LogType, Pending
<1>2. /\ DOMAIN rows' = DOMAIN rows
      /\ \A s \in DOMAIN rows : s \notin S => rows'[s] = rows[s]
      /\ \A s \in S : rows'[s] = IF rows[s].op \in Broken
                                THEN [rows[s] EXCEPT !.rejected = TRUE]
                                ELSE [rows[s] EXCEPT !.status = "archive_pending"]
      /\ rows' = [s \in DOMAIN rows |-> rows'[s]]
  BY <1>1 DEF Checkpoint
<1>3. ASSUME NEW s \in S
      PROVE  /\ rows'[s] \in Row /\ rows'[s].op = rows[s].op
             /\ rows[s].op \in Broken => rows'[s].rejected /\ rows'[s].status = "pending"
             /\ rows[s].op \notin Broken => rows'[s].status = "archive_pending" /\ rows'[s].rejected = FALSE
  <2>1. rows[s] \in Row /\ rows[s].status = "pending" /\ ~rows[s].rejected
    BY <1>1
  <2>2. rows[s].rejected = FALSE
    BY <2>1 DEF Row
  <2>3. CASE rows[s].op \in Broken
    <3>1. rows'[s] = [rows[s] EXCEPT !.rejected = TRUE]
      BY <1>2, <2>3
    <3> QED
      BY <2>1, <2>3, <3>1 DEF Row
  <2>4. CASE rows[s].op \notin Broken
    <3>1. rows'[s] = [rows[s] EXCEPT !.status = "archive_pending"]
      BY <1>2, <2>4
    <3> QED
      BY <2>1, <2>2, <2>4, <3>1 DEF Row, Statuses
  <2> QED
    BY <2>3, <2>4
<1>4. LogType'
  <2>1. ASSUME NEW s \in DOMAIN rows' PROVE rows'[s] \in Row
    <3>1. CASE s \in S
      BY <1>3, <3>1
    <3>2. CASE s \notin S
      <4>1. s \in DOMAIN rows /\ rows'[s] = rows[s]
        BY <1>2, <3>2
      <4> QED
        BY <1>1, <4>1
    <3> QED
      BY <3>1, <3>2
  <2>2. rows' \in [DOMAIN rows' -> Row]
    BY <1>2, <2>1
  <2> QED
    BY <1>1, <1>2, <2>2 DEF LogType
<1>5. \A s \in DOMAIN rows : rows'[s].op = rows[s].op
  BY <1>2, <1>3
<1>6. LogInv'
  <2>1. ASSUME NEW s \in DOMAIN rows'
        PROVE  /\ rows'[s].op \in DOMAIN logged'
               /\ rows'[s].op \in Remote <=> rows'[s].status # "local"
               /\ rows'[s].rejected => rows'[s].op \in Broken
               /\ rows'[s].status = "applied" => rows'[s].op \in archived'
    <3>1. CASE s \in S
      <4>1. rows[s].op \in Remote /\ rows[s].op \in DOMAIN logged
        BY <1>1, <3>1 DEF LogInv
      <4> QED
        BY <1>3, <3>1, <4>1
    <3>2. CASE s \notin S
      BY <1>2, <3>2 DEF LogInv
    <3> QED
      BY <3>1, <3>2
  <2> QED
    BY <1>2, <1>5, <2>1 DEF LogInv
<1>7. Ids' = Ids
  BY <1>2, <1>5 DEF Ids
<1> DEFINE G == {s \in S : ~(rows[s].op \in Broken)}
<1>8. clock' = Merge(clock, OpsAt(InOrder(G)))
  BY DEF Checkpoint
<1>9. G \in SUBSET (1..(nextSeq - 1)) /\ G \subseteq DOMAIN rows
  BY <1>1
<1> HIDE DEF G
<1>10. OpsAt(InOrder(G)) \in Seq(Ids)
  <2>1. InOrder(G) \in Seq(1..(nextSeq - 1)) /\ \A i \in 1..Len(InOrder(G)) : InOrder(G)[i] \in DOMAIN rows
    BY <1>1, <1>9, InOrderOf
  <2>2. 1..(nextSeq - 1) \subseteq Nat
    BY <1>1
  <2>3. InOrder(G) \in Seq(Nat)
    BY <2>1, <2>2, SeqGrows, Zenon
  <2> QED
    BY <2>1, <2>3, OpsAtOf
<1>11. clock' \subseteq Op /\ \A o \in clock' : o \in clock \/ o \in Ids
  BY <1>8, <1>10, MergeOfLog
<1> QED
  BY <1>2, <1>3, <1>4, <1>5, <1>6, <1>7, <1>11

LEMMA SettleInv == Inv /\ Settle => Inv'
<1> SUFFICES ASSUME Inv, Settle PROVE Inv'
  OBVIOUS
<1>1. /\ LogType /\ KnowType /\ FeedType /\ UiType /\ WorkType /\ LogInv /\ StageInv
      /\ WorkInv /\ GateInv /\ PassedInv /\ FirstInv /\ TargetInv /\ KnownInv
  BY DEF Inv
<1>2. /\ nextSeq' = nextSeq /\ cache' = cache /\ archived' = archived
      /\ cursor' = cursor /\ live' = live /\ captured' = captured
      /\ deferred' = deferred /\ lost' = lost /\ mode' = mode /\ first' = first
      /\ target' = target /\ work' = work /\ done' = done /\ failed' = failed
      /\ compacting' = compacting /\ served' = served /\ nextOwn' = nextOwn
      /\ faults' = faults /\ logged' = logged
  BY DEF Settle, disk, ui, tab, apply, world
<1>3. /\ FeedType' /\ UiType' /\ PassedInv'
  BY <1>1, <1>2, Frame
<1>4. stage = "replayed" /\ stage' = "settled" /\ Checkpoint(Pending)
  BY DEF Settle, Go
<1>5. mode = "start" /\ ~compacting
  BY <1>1, <1>4 DEF StageInv, BootStages, Running
<1>6. clock \subseteq Op
  BY <1>1 DEF KnowType
<1>7. /\ LogType' /\ LogInv' /\ Ids' = Ids
      /\ clock' \subseteq Op /\ \A o \in clock' : o \in clock \/ o \in Ids
  BY <1>1, <1>2, <1>4, <1>6, CheckpointOf
<1>8. LogType' /\ LogInv'
  BY <1>7
<1>9. KnowType'
  <2>1. frontier' \in 0..(nextSeq - 1) /\ foreign' \in BOOLEAN
    <3>1. LastSeq \in 0..(nextSeq - 1) /\ cache.anchor \in 0..(nextSeq - 1)
      BY <1>1, LastSeqOf DEF KnowType, Snapshot, LogType
    <3>2. (frontier' = cache.anchor \/ frontier' = LastSeq) /\ foreign' = FALSE
      BY DEF Settle, Establish
    <3> QED
      BY <3>1, <3>2
  <2> QED
    BY <1>1, <1>2, <1>7, <2>1 DEF KnowType
<1>10. WorkType'
  BY <1>1, <1>2, <1>4 DEF WorkType, Stages, BootStages
<1>11. StageInv' /\ WorkInv' /\ GateInv' /\ FirstInv' /\ TargetInv'
  BY <1>2, <1>4, <1>5 DEF StageInv, WorkInv, GateInv, FirstInv, TargetInv, Running, ApplyStages, BootStages
<1>12. KnownInv'
  BY <1>1, <1>2, <1>7, KnownStays
<1> QED
  BY <1>3, <1>8, <1>9, <1>10, <1>11, <1>12 DEF Inv

\* Archive work begins on the rows that need it.
LEMMA BeginOf ==
  ASSUME LogType, NEW m, Begin(m, Unfinished), rows' = rows, nextSeq' = nextSeq, archived' = archived
  PROVE  /\ stage' = "effects" /\ mode' = m /\ done' = 0 /\ failed' = FALSE
         /\ first' = first /\ target' = target
         /\ work' \in Seq(1..(nextSeq' - 1)) /\ done' \in 0..Len(work') /\ WorkInv'
<1>1. /\ stage' = "effects" /\ mode' = m /\ done' = 0 /\ failed' = FALSE
      /\ first' = first /\ target' = target /\ work' = InOrder(Unfinished)
  BY DEF Begin
<1>2. nextSeq \in Nat \ {0} /\ Unfinished \in SUBSET (1..(nextSeq - 1))
  BY DEF LogType, Unfinished
<1>3. work' \in Seq(1..(nextSeq' - 1)) /\ \A i \in 1..Len(work') : work'[i] \in Unfinished
  BY <1>1, <1>2, InOrderOf
<1>4. done' \in 0..Len(work')
  BY <1>1, <1>3
<1>5. Unfinished' = Unfinished
  BY DEF Unfinished
<1>6. WorkInv'
  BY <1>1, <1>3, <1>5 DEF WorkInv
<1> QED
  BY <1>1, <1>3, <1>4, <1>6

LEMMA EndStartInv == Inv /\ EndStart => Inv'
<1> SUFFICES ASSUME Inv, EndStart PROVE Inv'
  OBVIOUS
<1>1. /\ LogType /\ KnowType /\ FeedType /\ UiType /\ WorkType /\ LogInv /\ StageInv
      /\ WorkInv /\ GateInv /\ PassedInv /\ FirstInv /\ TargetInv /\ KnownInv
  BY DEF Inv
<1>2. /\ rows' = rows /\ nextSeq' = nextSeq /\ clock' = clock /\ archived' = archived
      /\ cursor' = cursor /\ live' = live /\ captured' = captured
      /\ deferred' = deferred /\ lost' = lost /\ frontier' = frontier
      /\ foreign' = foreign /\ first' = first /\ target' = target
      /\ compacting' = compacting /\ served' = served /\ nextOwn' = nextOwn
      /\ faults' = faults /\ logged' = logged
  BY DEF EndStart, Begin, disk, ui, tab, apply, world
<1>3. /\ LogType' /\ FeedType' /\ UiType' /\ LogInv' /\ PassedInv'
  BY <1>1, <1>2, Frame
<1>4. stage = "settled" /\ Begin("start", Unfinished) /\ (Snap \/ cache' = cache)
  BY DEF EndStart
<1>5. ~compacting
  BY <1>1, <1>4 DEF StageInv, BootStages, Running
<1>6. /\ stage' = "effects" /\ mode' = "start" /\ failed' = FALSE
      /\ work' \in Seq(1..(nextSeq' - 1)) /\ done' \in 0..Len(work') /\ WorkInv'
  BY <1>1, <1>2, <1>4, BeginOf
<1>7. WorkInv'
  BY <1>6
<1>8. KnowType'
  <2>1. LastSeq \in Nat /\ LastSeq < nextSeq
    BY <1>1, LastSeqOf DEF LogType
  <2>2. cache' \in Snapshot /\ cache'.anchor < nextSeq
    BY <1>1, <1>4, <2>1 DEF KnowType, UiType, Snap, Snapshot
  <2> QED
    BY <1>1, <1>2, <2>2 DEF KnowType
<1>9. WorkType'
  BY <1>1, <1>2, <1>6 DEF WorkType, Stages, ApplyStages
<1>10. StageInv' /\ GateInv' /\ FirstInv' /\ TargetInv'
  BY <1>2, <1>5, <1>6 DEF StageInv, GateInv, FirstInv, TargetInv, Running, ApplyStages, BootStages
<1>11. KnownInv'
  <2>1. Ids' = Ids /\ cache'.clock \subseteq clock \cup cache.clock
    BY <1>2, <1>4 DEF Ids, Snap
  <2> QED
    BY <1>1, <1>2, <2>1, KnownStays
<1> QED
  BY <1>3, <1>7, <1>8, <1>9, <1>10, <1>11 DEF Inv

LEMMA SaveSnapshotInv == Inv /\ SaveSnapshot => Inv'
<1> SUFFICES ASSUME Inv, SaveSnapshot PROVE Inv'
  OBVIOUS
<1>1. /\ LogType /\ KnowType /\ FeedType /\ UiType /\ WorkType /\ LogInv /\ StageInv
      /\ WorkInv /\ GateInv /\ PassedInv /\ FirstInv /\ TargetInv /\ KnownInv
  BY DEF Inv
<1>2. /\ rows' = rows /\ nextSeq' = nextSeq /\ clock' = clock /\ archived' = archived
      /\ cursor' = cursor /\ live' = live /\ captured' = captured
      /\ deferred' = deferred /\ lost' = lost /\ frontier' = frontier
      /\ foreign' = foreign /\ stage' = stage /\ mode' = mode /\ first' = first
      /\ target' = target /\ work' = work /\ done' = done /\ failed' = failed
      /\ served' = served /\ nextOwn' = nextOwn /\ faults' = faults /\ logged' = logged
  BY DEF SaveSnapshot, disk, ui, tab, apply, world
<1>3. /\ LogType' /\ FeedType' /\ UiType' /\ LogInv' /\ WorkInv' /\ GateInv'
      /\ PassedInv' /\ FirstInv' /\ TargetInv'
  BY <1>1, <1>2, Frame
<1>4. Running /\ LockFree /\ Snap /\ compacting' = TRUE
  BY DEF SaveSnapshot
<1>5. KnowType'
  <2>1. LastSeq \in Nat /\ LastSeq < nextSeq
    BY <1>1, LastSeqOf DEF LogType
  <2>2. cache' \in Snapshot /\ cache'.anchor < nextSeq
    BY <1>1, <1>4, <2>1 DEF KnowType, UiType, Snap, Snapshot
  <2> QED
    BY <1>1, <1>2, <2>2 DEF KnowType
<1>6. WorkType'
  BY <1>1, <1>2, <1>4 DEF WorkType
<1>7. StageInv'
  BY <1>1, <1>2, <1>4 DEF StageInv, Running, LockFree
<1>8. KnownInv'
  <2>1. Ids' = Ids /\ cache'.clock \subseteq clock \cup cache.clock
    BY <1>2, <1>4 DEF Ids, Snap
  <2> QED
    BY <1>1, <1>2, <2>1, KnownStays
<1> QED
  BY <1>3, <1>5, <1>6, <1>7, <1>8 DEF Inv

LEMMA CrashInv == Inv /\ Crash => Inv'
<1> SUFFICES ASSUME Inv, Crash PROVE Inv'
  OBVIOUS
<1>1. /\ LogType /\ KnowType /\ FeedType /\ UiType /\ WorkType /\ LogInv /\ StageInv
      /\ WorkInv /\ GateInv /\ PassedInv /\ FirstInv /\ TargetInv /\ KnownInv
  BY DEF Inv
<1>2. /\ rows' = rows /\ nextSeq' = nextSeq /\ cache' = cache /\ clock' = clock
      /\ archived' = archived /\ cursor' = cursor /\ first' = first /\ target' = target
      /\ served' = served /\ nextOwn' = nextOwn /\ logged' = logged
  BY DEF Crash, disk, ui, tab, apply, world
<1>3. /\ LogType' /\ FeedType' /\ LogInv' /\ PassedInv' /\ KnownInv'
  BY <1>1, <1>2, Frame
<1>4. /\ stage' = "off" /\ mode' = "start" /\ work' = <<>> /\ done' = 0 /\ failed' = FALSE
      /\ compacting' = FALSE /\ frontier' = 0 /\ foreign' = FALSE
      /\ live' = Empty /\ captured' = <<>> /\ deferred' = <<>> /\ lost' = FALSE
      /\ faults' = faults + 1 /\ faults < MaxFaults
  BY DEF Crash
<1>5. KnowType'
  <2>1. 0 \in 0..(nextSeq - 1)
    BY <1>1 DEF LogType
  <2> QED
    BY <1>1, <1>2, <1>4, <2>1 DEF KnowType
<1>6. UiType'
  <2>1. faults' \in 0..MaxFaults
    BY <1>1, <1>4, BoundAssumption DEF UiType
  <2>2. live' \in [Op -> Nat]
    BY <1>4 DEF Empty
  <2>3. captured' \in Seq(OwnOps) /\ deferred' \in Seq(OwnOps)
    BY <1>4
  <2>4. lost' \in BOOLEAN
    BY <1>4
  <2> QED
    BY <1>1, <1>2, <2>1, <2>2, <2>3, <2>4 DEF UiType
<1>7. WorkType'
  <2>1. work' \in Seq(1..(nextSeq' - 1)) /\ done' \in 0..Len(work')
    BY <1>4
  <2>2. failed' \in BOOLEAN /\ compacting' \in BOOLEAN
    BY <1>4
  <2>3. stage' \in Stages /\ mode' \in {"start", "gate", "download"}
    BY <1>4 DEF Stages, BootStages
  <2> QED
    BY <2>1, <2>2, <2>3 DEF WorkType
<1>8. StageInv' /\ WorkInv' /\ GateInv' /\ FirstInv' /\ TargetInv'
  BY <1>4 DEF StageInv, WorkInv, GateInv, FirstInv, TargetInv, ApplyStages, BootStages
<1> QED
  BY <1>3, <1>5, <1>6, <1>7, <1>8 DEF Inv

-----------------------------------------------------------------------------
(* The gate and the pages *)

LEMMA GateStepInv == Inv /\ Gate => Inv'
<1> SUFFICES ASSUME Inv, Gate PROVE Inv'
  OBVIOUS
<1>1. /\ LogType /\ KnowType /\ FeedType /\ UiType /\ WorkType /\ LogInv /\ StageInv
      /\ WorkInv /\ GateInv /\ PassedInv /\ FirstInv /\ TargetInv /\ KnownInv
  BY DEF Inv
<1>2. /\ rows' = rows /\ nextSeq' = nextSeq /\ cache' = cache /\ clock' = clock
      /\ archived' = archived /\ cursor' = cursor /\ live' = live
      /\ captured' = captured /\ deferred' = deferred /\ lost' = lost
      /\ frontier' = frontier /\ foreign' = foreign /\ first' = first
      /\ target' = target /\ compacting' = compacting /\ served' = served
      /\ nextOwn' = nextOwn /\ faults' = faults /\ logged' = logged
  BY DEF Gate, Begin, disk, ui, tab, apply, world
<1>3. /\ LogType' /\ KnowType' /\ FeedType' /\ UiType' /\ LogInv' /\ PassedInv'
      /\ KnownInv'
  BY <1>1, <1>2, Frame
<1>4. stage = "flush"
  BY DEF Gate
<1>5. mode = "download" /\ (compacting => Running)
  BY <1>1, <1>4 DEF StageInv, BootStages, ApplyStages
<1>6. CASE Pending # {}
  <2>1. stage' = "idle" /\ mode' = mode /\ work' = work /\ done' = done /\ failed' = failed
    BY <1>6 DEF Gate, apply
  <2>2. WorkType' /\ StageInv'
    BY <1>1, <1>2, <1>5, <2>1 DEF WorkType, StageInv, Running, Stages, BootStages, ApplyStages
  <2>3. WorkInv' /\ GateInv' /\ FirstInv' /\ TargetInv'
    BY <1>5, <2>1 DEF WorkInv, GateInv, FirstInv, TargetInv, ApplyStages
  <2> QED
    BY <1>3, <2>2, <2>3 DEF Inv
<1>7. CASE Pending = {} /\ Unfinished # {}
  <2>1. Begin("gate", Unfinished)
    BY <1>7 DEF Gate
  <2>2. /\ stage' = "effects" /\ mode' = "gate" /\ failed' = FALSE
        /\ work' \in Seq(1..(nextSeq' - 1)) /\ done' \in 0..Len(work') /\ WorkInv'
    BY <1>1, <1>2, <2>1, BeginOf
  <2>3. WorkType'
    BY <1>1, <1>2, <2>2 DEF WorkType, Stages, ApplyStages
  <2>4. StageInv'
    BY <1>2, <1>5, <2>2 DEF StageInv, Running, BootStages, ApplyStages
  <2>5. Pending' = Pending
    BY <1>2 DEF Pending
  <2>6. GateInv' /\ FirstInv' /\ TargetInv'
    BY <1>7, <2>2, <2>5 DEF GateInv, FirstInv, TargetInv
  <2> QED
    BY <1>3, <2>2, <2>3, <2>4, <2>6 DEF Inv
<1>8. CASE Pending = {} /\ Unfinished = {}
  <2>1. stage' = "fetched" /\ mode' = mode /\ work' = work /\ done' = done /\ failed' = failed
    BY <1>8 DEF Gate, apply
  <2>2. WorkType' /\ StageInv'
    BY <1>1, <1>2, <1>5, <2>1 DEF WorkType, StageInv, Running, Stages, BootStages, ApplyStages
  <2>3. Pending' = {} /\ Unfinished' = {}
    BY <1>2, <1>8 DEF Pending, Unfinished
  <2>4. WorkInv' /\ GateInv' /\ FirstInv' /\ TargetInv'
    BY <1>5, <2>1, <2>3 DEF WorkInv, GateInv, FirstInv, TargetInv, ApplyStages
  <2> QED
    BY <1>3, <2>2, <2>4 DEF Inv
<1> QED
  BY <1>6, <1>7, <1>8

LEMMA FirstPageInv == Inv /\ FirstPage => Inv'
<1> SUFFICES ASSUME Inv, FirstPage PROVE Inv'
  OBVIOUS
<1>1. /\ LogType /\ KnowType /\ FeedType /\ UiType /\ WorkType /\ LogInv /\ StageInv
      /\ WorkInv /\ GateInv /\ PassedInv /\ FirstInv /\ TargetInv /\ KnownInv
  BY DEF Inv
<1>2. /\ rows' = rows /\ nextSeq' = nextSeq /\ cache' = cache /\ clock' = clock
      /\ archived' = archived /\ cursor' = cursor /\ live' = live
      /\ captured' = captured /\ deferred' = deferred /\ lost' = lost
      /\ frontier' = frontier /\ foreign' = foreign /\ mode' = mode /\ target' = target
      /\ work' = work /\ done' = done /\ failed' = failed /\ compacting' = compacting
      /\ served' = served /\ nextOwn' = nextOwn /\ faults' = faults /\ logged' = logged
  BY DEF FirstPage, disk, ui, tab, apply, world
<1>3. /\ LogType' /\ KnowType' /\ UiType' /\ LogInv' /\ PassedInv' /\ KnownInv'
  BY <1>1, <1>2, Frame
<1>4. stage = "fetched" /\ stage' = "paging"
  BY DEF FirstPage, Go
<1>5. /\ served \in 0..Len(Feed) /\ cursor \in 0..served /\ Len(Feed) \in Nat
      /\ Feed \in Seq(Nat)
  BY <1>1, OpsAssumption DEF FeedType
<1>6. \/ first' = cursor + 1
      \/ first' \in (cursor + 1)..served /\ Feed[first'] \in Imports
  <2> DEFINE s == SubSeq(Feed, 1, served)
             l == LastImport(s)
  <2>1. s \in Seq(Nat) /\ Len(s) = served /\ \A i \in 1..served : s[i] = Feed[i]
    BY <1>5
  <2>2. first' = IF l > cursor THEN l ELSE cursor + 1
    BY DEF FirstPage
  <2> HIDE DEF s
  <2>3. l \in 0..Len(s) /\ (l # 0 => s[l] \in Imports)
    BY <2>1, LastImportOf
  <2> HIDE DEF l
  <2>4. CASE l > cursor
    <3>1. l # 0 /\ l \in 1..served
      BY <1>5, <2>1, <2>3, <2>4
    <3> QED
      BY <1>5, <2>1, <2>2, <2>3, <2>4, <3>1
  <2>5. CASE ~(l > cursor)
    BY <2>2, <2>5
  <2> QED
    BY <2>4, <2>5
<1>7. FeedType' /\ FirstInv'
  <2>1. first' \in 1..(Len(Feed) + 1)
    BY <1>5, <1>6
  <2> QED
    BY <1>1, <1>2, <1>4, <1>6, <2>1 DEF FeedType, FirstInv
<1>8. WorkType' /\ StageInv'
  BY <1>1, <1>2, <1>4 DEF WorkType, StageInv, Running, Stages, BootStages, ApplyStages
<1>9. WorkInv' /\ GateInv' /\ TargetInv'
  <2>1. Pending' = Pending /\ Unfinished' = Unfinished
    BY <1>2 DEF Pending, Unfinished
  <2> QED
    BY <1>1, <1>2, <1>4, <2>1 DEF WorkInv, GateInv, TargetInv, ApplyStages
<1> QED
  BY <1>3, <1>7, <1>8, <1>9 DEF Inv

\* With no row left over, what the log has of the feed is complete.
LEMMA IdsComplete ==
  ASSUME LogType, LogInv, Pending = {}, Unfinished = {}, NEW i \in DOMAIN Feed, Feed[i] \in Ids
  PROVE  Complete(i) /\ Feed[i] \in DOMAIN logged
<1>1. PICK s \in DOMAIN rows : rows[s].op = Feed[i]
  BY DEF Ids
<1>2. rows[s].op \in Remote /\ rows[s].op \in DOMAIN logged /\ rows[s].status # "local"
  BY <1>1 DEF Remote, LogInv
<1>3. rows[s].status \in Statuses
  BY DEF LogType, Row
<1>4. rows[s].rejected \/ rows[s].status = "applied"
  BY <1>2, <1>3 DEF Statuses, Pending, Unfinished
<1>5. rows[s].op \in Broken \/ rows[s].op \in archived
  BY <1>4 DEF LogInv
<1> QED
  BY <1>1, <1>2, <1>5 DEF Complete

\* A download up to n, of which D is to be applied: the rest of the feed up to n is complete.
LEMMA CoverOf ==
  ASSUME LogType, LogInv, PassedInv, Pending = {}, Unfinished = {},
         cursor \in Nat, first \in Nat \ {0}, NEW n \in 0..Len(Feed),
         first = cursor + 1 \/ (first \in (cursor + 1)..n /\ Feed[first] \in Imports),
         archived \subseteq archived', DOMAIN logged \subseteq DOMAIN logged',
         NEW D, D \subseteq DOMAIN logged',
         \A i \in 1..n, k \in 1..Len(News(n)) : News(n)[k] = Feed[i] =>
           Feed[i] \in D \/ (Complete(i) /\ Feed[i] \notin Imports)
  PROVE  \A i \in 1..n : Complete(i)' \/ Feed[i] \in D
<1>1. Len(Feed) \in Nat /\ DOMAIN Feed = 1..Len(Feed) /\ n \in Nat
  BY OpsAssumption
<1>2. \A i \in first..n : i \in 1..n /\ i \in DOMAIN Feed
  BY <1>1
<1>3. \A i : Complete(i) => Complete(i)'
  BY CompleteStays
<1>4. \A i \in first..n :
        \/ Feed[i] \in Ids
        \/ \E k \in 1..Len(News(n)) : News(n)[k] = Feed[i]
        \/ Feed[i] \notin Imports /\ \E j \in (i + 1)..n : Feed[j] \in Imports
  BY NewsOf
<1>5. \A i \in first..n : Feed[i] \in Ids => Complete(i) /\ Feed[i] \in DOMAIN logged
  BY <1>2, IdsComplete
<1>6. ASSUME NEW j \in first..n, Feed[j] \in Imports PROVE Feed[j] \in DOMAIN logged'
  <2>1. Feed[j] \in Ids \/ \E k \in 1..Len(News(n)) : News(n)[k] = Feed[j]
    BY <1>4, <1>6
  <2>2. j \in 1..n
    BY <1>2
  <2> QED
    BY <1>5, <1>6, <2>1, <2>2
<1>7. ASSUME NEW i \in 1..n, NEW j \in (i + 1)..n, j \in first..n, Feed[j] \in Imports
      PROVE  Complete(i)'
  <2>1. j \in (i + 1)..Len(Feed)
    BY <1>1
  <2>2. Feed[j] \in Imports \cap DOMAIN logged'
    BY <1>6, <1>7
  <2> QED
    BY <2>1, <2>2 DEF Complete, Buried
<1> SUFFICES ASSUME NEW i \in 1..n PROVE Complete(i)' \/ Feed[i] \in D
  OBVIOUS
<1>8. CASE i <= cursor
  <2>1. i \in 1..cursor
    BY <1>1, <1>8
  <2> QED
    BY <1>3, <2>1 DEF PassedInv
<1>9. CASE cursor < i /\ i < first
  <2>1. first \in (cursor + 1)..n /\ Feed[first] \in Imports
    BY <1>1, <1>9
  <2>2. first \in (i + 1)..n /\ first \in first..n
    BY <1>1, <1>9, <2>1
  <2> QED
    BY <1>7, <2>1, <2>2
<1>10. CASE first <= i
  <2>1. i \in first..n
    BY <1>1, <1>10
  <2>2. CASE Feed[i] \in Ids
    BY <1>3, <1>5, <2>1, <2>2
  <2>3. CASE \E k \in 1..Len(News(n)) : News(n)[k] = Feed[i]
    BY <1>3, <2>3
  <2>4. CASE \E j \in (i + 1)..n : Feed[j] \in Imports
    <3>1. PICK j \in (i + 1)..n : Feed[j] \in Imports
      BY <2>4
    <3>2. j \in first..n
      BY <1>1, <2>1
    <3> QED
      BY <1>7, <3>1, <3>2
  <2> QED
    BY <1>4, <2>1, <2>2, <2>3, <2>4
<1> QED
  BY <1>1, <1>8, <1>9, <1>10

LEMMA LastPageInv == Inv /\ LastPage => Inv'
<1> SUFFICES ASSUME Inv, LastPage PROVE Inv'
  OBVIOUS
<1>1. /\ LogType /\ KnowType /\ FeedType /\ UiType /\ WorkType /\ LogInv /\ StageInv
      /\ WorkInv /\ GateInv /\ PassedInv /\ FirstInv /\ TargetInv /\ KnownInv
  BY DEF Inv
<1>2. /\ rows' = rows /\ nextSeq' = nextSeq /\ cache' = cache /\ clock' = clock
      /\ archived' = archived /\ cursor' = cursor /\ live' = live
      /\ captured' = captured /\ deferred' = deferred /\ lost' = lost
      /\ frontier' = frontier /\ foreign' = foreign /\ mode' = mode /\ first' = first
      /\ work' = work /\ done' = done /\ failed' = failed /\ compacting' = compacting
      /\ served' = served /\ nextOwn' = nextOwn /\ faults' = faults /\ logged' = logged
  BY DEF LastPage, disk, ui, tab, apply, world
<1>3. /\ LogType' /\ KnowType' /\ UiType' /\ LogInv' /\ PassedInv' /\ KnownInv'
  BY <1>1, <1>2, Frame
<1>4. /\ stage = "paging" /\ target' = served
      /\ stage' = IF News(served) = <<>> THEN "advance" ELSE "flushed"
  BY DEF LastPage
<1>5. FeedType'
  BY <1>1, <1>2, <1>4 DEF FeedType
<1>6. FirstInv'
  BY <1>1, <1>2, <1>4 DEF FirstInv
<1>7. WorkType' /\ StageInv'
  BY <1>1, <1>2, <1>4 DEF WorkType, StageInv, Running, Stages, BootStages, ApplyStages
<1>8. WorkInv' /\ GateInv'
  <2>1. Pending' = Pending /\ Unfinished' = Unfinished
    BY <1>2 DEF Pending, Unfinished
  <2> QED
    BY <1>1, <1>2, <1>4, <2>1 DEF WorkInv, GateInv, ApplyStages
<1>9. TargetInv'
  <2>1. CASE News(served) = <<>>
    <3>1. Len(News(served)) = 0 /\ Len(Feed) \in Nat
      BY <2>1, OpsAssumption
    <3>2. Pending = {} /\ Unfinished = {}
      BY <1>1, <1>4 DEF GateInv
    <3>3. /\ served \in 0..Len(Feed) /\ cursor \in Nat /\ first \in Nat \ {0}
          /\ first = cursor + 1 \/ (first \in (cursor + 1)..served /\ Feed[first] \in Imports)
      BY <1>1, <1>4, <3>1 DEF FeedType, FirstInv
    <3>4. archived \subseteq archived' /\ DOMAIN logged \subseteq DOMAIN logged'
      BY <1>2
    <3> DEFINE D == {}
    <3>5. /\ D \subseteq DOMAIN logged'
          /\ \A i \in 1..served, k \in 1..Len(News(served)) : News(served)[k] = Feed[i] =>
               Feed[i] \in D \/ (Complete(i) /\ Feed[i] \notin Imports)
          /\ \A i : Feed[i] \notin D
      BY <3>1
    <3> HIDE DEF D
    <3>6. \A i \in 1..served : Complete(i)' \/ Feed[i] \in D
      BY <1>1, <3>2, <3>3, <3>4, <3>5, CoverOf
    <3>7. stage' = "advance" /\ target' = served
      BY <1>4, <2>1
    <3> QED
      BY <3>5, <3>6, <3>7 DEF TargetInv, ApplyStages
  <2>2. CASE News(served) # <<>>
    BY <1>4, <2>2 DEF TargetInv
  <2> QED
    BY <2>1, <2>2
<1> QED
  BY <1>3, <1>5, <1>6, <1>7, <1>8, <1>9 DEF Inv

-----------------------------------------------------------------------------
(* The batch becomes durable *)

\* New rows of remote operations that wait for their reducers.
LEMMA BatchOf ==
  ASSUME LogType, LogInv, Pending = {}, Unfinished = {}, NEW s, Fresh(s),
         Stored(s, "pending", TRUE), archived' = archived
  PROVE  /\ LogType' /\ LogInv' /\ nextSeq' = nextSeq + Len(s) /\ Ids \subseteq Ids'
         /\ Unfinished' = {} /\ Pending' = nextSeq..(nextSeq + Len(s) - 1)
         /\ \A i \in 1..Len(s) : rows'[nextSeq + i - 1].op = s[i]
         /\ DOMAIN logged' = DOMAIN logged \cup {s[i] : i \in 1..Len(s)}
<1>1. /\ s \in Seq(Remote) /\ \A i \in 1..Len(s) : s[i] \in Remote /\ s[i] \notin Ids
      /\ \A i, j \in 1..Len(s) : s[i] = s[j] => i = j
  BY DEF Fresh
<1>2. Remote \subseteq Op /\ "pending" \in Statuses /\ TRUE \in BOOLEAN
  BY DEF Op, Statuses
<1>3. s \in Seq(Op) /\ Len(s) \in Nat
  BY <1>1, <1>2, SeqGrows
<1>4. nextSeq \in Nat \ {0} /\ DOMAIN rows \subseteq 1..(nextSeq - 1)
  BY DEF LogType
<1> DEFINE new == nextSeq..(nextSeq + Len(s) - 1)
<1>5. /\ LogType' /\ nextSeq' = nextSeq + Len(s) /\ DOMAIN rows' = DOMAIN rows \cup new
      /\ \A n \in DOMAIN rows : rows'[n] = rows[n]
      /\ \A i \in 1..Len(s) :
           rows'[nextSeq + i - 1] = [op |-> s[i], status |-> "pending", synced |-> TRUE, rejected |-> FALSE]
      /\ DOMAIN logged' = DOMAIN logged \cup {s[i] : i \in 1..Len(s)}
  BY <1>2, <1>3, StoredOf
<1>6. ASSUME NEW n \in new
      PROVE  /\ n \notin DOMAIN rows
             /\ \E i \in 1..Len(s) : n = nextSeq + i - 1 /\ rows'[n].op = s[i]
             /\ rows'[n].status = "pending" /\ ~rows'[n].rejected
  <2>1. n - nextSeq + 1 \in 1..Len(s) /\ n = nextSeq + (n - nextSeq + 1) - 1
    BY <1>3, <1>4
  <2>2. n \notin DOMAIN rows
    BY <1>3, <1>4
  <2>3. rows'[n] = [op |-> s[n - nextSeq + 1], status |-> "pending", synced |-> TRUE, rejected |-> FALSE]
    BY <1>5, <2>1
  <2> QED
    BY <2>1, <2>2, <2>3
<1>7. \A i \in 1..Len(s) : nextSeq + i - 1 \in new
  BY <1>3, <1>4
<1> HIDE DEF new
<1>8. Pending' = new /\ Unfinished' = {}
  <2>1. \A n \in DOMAIN rows' : n \in DOMAIN rows \/ n \in new
    BY <1>5
  <2>2. \A n \in DOMAIN rows : n \notin Pending /\ n \notin Unfinished
    OBVIOUS
  <2>3. \A n \in new : n \in DOMAIN rows'
    BY <1>5
  <2> QED
    BY <1>5, <1>6, <2>1, <2>2, <2>3 DEF Pending, Unfinished
<1>9. Ids \subseteq Ids'
  BY <1>5 DEF Ids
<1>10. LogInv'
  <2>1. ASSUME NEW n \in DOMAIN rows'
        PROVE  /\ rows'[n].op \in DOMAIN logged'
               /\ rows'[n].op \in Remote <=> rows'[n].status # "local"
               /\ rows'[n].rejected => rows'[n].op \in Broken
               /\ rows'[n].status = "applied" => rows'[n].op \in archived'
    <3>1. CASE n \in DOMAIN rows
      BY <1>5, <3>1 DEF LogInv
    <3>2. CASE n \in new
      BY <1>1, <1>5, <1>6, <3>2
    <3> QED
      BY <1>5, <3>1, <3>2
  <2>2. ASSUME NEW n \in DOMAIN rows', NEW m \in DOMAIN rows',
               rows'[n].op \in Remote, rows'[n].op = rows'[m].op
        PROVE  n = m
    <3>1. CASE n \in DOMAIN rows /\ m \in DOMAIN rows
      BY <1>5, <2>2, <3>1 DEF LogInv
    <3>2. CASE n \in new /\ m \in new
      BY <1>1, <1>6, <2>2, <3>2
    <3>3. ASSUME NEW p \in DOMAIN rows, NEW q \in new PROVE rows'[p].op # rows'[q].op
      <4>1. rows'[p].op \in Ids
        BY <1>5 DEF Ids
      <4>2. rows'[q].op \notin Ids
        BY <1>1, <1>6
      <4> QED
        BY <4>1, <4>2
    <3> QED
      BY <1>5, <2>2, <3>1, <3>2, <3>3
  <2> QED
    BY <2>1, <2>2 DEF LogInv
<1>11. ASSUME NEW i \in 1..Len(s) PROVE rows'[nextSeq + i - 1].op = s[i]
  <2>1. rows'[nextSeq + i - 1] = [op |-> s[i], status |-> "pending", synced |-> TRUE, rejected |-> FALSE]
    BY <1>5
  <2> QED
    BY <2>1
<1> QED
  BY <1>5, <1>8, <1>9, <1>10, <1>11 DEF new

LEMMA StoreBatchInv == Inv /\ StoreBatch => Inv'
<1> SUFFICES ASSUME Inv, StoreBatch PROVE Inv'
  OBVIOUS
<1>1. /\ LogType /\ KnowType /\ FeedType /\ UiType /\ WorkType /\ LogInv /\ StageInv
      /\ WorkInv /\ GateInv /\ PassedInv /\ FirstInv /\ TargetInv /\ KnownInv
  BY DEF Inv
<1>2. /\ cache' = cache /\ clock' = clock /\ archived' = archived /\ cursor' = cursor
      /\ live' = live /\ captured' = captured /\ deferred' = deferred /\ lost' = lost
      /\ mode' = mode /\ first' = first /\ target' = target /\ compacting' = compacting
      /\ served' = served /\ nextOwn' = nextOwn /\ faults' = faults
  BY DEF StoreBatch, ui, world
<1>3. /\ FeedType' /\ UiType'
  BY <1>1, <1>2, Frame
<1>4. stage = "flushed" /\ done' = 0 /\ failed' = FALSE
  BY DEF StoreBatch
<1>5. mode = "download" /\ (compacting => Running)
  BY <1>1, <1>4 DEF StageInv, BootStages, ApplyStages
<1>6. Pending = {} /\ Unfinished = {}
  BY <1>1, <1>4 DEF GateInv
<1>7. /\ target \in 0..Len(Feed) /\ cursor \in Nat /\ first \in Nat \ {0}
      /\ first = cursor + 1 \/ (first \in (cursor + 1)..target /\ Feed[first] \in Imports)
      /\ Len(Feed) \in Nat /\ DOMAIN Feed = 1..Len(Feed)
  BY <1>1, <1>4, OpsAssumption DEF FeedType, FirstInv
<1>8. /\ Fresh(Applicable) /\ Fresh(News(target))
      /\ \A k \in 1..Len(News(target)) :
           \/ \E i \in 1..Len(Applicable) : Applicable[i] = News(target)[k]
           \/ News(target)[k] \in cache.clock /\ LastImport(News(target)) = 0
  BY <1>7, ApplicableOf, NewsOf
<1>9. \A i \in 1..target, k \in 1..Len(News(target)) : News(target)[k] = Feed[i] =>
        \/ Feed[i] \in {Applicable[j] : j \in 1..Len(Applicable)}
        \/ Complete(i) /\ Feed[i] \notin Imports
  <2> SUFFICES ASSUME NEW i \in 1..target, NEW k \in 1..Len(News(target)), News(target)[k] = Feed[i],
                      Feed[i] \in cache.clock, LastImport(News(target)) = 0
               PROVE  Complete(i) /\ Feed[i] \notin Imports
    BY <1>8
  <2>1. i \in DOMAIN Feed
    BY <1>7
  <2>2. Feed[i] \notin Ids /\ News(target) \in Seq(Remote)
    BY <1>8 DEF Fresh
  <2>3. Complete(i)
    BY <1>1, <2>1, <2>2 DEF KnownInv
  <2>4. News(target)[k] \in Imports => k <= 0
    BY <2>2, LastImportOf
  <2> QED
    BY <2>3, <2>4
<1>10. CASE Applicable = <<>>
  <2>1. /\ stage' = "advance" /\ rows' = rows /\ nextSeq' = nextSeq /\ logged' = logged
        /\ frontier' = frontier /\ foreign' = foreign /\ work' = work
    BY <1>10 DEF StoreBatch, tab
  <2>2. LogType' /\ KnowType' /\ LogInv' /\ PassedInv' /\ KnownInv'
    BY <1>1, <1>2, <2>1, Frame
  <2>3. 0 \in 0..Len(work)
    BY <1>1 DEF WorkType
  <2>4. WorkType' /\ StageInv'
    BY <1>1, <1>2, <1>4, <1>5, <2>1, <2>3 DEF WorkType, StageInv, Running, Stages, BootStages, ApplyStages
  <2>5. WorkInv' /\ GateInv' /\ FirstInv'
    BY <1>2, <1>5, <2>1 DEF WorkInv, GateInv, FirstInv, ApplyStages
  <2> DEFINE D == {Applicable[j] : j \in 1..Len(Applicable)}
  <2>6. \A i : Feed[i] \notin D
    <3>1. Len(Applicable) = 0
      BY <1>10
    <3> QED
      BY <3>1
  <2>7. /\ archived \subseteq archived' /\ DOMAIN logged \subseteq DOMAIN logged'
        /\ D \subseteq DOMAIN logged'
    <3>1. Len(Applicable) = 0
      BY <1>10
    <3> QED
      BY <1>2, <2>1, <3>1
  <2>8. \A i \in 1..target, k \in 1..Len(News(target)) : News(target)[k] = Feed[i] =>
          Feed[i] \in D \/ (Complete(i) /\ Feed[i] \notin Imports)
    BY <1>9
  <2> HIDE DEF D
  <2>9. \A i \in 1..target : Complete(i)' \/ Feed[i] \in D
    BY <1>1, <1>6, <1>7, <2>7, <2>8, CoverOf
  <2>10. TargetInv'
    BY <1>2, <2>1, <2>6, <2>9 DEF TargetInv, ApplyStages
  <2> QED
    BY <1>3, <2>2, <2>4, <2>5, <2>10 DEF Inv
<1>11. CASE Applicable # <<>>
  <2> DEFINE s == Applicable
             D == {s[j] : j \in 1..Len(s)}
  <2>1. /\ stage' = "stored" /\ Stored(s, "pending", TRUE) /\ Observe(nextSeq, Len(s))
        /\ work' = [i \in DOMAIN s |-> nextSeq + i - 1]
    BY <1>11 DEF StoreBatch
  <2>2. Fresh(s) /\ s # <<>> /\ s \in Seq(Remote)
    BY <1>8, <1>11 DEF Fresh
  <2>3. \A i \in 1..target, k \in 1..Len(News(target)) : News(target)[k] = Feed[i] =>
          Feed[i] \in D \/ (Complete(i) /\ Feed[i] \notin Imports)
    BY <1>9
  <2> HIDE DEF s
  <2>4. /\ LogType' /\ LogInv' /\ nextSeq' = nextSeq + Len(s) /\ Ids \subseteq Ids'
        /\ Unfinished' = {} /\ Pending' = nextSeq..(nextSeq + Len(s) - 1)
        /\ \A i \in 1..Len(s) : rows'[nextSeq + i - 1].op = s[i]
        /\ DOMAIN logged' = DOMAIN logged \cup D
    BY <1>1, <1>2, <1>6, <2>1, <2>2, BatchOf
  <2>5. Len(s) \in Nat \ {0} /\ DOMAIN s = 1..Len(s) /\ nextSeq \in Nat \ {0}
    BY <1>1, <2>2 DEF LogType
  <2>6. KnowType'
    <3>1. frontier' \in 0..(nextSeq' - 1) /\ foreign' \in BOOLEAN
      BY <1>1, <2>1, <2>4, <2>5, ObserveOf
    <3>2. cache.anchor < nextSeq'
      BY <1>1, <2>4, <2>5 DEF KnowType, Snapshot
    <3> QED
      BY <1>1, <1>2, <3>1, <3>2 DEF KnowType
  <2>7. /\ work' \in Seq(1..(nextSeq' - 1)) /\ Len(work') = Len(s)
        /\ \A i \in 1..Len(s) : work'[i] = nextSeq + i - 1
    <3>1. \A i \in 1..Len(s) : nextSeq + i - 1 \in 1..(nextSeq' - 1)
      BY <2>4, <2>5
    <3> QED
      BY <2>1, <2>5, <3>1
  <2>8. WorkType'
    <3>1. 0 \in 0..Len(work')
      BY <2>5, <2>7
    <3> QED
      BY <1>1, <1>2, <1>4, <2>1, <2>7, <3>1 DEF WorkType, Stages, ApplyStages
  <2>9. StageInv'
    <3>1. ~compacting
      BY DEF StoreBatch, LockFree
    <3> QED
      BY <1>2, <1>5, <2>1, <3>1 DEF StageInv, BootStages, ApplyStages
  <2>10. \A i \in 1..Len(s) : work'[i] \in Pending'
    <3>1. \A i \in 1..Len(s) : nextSeq + i - 1 \in nextSeq..(nextSeq + Len(s) - 1)
      BY <2>5
    <3> QED
      BY <2>4, <2>7, <3>1
  <2>11. WorkInv'
    BY <1>4, <2>1, <2>7, <2>10 DEF WorkInv
  <2>12. GateInv'
    <3>1. ASSUME NEW n \in Pending' PROVE \E i \in 1..Len(work') : work'[i] = n
      <4>1. n - nextSeq + 1 \in 1..Len(s) /\ nextSeq + (n - nextSeq + 1) - 1 = n
        BY <2>4, <2>5
      <4> QED
        BY <2>7, <4>1
    <3> QED
      BY <1>2, <1>5, <2>1, <2>4, <3>1 DEF GateInv
  <2>13. /\ archived \subseteq archived' /\ DOMAIN logged \subseteq DOMAIN logged'
         /\ D \subseteq DOMAIN logged'
    BY <1>2, <2>4
  <2> HIDE DEF D
  <2>14. \A i \in 1..target : Complete(i)' \/ Feed[i] \in D
    BY <1>1, <1>6, <1>7, <2>3, <2>13, CoverOf
  <2>15. \A i : Complete(i) => Complete(i)'
    BY <2>13, CompleteStays
  <2>16. PassedInv' /\ FirstInv'
    BY <1>1, <1>2, <2>1, <2>15 DEF PassedInv, FirstInv
  <2>17. TargetInv'
    <3>1. ASSUME NEW i \in 1..target, Feed[i] \in D
          PROVE  \E k \in 1..Len(work') : rows'[work'[k]].op = Feed[i]
      <4>1. PICK j \in 1..Len(s) : s[j] = Feed[i]
        BY <3>1 DEF D
      <4>2. rows'[work'[j]].op = Feed[i]
        BY <2>4, <2>7, <4>1
      <4> QED
        BY <2>7, <4>2
    <3>2. done' + 1 = 1
      BY <1>4
    <3> QED
      BY <1>2, <2>1, <2>14, <3>1, <3>2 DEF TargetInv
  <2>18. KnownInv'
    BY <1>1, <1>2, <2>4, <2>13, KnownStays
  <2> QED
    BY <1>3, <2>4, <2>6, <2>8, <2>9, <2>11, <2>12, <2>16, <2>17, <2>18 DEF Inv
<1> QED
  BY <1>10, <1>11

-----------------------------------------------------------------------------
(* The stages of an apply *)

LEMMA MergeClocksInv == Inv /\ MergeClocks => Inv'
<1> SUFFICES ASSUME Inv, MergeClocks PROVE Inv'
  OBVIOUS
<1>1. /\ LogType /\ KnowType /\ FeedType /\ UiType /\ WorkType /\ LogInv /\ StageInv
      /\ WorkInv /\ GateInv /\ PassedInv /\ FirstInv /\ TargetInv /\ KnownInv
  BY DEF Inv
<1>2. /\ rows' = rows /\ nextSeq' = nextSeq /\ cache' = cache /\ archived' = archived
      /\ cursor' = cursor /\ live' = live /\ captured' = captured
      /\ deferred' = deferred /\ lost' = lost /\ frontier' = frontier
      /\ foreign' = foreign /\ mode' = mode /\ first' = first /\ target' = target
      /\ work' = work /\ done' = done /\ failed' = failed /\ compacting' = compacting
      /\ served' = served /\ nextOwn' = nextOwn /\ faults' = faults /\ logged' = logged
  BY DEF MergeClocks, disk, ui, tab, apply, world
<1>3. /\ LogType' /\ FeedType' /\ UiType' /\ LogInv' /\ PassedInv'
  BY <1>1, <1>2, Frame
<1>4. /\ stage = "stored" /\ stage' = "informed" /\ clock' = Merge(clock, OpsAt(work))
  BY DEF MergeClocks, Go
<1>5. mode = "download"
  BY <1>1, <1>4 DEF StageInv
<1>6. clock' \subseteq Op /\ \A o \in clock' : o \in clock \/ o \in Ids
  <2>1. \A i \in 1..Len(work) : work[i] \in DOMAIN rows
    BY <1>1, <1>4 DEF WorkInv, Pending
  <2>2. work \in Seq(Nat)
    <3>1. 1..(nextSeq - 1) \subseteq Nat
      OBVIOUS
    <3>2. work \in Seq(1..(nextSeq - 1))
      BY <1>1 DEF WorkType
    <3> QED
      BY <3>1, <3>2, SeqGrows, Zenon
  <2>3. OpsAt(work) \in Seq(Ids) /\ clock \subseteq Op
    BY <1>1, <2>1, <2>2, OpsAtOf DEF KnowType
  <2>4. /\ Merge(clock, OpsAt(work)) \subseteq Op
        /\ \A o \in Merge(clock, OpsAt(work)) : o \in clock \/ o \in Ids
    BY <1>1, <2>3, MergeOfLog
  <2> QED
    BY <1>4, <2>4
<1>7. KnowType'
  BY <1>1, <1>2, <1>6 DEF KnowType
<1>8. WorkType' /\ StageInv'
  BY <1>1, <1>2, <1>4, <1>5 DEF WorkType, StageInv, Running, Stages, BootStages, ApplyStages
<1>9. WorkInv' /\ GateInv' /\ FirstInv' /\ TargetInv'
  <2>1. Pending' = Pending /\ Unfinished' = Unfinished
    BY <1>2 DEF Pending, Unfinished
  <2>2. \A i : Complete(i) => Complete(i)'
    BY <1>2, CompleteStays
  <2> QED
    BY <1>1, <1>2, <1>4, <1>5, <2>1, <2>2 DEF WorkInv, GateInv, FirstInv, TargetInv, ApplyStages
<1>10. KnownInv'
  <2>1. Ids' = Ids
    BY <1>2 DEF Ids
  <2> QED
    BY <1>1, <1>2, <1>6, <2>1, KnownStays
<1> QED
  BY <1>3, <1>7, <1>8, <1>9, <1>10 DEF Inv

LEMMA RunReducersInv == Inv /\ RunReducers => Inv'
<1> SUFFICES ASSUME Inv, RunReducers PROVE Inv'
  OBVIOUS
<1>1. /\ LogType /\ KnowType /\ FeedType /\ UiType /\ WorkType /\ LogInv /\ StageInv
      /\ WorkInv /\ GateInv /\ PassedInv /\ FirstInv /\ TargetInv /\ KnownInv
  BY DEF Inv
<1>2. /\ rows' = rows /\ nextSeq' = nextSeq /\ cache' = cache /\ clock' = clock
      /\ archived' = archived /\ cursor' = cursor /\ captured' = captured
      /\ deferred' = deferred /\ lost' = lost /\ frontier' = frontier
      /\ foreign' = foreign /\ mode' = mode /\ first' = first /\ target' = target
      /\ work' = work /\ done' = done /\ failed' = failed /\ compacting' = compacting
      /\ served' = served /\ nextOwn' = nextOwn /\ faults' = faults /\ logged' = logged
  BY DEF RunReducers, disk, ui, tab, apply, world
<1>3. /\ LogType' /\ KnowType' /\ FeedType' /\ LogInv' /\ PassedInv' /\ KnownInv'
  BY <1>1, <1>2, Frame
<1>4. /\ stage = "informed" /\ stage' = "reduced" /\ live' = Reduce(live, OpsAt(work))
  BY DEF RunReducers, Go
<1>5. mode = "download"
  BY <1>1, <1>4 DEF StageInv
<1>6. UiType'
  <2>1. \A i \in 1..Len(work) : work[i] \in DOMAIN rows
    BY <1>1, <1>4 DEF WorkInv, Pending
  <2>2. work \in Seq(Nat)
    <3>1. 1..(nextSeq - 1) \subseteq Nat
      OBVIOUS
    <3>2. work \in Seq(1..(nextSeq - 1))
      BY <1>1 DEF WorkType
    <3> QED
      BY <3>1, <3>2, SeqGrows, Zenon
  <2>3. OpsAt(work) \in Seq(Ids) /\ live \in [Op -> Nat]
    BY <1>1, <2>1, <2>2, OpsAtOf DEF UiType
  <2>4. live' \in [Op -> Nat]
    BY <1>4, <2>3, ReduceType
  <2> QED
    BY <1>1, <1>2, <2>4 DEF UiType
<1>7. WorkType' /\ StageInv'
  BY <1>1, <1>2, <1>4, <1>5 DEF WorkType, StageInv, Running, Stages, BootStages, ApplyStages
<1>8. WorkInv' /\ GateInv' /\ FirstInv' /\ TargetInv'
  <2>1. Pending' = Pending /\ Unfinished' = Unfinished
    BY <1>2 DEF Pending, Unfinished
  <2>2. \A i : Complete(i) => Complete(i)'
    BY <1>2, CompleteStays
  <2> QED
    BY <1>1, <1>2, <1>4, <1>5, <2>1, <2>2 DEF WorkInv, GateInv, FirstInv, TargetInv, ApplyStages
<1> QED
  BY <1>3, <1>6, <1>7, <1>8 DEF Inv

LEMMA CommitReducersInv == Inv /\ CommitReducers => Inv'
<1> SUFFICES ASSUME Inv, CommitReducers PROVE Inv'
  OBVIOUS
<1>1. /\ LogType /\ KnowType /\ FeedType /\ UiType /\ WorkType /\ LogInv /\ StageInv
      /\ WorkInv /\ GateInv /\ PassedInv /\ FirstInv /\ TargetInv /\ KnownInv
  BY DEF Inv
<1>2. /\ nextSeq' = nextSeq /\ cache' = cache /\ archived' = archived
      /\ cursor' = cursor /\ live' = live /\ captured' = captured
      /\ deferred' = deferred /\ lost' = lost /\ frontier' = frontier
      /\ foreign' = foreign /\ mode' = mode /\ first' = first /\ target' = target
      /\ done' = done /\ failed' = failed /\ compacting' = compacting
      /\ served' = served /\ nextOwn' = nextOwn /\ faults' = faults /\ logged' = logged
  BY DEF CommitReducers, disk, ui, tab, apply, world
<1>3. /\ FeedType' /\ UiType'
  BY <1>1, <1>2, Frame
<1>4. /\ stage = "reduced" /\ stage' = "effects"
      /\ Checkpoint({work[i] : i \in DOMAIN work})
      /\ work' = Kept(work, {s \in DOMAIN rows : rows[s].op \notin Broken})
  BY DEF CommitReducers, Go
<1>5. /\ mode = "download" /\ done = 0 /\ ~failed /\ ~compacting /\ clock \subseteq Op
      /\ \A i \in 1..Len(work) : work[i] \in Pending
  BY <1>1, <1>4 DEF StageInv, WorkInv, KnowType, ApplyStages
<1>6. /\ work \in Seq(1..(nextSeq - 1)) /\ DOMAIN work = 1..Len(work) /\ Len(work) \in Nat
  BY <1>1 DEF WorkType
<1>7. PICK S \in SUBSET Pending : S = {work[i] : i \in DOMAIN work}
  BY <1>5, <1>6
<1>8. /\ LogType' /\ LogInv' /\ DOMAIN rows' = DOMAIN rows /\ Ids' = Ids
      /\ \A s \in DOMAIN rows : rows'[s].op = rows[s].op
      /\ \A s \in DOMAIN rows \ S : rows'[s] = rows[s]
      /\ \A s \in S : IF rows[s].op \in Broken THEN rows'[s].rejected
                      ELSE rows'[s].status = "archive_pending" /\ ~rows'[s].rejected
      /\ clock' \subseteq Op /\ \A o \in clock' : o \in clock \/ o \in Ids
  BY <1>1, <1>2, <1>4, <1>5, <1>7, CheckpointOf
<1>9. \A s : s \in S <=> \E i \in 1..Len(work) : work[i] = s
  BY <1>6, <1>7
<1>10. /\ work' \in Seq(1..(nextSeq - 1))
       /\ \A k \in 1..Len(work') : work'[k] \in S /\ rows[work'[k]].op \notin Broken
       /\ \A s \in S : rows[s].op \notin Broken => \E k \in 1..Len(work') : work'[k] = s
  <2> DEFINE T == {s \in DOMAIN rows : rows[s].op \notin Broken}
  <2>1. KeepsOf(work', work, 1..(nextSeq - 1), T, Len(work))
    BY <1>4, <1>6, KeptOf
  <2>2. \A s \in S : s \in DOMAIN rows
    BY DEF Pending
  <2> QED
    BY <1>9, <2>1, <2>2 DEF KeepsOf
<1>11. LogType' /\ LogInv'
  BY <1>8
<1>12. KnowType'
  BY <1>1, <1>2, <1>8 DEF KnowType
<1>13. WorkType' /\ StageInv'
  <2>1. 0 \in 0..Len(work')
    BY <1>10
  <2> QED
    BY <1>1, <1>2, <1>4, <1>5, <1>10, <2>1 DEF WorkType, StageInv, Stages, BootStages, ApplyStages
<1>14. WorkInv'
  <2>1. \A s \in S : rows[s].op \notin Broken => s \in Unfinished'
    BY <1>8 DEF Pending, Unfinished
  <2>2. \A k \in 1..Len(work') : work'[k] \in Unfinished'
    BY <1>10, <2>1
  <2>3. \A k \in 1..done' : FALSE
    BY <1>2, <1>5
  <2> QED
    BY <1>2, <1>4, <1>5, <2>2, <2>3 DEF WorkInv
<1>15. GateInv'
  <2> SUFFICES ASSUME NEW s \in (Pending \cup Unfinished)'
               PROVE  \E k \in 1..Len(work') : work'[k] = s
    BY <1>2, <1>4, <1>5 DEF GateInv
  <2>1. s \in DOMAIN rows /\ ~rows'[s].rejected
    BY <1>8 DEF Pending, Unfinished
  <2>2. CASE s \in S
    <3>1. rows[s].op \notin Broken
      BY <1>8, <2>1, <2>2
    <3> QED
      BY <1>10, <2>2, <3>1
  <2>3. CASE s \notin S
    <3>1. s \in Pending \cup Unfinished
      BY <1>8, <2>1, <2>3 DEF Pending, Unfinished
    <3>2. \E i \in 1..Len(work) : work[i] = s
      BY <1>1, <1>4, <1>5, <3>1 DEF GateInv, ApplyStages
    <3> QED
      BY <1>9, <2>3, <3>2
  <2> QED
    BY <2>2, <2>3
<1>16. PassedInv' /\ FirstInv' /\ TargetInv'
  <2>1. \A i : Complete(i) => Complete(i)'
    BY <1>2, CompleteStays
  <2>2. ASSUME NEW i \in 1..target
        PROVE  Complete(i)' \/ \E k \in (done' + 1)..Len(work') : rows'[work'[k]].op = Feed[i]
    <3>1. CASE Complete(i)
      BY <2>1, <3>1
    <3>2. CASE ~Complete(i)
      <4>1. PICK k \in (done + 1)..Len(work) : rows[work[k]].op = Feed[i]
        BY <1>1, <1>4, <1>5, <3>2 DEF TargetInv
      <4>2. work[k] \in S /\ rows[work[k]].op \notin Broken
        BY <1>5, <1>6, <1>9, <3>2, <4>1 DEF Complete
      <4>3. PICK l \in 1..Len(work') : work'[l] = work[k]
        BY <1>10, <4>2
      <4>4. work[k] \in DOMAIN rows
        BY <4>2 DEF Pending
      <4>5. rows'[work'[l]].op = Feed[i] /\ l \in (done' + 1)..Len(work')
        BY <1>2, <1>5, <1>8, <4>1, <4>3, <4>4
      <4> QED
        BY <4>5
    <3> QED
      BY <3>1, <3>2
  <2> QED
    BY <1>1, <1>2, <1>4, <2>1, <2>2 DEF PassedInv, FirstInv, TargetInv
<1>17. KnownInv'
  BY <1>1, <1>2, <1>8, KnownStays
<1> QED
  BY <1>3, <1>11, <1>12, <1>13, <1>14, <1>15, <1>16, <1>17 DEF Inv

LEMMA ThrowInv == Inv /\ Throw => Inv'
<1> SUFFICES ASSUME Inv, Throw PROVE Inv'
  OBVIOUS
<1>1. /\ LogType /\ KnowType /\ FeedType /\ UiType /\ WorkType /\ LogInv /\ StageInv
      /\ WorkInv /\ GateInv /\ PassedInv /\ FirstInv /\ TargetInv /\ KnownInv
  BY DEF Inv
<1>2. /\ rows' = rows /\ nextSeq' = nextSeq /\ cache' = cache /\ clock' = clock
      /\ archived' = archived /\ cursor' = cursor /\ live' = live
      /\ captured' = captured /\ deferred' = deferred /\ lost' = lost
      /\ frontier' = frontier /\ foreign' = foreign /\ mode' = mode /\ first' = first
      /\ target' = target /\ work' = work /\ done' = done /\ compacting' = compacting
      /\ served' = served /\ nextOwn' = nextOwn /\ logged' = logged
  BY DEF Throw, disk, ui, tab, apply, world
<1>3. /\ LogType' /\ KnowType' /\ FeedType' /\ LogInv' /\ PassedInv' /\ KnownInv'
  BY <1>1, <1>2, Frame
<1>4. /\ mode = "download" /\ stage \in ApplyStages /\ stage' = "drain" /\ failed' = TRUE
  BY DEF Throw
<1>5. ~compacting
  BY <1>1, <1>4 DEF StageInv
<1>6. UiType'
  <2>1. faults' \in 0..MaxFaults
    BY <1>1, BoundAssumption DEF UiType, Throw
  <2> QED
    BY <1>1, <1>2, <2>1 DEF UiType
<1>7. WorkType'
  <2>1. failed' \in BOOLEAN
    BY <1>4
  <2> QED
    BY <1>1, <1>2, <1>4, <2>1 DEF WorkType, Stages, ApplyStages
<1>8. StageInv' /\ WorkInv' /\ GateInv' /\ FirstInv' /\ TargetInv'
  BY <1>2, <1>4, <1>5 DEF StageInv, WorkInv, GateInv, FirstInv, TargetInv, BootStages, ApplyStages
<1> QED
  BY <1>3, <1>6, <1>7, <1>8 DEF Inv

LEMMA FailEffectInv == Inv /\ FailEffect => Inv'
<1> SUFFICES ASSUME Inv, FailEffect PROVE Inv'
  OBVIOUS
<1>1. /\ LogType /\ KnowType /\ FeedType /\ UiType /\ WorkType /\ LogInv /\ StageInv
      /\ WorkInv /\ GateInv /\ PassedInv /\ FirstInv /\ TargetInv /\ KnownInv
  BY DEF Inv
<1>2. /\ rows' = rows /\ nextSeq' = nextSeq /\ cache' = cache /\ clock' = clock
      /\ archived' = archived /\ cursor' = cursor /\ live' = live
      /\ captured' = captured /\ deferred' = deferred /\ lost' = lost
      /\ frontier' = frontier /\ foreign' = foreign /\ stage' = stage /\ mode' = mode
      /\ first' = first /\ target' = target /\ work' = work /\ done' = done
      /\ compacting' = compacting /\ served' = served /\ nextOwn' = nextOwn
      /\ logged' = logged
  BY DEF FailEffect, disk, ui, tab, apply, world
<1>3. /\ LogType' /\ KnowType' /\ FeedType' /\ LogInv' /\ StageInv' /\ GateInv'
      /\ PassedInv' /\ FirstInv' /\ KnownInv'
  BY <1>1, <1>2, Frame
<1>4. stage = "effects" /\ failed' = TRUE /\ done < Len(work)
  BY DEF FailEffect
<1>5. UiType'
  <2>1. faults' \in 0..MaxFaults
    BY <1>1, BoundAssumption DEF UiType, FailEffect
  <2> QED
    BY <1>1, <1>2, <2>1 DEF UiType
<1>6. WorkType'
  <2>1. failed' \in BOOLEAN
    BY <1>4
  <2> QED
    BY <1>1, <1>2, <2>1 DEF WorkType
<1>7. WorkInv' /\ TargetInv'
  <2>1. Unfinished' = Unfinished
    BY <1>2 DEF Unfinished
  <2> QED
    BY <1>1, <1>2, <1>4, <2>1 DEF WorkInv, TargetInv
<1> QED
  BY <1>3, <1>5, <1>6, <1>7 DEF Inv

LEMMA RunEffectInv == Inv /\ RunEffect => Inv'
<1> SUFFICES ASSUME Inv, RunEffect PROVE Inv'
  OBVIOUS
<1>1. /\ LogType /\ KnowType /\ FeedType /\ UiType /\ WorkType /\ LogInv /\ StageInv
      /\ WorkInv /\ GateInv /\ PassedInv /\ FirstInv /\ TargetInv /\ KnownInv
  BY DEF Inv
<1>2. /\ rows' = rows /\ nextSeq' = nextSeq /\ cache' = cache /\ clock' = clock
      /\ cursor' = cursor /\ live' = live /\ captured' = captured
      /\ deferred' = deferred /\ lost' = lost /\ frontier' = frontier
      /\ foreign' = foreign /\ stage' = stage /\ mode' = mode /\ first' = first
      /\ target' = target /\ work' = work /\ failed' = failed
      /\ compacting' = compacting /\ served' = served /\ nextOwn' = nextOwn
      /\ faults' = faults /\ logged' = logged
  BY DEF RunEffect, disk, ui, tab, apply, world
<1>3. /\ LogType' /\ FeedType' /\ UiType' /\ StageInv' /\ GateInv' /\ FirstInv'
  BY <1>1, <1>2, Frame
<1>4. /\ stage = "effects" /\ ~failed /\ done < Len(work) /\ done' = done + 1
      /\ archived' = archived \cup {rows[work[done + 1]].op}
  BY DEF RunEffect
<1>5. done \in Nat /\ Len(work) \in Nat /\ done' \in 0..Len(work) /\ done + 1 \in 1..Len(work)
  BY <1>1, <1>4 DEF WorkType
<1>6. rows[work[done + 1]].op \in Remote
  <2>1. work[done + 1] \in Unfinished
    BY <1>1, <1>4, <1>5 DEF WorkInv
  <2> QED
    BY <1>1, <2>1 DEF Unfinished, LogInv
<1>7. KnowType'
  BY <1>1, <1>2, <1>4, <1>6 DEF KnowType
<1>8. WorkType'
  BY <1>1, <1>2, <1>5 DEF WorkType
<1>9. LogInv'
  <2>1. archived \subseteq archived'
    BY <1>4
  <2> QED
    BY <1>1, <1>2, <2>1 DEF LogInv
<1>10. WorkInv'
  <2>1. Unfinished' = Unfinished
    BY <1>2 DEF Unfinished
  <2>2. \A i \in 1..done' : i \in 1..done \/ i = done + 1
    BY <1>4, <1>5
  <2>3. \A i \in 1..done' : rows[work[i]].op \in archived'
    BY <1>1, <1>4, <2>2 DEF WorkInv
  <2> QED
    BY <1>1, <1>2, <1>4, <2>1, <2>3 DEF WorkInv
<1>11. \A i : Complete(i) => Complete(i)'
  <2>1. archived \subseteq archived' /\ DOMAIN logged \subseteq DOMAIN logged'
    BY <1>2, <1>4
  <2> QED
    BY <2>1, CompleteStays
<1>12. PassedInv'
  BY <1>1, <1>2, <1>11 DEF PassedInv
<1>13. TargetInv'
  <2>1. ASSUME mode = "download", NEW i \in 1..target
        PROVE  Complete(i)' \/ \E k \in (done' + 1)..Len(work) : rows[work[k]].op = Feed[i]
    <3>1. CASE Complete(i)
      BY <1>11, <3>1
    <3>2. CASE ~Complete(i)
      <4>1. PICK k \in (done + 1)..Len(work) : rows[work[k]].op = Feed[i]
        BY <1>1, <1>4, <2>1, <3>2 DEF TargetInv
      <4>2. k = done + 1 => Feed[i] \in archived'
        BY <1>4, <4>1
      <4>3. k # done + 1 => k \in (done' + 1)..Len(work)
        BY <1>4, <1>5, <4>1
      <4> QED
        BY <4>1, <4>2, <4>3 DEF Complete
    <3> QED
      BY <3>1, <3>2
  <2> QED
    BY <1>2, <1>4, <2>1 DEF TargetInv
<1>14. KnownInv'
  <2>1. Ids' = Ids /\ archived \subseteq archived' /\ DOMAIN logged \subseteq DOMAIN logged'
    BY <1>2, <1>4 DEF Ids
  <2> QED
    BY <1>1, <1>2, <2>1, KnownStays
<1> QED
  BY <1>3, <1>7, <1>8, <1>9, <1>10, <1>12, <1>13, <1>14 DEF Inv

LEMMA EndEffectsInv == Inv /\ EndEffects => Inv'
<1> SUFFICES ASSUME Inv, EndEffects PROVE Inv'
  OBVIOUS
<1>1. /\ LogType /\ KnowType /\ FeedType /\ UiType /\ WorkType /\ LogInv /\ StageInv
      /\ WorkInv /\ GateInv /\ PassedInv /\ FirstInv /\ TargetInv /\ KnownInv
  BY DEF Inv
<1>2. /\ rows' = rows /\ nextSeq' = nextSeq /\ cache' = cache /\ archived' = archived
      /\ cursor' = cursor /\ live' = live /\ captured' = captured
      /\ deferred' = deferred /\ lost' = lost /\ frontier' = frontier
      /\ foreign' = foreign /\ mode' = mode /\ first' = first /\ target' = target
      /\ work' = work /\ done' = done /\ failed' = failed /\ compacting' = compacting
      /\ served' = served /\ nextOwn' = nextOwn /\ faults' = faults /\ logged' = logged
  BY DEF EndEffects, disk, ui, tab, apply, world
<1>3. /\ LogType' /\ FeedType' /\ UiType' /\ LogInv' /\ PassedInv'
  BY <1>1, <1>2, Frame
<1>4. /\ stage = "effects" /\ stage' = "mark" /\ (failed \/ done = Len(work))
      /\ clock' = clock \/ clock' = Merge(clock, OpsAt(SubSeq(work, 1, done)))
  BY DEF EndEffects, Go
<1>5. /\ work \in Seq(1..(nextSeq - 1)) /\ Len(work) \in Nat /\ done \in 0..Len(work)
      /\ nextSeq \in Nat
  BY <1>1 DEF WorkType, LogType
<1>6. clock' \subseteq Op /\ \A o \in clock' : o \in clock \/ o \in Ids
  <2> DEFINE w == SubSeq(work, 1, done)
  <2>1. \A i \in 1..Len(work) : work[i] \in DOMAIN rows
    BY <1>1, <1>4 DEF WorkInv, Unfinished
  <2>2. work \in Seq(Nat)
    <3>1. 1..(nextSeq - 1) \subseteq Nat
      OBVIOUS
    <3> QED
      BY <1>5, <3>1, SeqGrows, Zenon
  <2>3. w \in Seq(Nat) /\ \A i \in 1..Len(w) : w[i] \in DOMAIN rows
    <3>1. w \in Seq(Nat) /\ Len(w) = done /\ \A i \in 1..done : w[i] = work[i]
      BY <1>5, <2>2
    <3> QED
      BY <1>5, <2>1, <3>1
  <2> HIDE DEF w
  <2>4. OpsAt(w) \in Seq(Ids) /\ clock \subseteq Op
    BY <1>1, <2>3, OpsAtOf DEF KnowType
  <2>5. Merge(clock, OpsAt(w)) \subseteq Op /\ \A o \in Merge(clock, OpsAt(w)) : o \in clock \/ o \in Ids
    BY <1>1, <2>4, MergeOfLog
  <2> QED
    BY <1>4, <2>4, <2>5 DEF w
<1>7. KnowType'
  BY <1>1, <1>2, <1>6 DEF KnowType
<1>8. WorkType' /\ StageInv'
  BY <1>1, <1>2, <1>4 DEF WorkType, StageInv, Running, Stages, BootStages, ApplyStages
<1>9. WorkInv' /\ GateInv' /\ FirstInv'
  <2>1. Pending' = Pending /\ Unfinished' = Unfinished
    BY <1>2 DEF Pending, Unfinished
  <2> QED
    BY <1>1, <1>2, <1>4, <2>1 DEF WorkInv, GateInv, FirstInv, ApplyStages
<1>10. TargetInv'
  <2>1. \A i : Complete(i) => Complete(i)'
    BY <1>2, CompleteStays
  <2>2. ~failed => (done + 1)..Len(work) = {}
    BY <1>4, <1>5
  <2> QED
    BY <1>1, <1>2, <1>4, <2>1, <2>2 DEF TargetInv
<1>11. KnownInv'
  <2>1. Ids' = Ids
    BY <1>2 DEF Ids
  <2> QED
    BY <1>1, <1>2, <1>6, <2>1, KnownStays
<1> QED
  BY <1>3, <1>7, <1>8, <1>9, <1>10, <1>11 DEF Inv

\* A remote row that waits for nothing is refused or has its archive work.
LEMMA RowComplete ==
  ASSUME LogType, LogInv, NEW s \in DOMAIN rows, rows[s].op \in Remote, s \notin Pending \cup Unfinished
  PROVE  rows[s].op \in Broken \/ rows[s].op \in archived
<1>1. rows[s].status \in Statuses /\ rows[s].status # "local"
  BY DEF LogType, Row, LogInv
<1>2. rows[s].rejected \/ rows[s].status = "applied"
  BY <1>1 DEF Statuses, Pending, Unfinished
<1> QED
  BY <1>2 DEF LogInv

\* Rows of remote operations get the outcome of their archive work.
LEMMA MarkedOf ==
  ASSUME LogType, LogInv, NEW S, NEW st \in {"applied", "failed"}, rows' = Marked(S, st),
         \A s \in S : s \in DOMAIN rows =>
           rows[s].op \in Remote /\ (st = "applied" => rows[s].op \in archived),
         nextSeq' = nextSeq, logged' = logged, archived' = archived
  PROVE  /\ LogType' /\ LogInv' /\ Ids' = Ids /\ DOMAIN rows' = DOMAIN rows
         /\ \A s \in DOMAIN rows : rows'[s].op = rows[s].op
         /\ Pending' \subseteq Pending
         /\ st = "applied" => Unfinished' \subseteq Unfinished
<1>1. /\ rows \in [DOMAIN rows -> Row] /\ DOMAIN rows \subseteq 1..(nextSeq - 1)
      /\ \A s \in DOMAIN rows : rows[s] \in Row
  BY DEF LogType
<1>2. /\ DOMAIN rows' = DOMAIN rows /\ rows' = [s \in DOMAIN rows |-> rows'[s]]
      /\ \A s \in DOMAIN rows \ S : rows'[s] = rows[s]
      /\ \A s \in DOMAIN rows \cap S : rows'[s] = [rows[s] EXCEPT !.status = st]
  BY DEF Marked
<1>3. ASSUME NEW s \in DOMAIN rows \cap S
      PROVE  /\ rows'[s] \in Row /\ rows'[s].op = rows[s].op /\ rows'[s].status = st
             /\ rows'[s].rejected = rows[s].rejected
  <2>1. rows[s] \in Row /\ rows'[s] = [rows[s] EXCEPT !.status = st]
    BY <1>1, <1>2
  <2> QED
    BY <2>1 DEF Row, Statuses
<1>4. LogType'
  <2>1. ASSUME NEW s \in DOMAIN rows PROVE rows'[s] \in Row
    <3>1. CASE s \in S
      BY <1>3, <3>1
    <3>2. CASE s \notin S
      BY <1>1, <1>2, <3>2
    <3> QED
      BY <3>1, <3>2
  <2>2. rows' \in [DOMAIN rows' -> Row]
    BY <1>2, <2>1
  <2> QED
    BY <1>2, <2>2 DEF LogType
<1>5. \A s \in DOMAIN rows : rows'[s].op = rows[s].op
  BY <1>2, <1>3
<1>6. LogInv'
  <2>1. ASSUME NEW s \in DOMAIN rows
        PROVE  /\ rows'[s].op \in DOMAIN logged'
               /\ rows'[s].op \in Remote <=> rows'[s].status # "local"
               /\ rows'[s].rejected => rows'[s].op \in Broken
               /\ rows'[s].status = "applied" => rows'[s].op \in archived'
    <3>1. CASE s \in S
      BY <1>3, <3>1 DEF LogInv
    <3>2. CASE s \notin S
      BY <1>2, <3>2 DEF LogInv
    <3> QED
      BY <3>1, <3>2
  <2> QED
    BY <1>2, <1>5, <2>1 DEF LogInv
<1>7. Ids' = Ids
  BY <1>2, <1>5 DEF Ids
<1>8. Pending' \subseteq Pending /\ (st = "applied" => Unfinished' \subseteq Unfinished)
  <2>1. ASSUME NEW s \in DOMAIN rows
        PROVE  /\ s \in Pending' => s \in Pending
               /\ st = "applied" /\ s \in Unfinished' => s \in Unfinished
    <3>1. CASE s \in S
      BY <1>3, <3>1 DEF Pending, Unfinished
    <3>2. CASE s \notin S
      BY <1>2, <3>2 DEF Pending, Unfinished
    <3> QED
      BY <3>1, <3>2
  <2>2. Pending' \subseteq DOMAIN rows /\ Unfinished' \subseteq DOMAIN rows
    BY <1>2 DEF Pending, Unfinished
  <2> QED
    BY <2>1, <2>2
<1> QED
  BY <1>2, <1>4, <1>5, <1>6, <1>7, <1>8

\* Rows that are deleted, none of which waits for anything.
LEMMA DeletedOf ==
  ASSUME LogType, LogInv, KnownInv, NEW S \in SUBSET (DOMAIN rows),
         \A s \in S : s \notin Pending \cup Unfinished,
         rows' = [s \in DOMAIN rows \ S |-> rows[s]],
         nextSeq' = nextSeq, logged' = logged, archived' = archived, clock' = clock, cache' = cache
  PROVE  /\ LogType' /\ LogInv' /\ KnownInv' /\ DOMAIN rows' \subseteq DOMAIN rows
         /\ \A s \in DOMAIN rows' : rows'[s] = rows[s]
         /\ Pending' = Pending /\ Unfinished' = Unfinished
<1>1. /\ rows \in [DOMAIN rows -> Row] /\ DOMAIN rows \subseteq 1..(nextSeq - 1)
      /\ \A s \in DOMAIN rows : rows[s] \in Row
  BY DEF LogType
<1>2. /\ DOMAIN rows' = DOMAIN rows \ S /\ \A s \in DOMAIN rows' : rows'[s] = rows[s]
      /\ rows' = [s \in DOMAIN rows' |-> rows'[s]]
  OBVIOUS
<1>3. LogType'
  <2>1. rows' \in [DOMAIN rows' -> Row]
    BY <1>1, <1>2
  <2> QED
    BY <1>1, <1>2, <2>1 DEF LogType
<1>4. LogInv'
  BY <1>2 DEF LogInv
<1>5. Pending' = Pending /\ Unfinished' = Unfinished
  BY <1>2 DEF Pending, Unfinished
<1>6. ASSUME NEW i \in DOMAIN Feed, Feed[i] \in Ids PROVE Feed[i] \in Ids' \/ Complete(i)
  <2>1. PICK s \in DOMAIN rows : rows[s].op = Feed[i]
    BY <1>6 DEF Ids
  <2>2. CASE s \in S
    <3>1. rows[s].op \in Broken \/ rows[s].op \in archived
      BY <2>1, <2>2, RowComplete DEF Remote
    <3> QED
      BY <2>1, <3>1 DEF Complete
  <2>3. CASE s \notin S
    <3>1. s \in DOMAIN rows' /\ rows'[s].op = Feed[i]
      BY <1>2, <2>1, <2>3
    <3> QED
      BY <3>1 DEF Ids
  <2> QED
    BY <2>2, <2>3
<1>7. KnownInv'
  BY <1>6, KnownStays
<1> QED
  BY <1>2, <1>3, <1>4, <1>5, <1>7

LEMMA MarkAppliedInv == Inv /\ MarkApplied => Inv'
<1> SUFFICES ASSUME Inv, MarkApplied PROVE Inv'
  OBVIOUS
<1>1. /\ LogType /\ KnowType /\ FeedType /\ UiType /\ WorkType /\ LogInv /\ StageInv
      /\ WorkInv /\ GateInv /\ PassedInv /\ FirstInv /\ TargetInv /\ KnownInv
  BY DEF Inv
<1>2. /\ nextSeq' = nextSeq /\ cache' = cache /\ clock' = clock /\ archived' = archived
      /\ cursor' = cursor /\ live' = live /\ captured' = captured
      /\ deferred' = deferred /\ lost' = lost /\ frontier' = frontier
      /\ foreign' = foreign /\ mode' = mode /\ first' = first /\ target' = target
      /\ work' = work /\ done' = done /\ failed' = failed /\ compacting' = compacting
      /\ served' = served /\ nextOwn' = nextOwn /\ faults' = faults /\ logged' = logged
  BY DEF MarkApplied, disk, ui, tab, apply, world
<1>3. /\ KnowType' /\ FeedType' /\ UiType' /\ PassedInv'
  BY <1>1, <1>2, Frame
<1>4. stage = "mark" /\ stage' = "clear" /\ rows' = Marked(Finished, "applied")
  BY DEF MarkApplied, Go
<1>5. /\ done \in 0..Len(work) /\ Len(work) \in Nat
      /\ \A i \in 1..Len(work) : work[i] \in Unfinished
      /\ \A i \in 1..done : rows[work[i]].op \in archived
      /\ failed => done < Len(work)
  BY <1>1, <1>4 DEF WorkType, WorkInv
<1>6. \A i \in 1..Len(work) : work[i] \in DOMAIN rows /\ rows[work[i]].op \in Remote
  BY <1>1, <1>5 DEF Unfinished, LogInv
<1>7. /\ LogType' /\ LogInv' /\ Ids' = Ids /\ DOMAIN rows' = DOMAIN rows
      /\ \A s \in DOMAIN rows : rows'[s].op = rows[s].op
      /\ Pending' \subseteq Pending /\ Unfinished' \subseteq Unfinished
  <2>1. \A s \in Finished : rows[s].op \in Remote /\ rows[s].op \in archived
    <3>1. \A i \in 1..done : i \in 1..Len(work)
      BY <1>5
    <3> QED
      BY <1>5, <1>6, <3>1 DEF Finished
  <2> QED
    BY <1>1, <1>2, <1>4, <2>1, MarkedOf
<1>8. LogType' /\ LogInv'
  BY <1>7
<1>9. WorkType' /\ StageInv'
  BY <1>1, <1>2, <1>4 DEF WorkType, StageInv, Running, Stages, BootStages, ApplyStages
<1>10. WorkInv'
  BY <1>2, <1>4, <1>5, <1>6, <1>7 DEF WorkInv
<1>11. GateInv'
  BY <1>1, <1>2, <1>4, <1>7 DEF GateInv, ApplyStages
<1>12. FirstInv' /\ TargetInv'
  <2>1. \A i : Complete(i) => Complete(i)'
    BY <1>2, CompleteStays
  <2> QED
    BY <1>1, <1>2, <1>4, <2>1 DEF FirstInv, TargetInv
<1>13. KnownInv'
  BY <1>1, <1>2, <1>7, KnownStays
<1> QED
  BY <1>3, <1>8, <1>9, <1>10, <1>11, <1>12, <1>13 DEF Inv

LEMMA ClearOlderInv == Inv /\ ClearOlder => Inv'
<1> SUFFICES ASSUME Inv, ClearOlder PROVE Inv'
  OBVIOUS
<1>1. /\ LogType /\ KnowType /\ FeedType /\ UiType /\ WorkType /\ LogInv /\ StageInv
      /\ WorkInv /\ GateInv /\ PassedInv /\ FirstInv /\ TargetInv /\ KnownInv
  BY DEF Inv
<1>2. /\ nextSeq' = nextSeq /\ cache' = cache /\ clock' = clock /\ archived' = archived
      /\ cursor' = cursor /\ live' = live /\ captured' = captured
      /\ deferred' = deferred /\ lost' = lost /\ frontier' = frontier
      /\ foreign' = foreign /\ mode' = mode /\ first' = first /\ target' = target
      /\ work' = work /\ done' = done /\ failed' = failed /\ compacting' = compacting
      /\ served' = served /\ nextOwn' = nextOwn /\ faults' = faults /\ logged' = logged
  BY DEF ClearOlder, disk, ui, tab, apply, world
<1>3. /\ KnowType' /\ FeedType' /\ UiType' /\ PassedInv'
  BY <1>1, <1>2, Frame
<1>4. stage = "clear" /\ stage' = "quarantine"
  BY DEF ClearOlder, Go
<1>5. PICK S \in SUBSET (DOMAIN rows) :
        /\ rows' = [s \in DOMAIN rows \ S |-> rows[s]]
        /\ \A s \in S : mode = "download" /\ \A i \in DOMAIN work : work[i] # s
  <2> DEFINE mine == {work[i] : i \in DOMAIN work}
             older == {s \in DOMAIN rows \ mine : rows[s].op \in Imports}
  <2>1. \/ mode = "download" /\ rows' = [s \in DOMAIN rows \ older |-> rows[s]]
        \/ rows' = rows
    BY DEF ClearOlder
  <2>2. CASE mode = "download" /\ rows' = [s \in DOMAIN rows \ older |-> rows[s]]
    <3>1. older \in SUBSET (DOMAIN rows) /\ \A s \in older : \A i \in DOMAIN work : work[i] # s
      OBVIOUS
    <3> HIDE DEF older
    <3> QED
      BY <2>2, <3>1
  <2>3. CASE rows' = rows
    <3> DEFINE none == {}
    <3>1. rows = [s \in DOMAIN rows |-> rows[s]]
      BY <1>1 DEF LogType
    <3>2. /\ DOMAIN rows \ none = DOMAIN rows /\ none \in SUBSET (DOMAIN rows)
          /\ \A s \in none : mode = "download" /\ \A i \in DOMAIN work : work[i] # s
      OBVIOUS
    <3> HIDE DEF none
    <3> QED
      BY <2>3, <3>1, <3>2
  <2> QED
    BY <2>1, <2>2, <2>3
<1>6. \A s \in S : s \notin Pending \cup Unfinished
  <2>1. DOMAIN work = 1..Len(work)
    BY <1>1 DEF WorkType
  <2> QED
    BY <1>1, <1>4, <1>5, <2>1 DEF GateInv, ApplyStages
<1>7. /\ LogType' /\ LogInv' /\ KnownInv' /\ DOMAIN rows' \subseteq DOMAIN rows
      /\ \A s \in DOMAIN rows' : rows'[s] = rows[s]
      /\ Pending' = Pending /\ Unfinished' = Unfinished
  BY <1>1, <1>2, <1>5, <1>6, DeletedOf
<1>8. LogType' /\ LogInv' /\ KnownInv'
  BY <1>7
<1>9. WorkType' /\ StageInv'
  BY <1>1, <1>2, <1>4 DEF WorkType, StageInv, Running, Stages, BootStages, ApplyStages
<1>10. WorkInv'
  BY <1>1, <1>2, <1>4, <1>7 DEF WorkInv
<1>11. GateInv'
  BY <1>1, <1>2, <1>4, <1>7 DEF GateInv, ApplyStages
<1>12. FirstInv' /\ TargetInv'
  <2>1. \A i : Complete(i) => Complete(i)'
    BY <1>2, CompleteStays
  <2> QED
    BY <1>1, <1>2, <1>4, <2>1 DEF FirstInv, TargetInv
<1> QED
  BY <1>3, <1>8, <1>9, <1>10, <1>11, <1>12 DEF Inv

LEMMA MarkFailedInv == Inv /\ MarkFailed => Inv'
<1> SUFFICES ASSUME Inv, MarkFailed PROVE Inv'
  OBVIOUS
<1>1. /\ LogType /\ KnowType /\ FeedType /\ UiType /\ WorkType /\ LogInv /\ StageInv
      /\ WorkInv /\ GateInv /\ PassedInv /\ FirstInv /\ TargetInv /\ KnownInv
  BY DEF Inv
<1>2. /\ nextSeq' = nextSeq /\ cache' = cache /\ clock' = clock /\ archived' = archived
      /\ cursor' = cursor /\ live' = live /\ captured' = captured
      /\ deferred' = deferred /\ lost' = lost /\ frontier' = frontier
      /\ foreign' = foreign /\ mode' = mode /\ first' = first /\ target' = target
      /\ work' = work /\ done' = done /\ failed' = failed /\ compacting' = compacting
      /\ served' = served /\ nextOwn' = nextOwn /\ faults' = faults /\ logged' = logged
  BY DEF MarkFailed, disk, ui, tab, apply, world
<1>3. /\ KnowType' /\ FeedType' /\ UiType' /\ PassedInv'
  BY <1>1, <1>2, Frame
<1>4. /\ stage = "quarantine" /\ stage' = "drain"
      /\ IF failed THEN rows' = Marked({work[done + 1]}, "failed") ELSE rows' = rows
  BY DEF MarkFailed, Go
<1>5. /\ LogType' /\ LogInv' /\ Ids' = Ids /\ Pending' \subseteq Pending
  <2>1. CASE failed
    <3>1. done + 1 \in 1..Len(work)
      BY <1>1, <1>4, <2>1 DEF WorkInv, WorkType
    <3> DEFINE s == work[done + 1]
    <3>2. s \in DOMAIN rows => rows[s].op \in Remote
      BY <1>1, <1>4, <3>1 DEF WorkInv
    <3>3. rows' = Marked({s}, "failed")
      BY <1>4, <2>1
    <3> HIDE DEF s
    <3> QED
      BY <1>1, <1>2, <3>2, <3>3, MarkedOf
  <2>2. CASE ~failed
    <3>1. rows' = rows
      BY <1>4, <2>2
    <3> QED
      BY <1>1, <1>2, <3>1, Frame DEF Ids, Pending
  <2> QED
    BY <2>1, <2>2
<1>6. LogType' /\ LogInv'
  BY <1>5
<1>7. WorkType' /\ StageInv'
  BY <1>1, <1>2, <1>4 DEF WorkType, StageInv, Running, Stages, BootStages, ApplyStages
<1>8. WorkInv' /\ GateInv' /\ FirstInv' /\ TargetInv'
  <2>1. \A i : Complete(i) => Complete(i)'
    BY <1>2, CompleteStays
  <2>2. mode = "gate" => Pending' = {}
    BY <1>1, <1>5 DEF GateInv
  <2> QED
    BY <1>1, <1>2, <1>4, <2>1, <2>2 DEF WorkInv, GateInv, FirstInv, TargetInv
<1>9. KnownInv'
  BY <1>1, <1>2, <1>5, KnownStays
<1> QED
  BY <1>3, <1>6, <1>7, <1>8, <1>9 DEF Inv

LEMMA EndDrainInv == Inv /\ EndDrain => Inv'
<1> SUFFICES ASSUME Inv, EndDrain PROVE Inv'
  OBVIOUS
<1>1. /\ LogType /\ KnowType /\ FeedType /\ UiType /\ WorkType /\ LogInv /\ StageInv
      /\ WorkInv /\ GateInv /\ PassedInv /\ FirstInv /\ TargetInv /\ KnownInv
  BY DEF Inv
<1>2. /\ rows' = rows /\ nextSeq' = nextSeq /\ cache' = cache /\ clock' = clock
      /\ archived' = archived /\ cursor' = cursor /\ live' = live
      /\ captured' = captured /\ deferred' = deferred /\ lost' = lost
      /\ frontier' = frontier /\ foreign' = foreign /\ first' = first
      /\ target' = target /\ compacting' = compacting /\ served' = served
      /\ nextOwn' = nextOwn /\ faults' = faults /\ logged' = logged
  BY DEF EndDrain, disk, ui, tab, apply, world
<1>3. /\ LogType' /\ KnowType' /\ FeedType' /\ UiType' /\ LogInv' /\ PassedInv'
      /\ KnownInv'
  BY <1>1, <1>2, Frame
<1>4. /\ stage = "drain" /\ mode' = "download" /\ work' = <<>> /\ done' = 0 /\ failed' = FALSE
      /\ \/ stage' = "idle"
         \/ stage' = "fetched" /\ mode = "gate" /\ Unfinished = {}
         \/ stage' = "advance" /\ mode \notin {"start", "gate"} /\ ~failed
  BY DEF EndDrain
<1>5. /\ mode \in {"start", "gate", "download"} /\ failed \in BOOLEAN
  BY <1>1 DEF WorkType
<1>6. WorkType'
  <2>1. work' \in Seq(1..(nextSeq' - 1)) /\ done' \in 0..Len(work')
    BY <1>4
  <2>2. failed' \in BOOLEAN
    BY <1>4
  <2> QED
    BY <1>1, <1>2, <1>4, <2>1, <2>2 DEF WorkType, Stages
<1>7. StageInv'
  BY <1>1, <1>2, <1>4 DEF StageInv, Running, BootStages, ApplyStages
<1>8. WorkInv' /\ FirstInv'
  BY <1>4 DEF WorkInv, FirstInv
<1>9. GateInv'
  <2>1. Pending' = Pending /\ Unfinished' = Unfinished
    BY <1>2 DEF Pending, Unfinished
  <2> QED
    BY <1>1, <1>4, <2>1 DEF GateInv, ApplyStages
<1>10. TargetInv'
  <2>1. \A i : Complete(i) => Complete(i)'
    BY <1>2, CompleteStays
  <2> QED
    BY <1>1, <1>2, <1>4, <1>5, <2>1 DEF TargetInv
<1> QED
  BY <1>3, <1>6, <1>7, <1>8, <1>9, <1>10 DEF Inv

LEMMA AdvanceInv == Inv /\ Advance => Inv'
<1> SUFFICES ASSUME Inv, Advance PROVE Inv'
  OBVIOUS
<1>1. /\ LogType /\ KnowType /\ FeedType /\ UiType /\ WorkType /\ LogInv /\ StageInv
      /\ WorkInv /\ GateInv /\ PassedInv /\ FirstInv /\ TargetInv /\ KnownInv
  BY DEF Inv
<1>2. /\ rows' = rows /\ nextSeq' = nextSeq /\ cache' = cache /\ clock' = clock
      /\ archived' = archived /\ live' = live /\ captured' = captured
      /\ deferred' = deferred /\ lost' = lost /\ frontier' = frontier
      /\ foreign' = foreign /\ mode' = mode /\ first' = first /\ target' = target
      /\ work' = work /\ done' = done /\ failed' = failed /\ compacting' = compacting
      /\ served' = served /\ nextOwn' = nextOwn /\ faults' = faults /\ logged' = logged
  BY DEF Advance, disk, ui, tab, apply, world
<1>3. /\ LogType' /\ KnowType' /\ UiType' /\ LogInv' /\ KnownInv'
  BY <1>1, <1>2, Frame
<1>4. stage = "advance" /\ stage' = "upload" /\ cursor' = target
  BY DEF Advance, Go
<1>5. FeedType'
  BY <1>1, <1>2, <1>4 DEF FeedType
<1>6. WorkType' /\ StageInv'
  BY <1>1, <1>2, <1>4 DEF WorkType, StageInv, Running, Stages, BootStages, ApplyStages
<1>7. WorkInv' /\ GateInv' /\ FirstInv' /\ TargetInv'
  <2>1. Pending' = Pending
    BY <1>2 DEF Pending
  <2> QED
    BY <1>1, <1>2, <1>4, <2>1 DEF WorkInv, GateInv, FirstInv, TargetInv, ApplyStages
<1>8. PassedInv'
  <2>1. \A i : Complete(i) => Complete(i)'
    BY <1>2, CompleteStays
  <2> QED
    BY <1>1, <1>4, <2>1 DEF PassedInv, TargetInv
<1> QED
  BY <1>3, <1>5, <1>6, <1>7, <1>8 DEF Inv

LEMMA UploadInv == Inv /\ Upload => Inv'
<1> SUFFICES ASSUME Inv, Upload PROVE Inv'
  OBVIOUS
<1>1. /\ LogType /\ KnowType /\ FeedType /\ UiType /\ WorkType /\ LogInv /\ StageInv
      /\ WorkInv /\ GateInv /\ PassedInv /\ FirstInv /\ TargetInv /\ KnownInv
  BY DEF Inv
<1>2. /\ nextSeq' = nextSeq /\ cache' = cache /\ clock' = clock /\ archived' = archived
      /\ cursor' = cursor /\ live' = live /\ captured' = captured
      /\ deferred' = deferred /\ lost' = lost /\ frontier' = frontier
      /\ foreign' = foreign /\ mode' = mode /\ first' = first /\ target' = target
      /\ work' = work /\ done' = done /\ failed' = failed /\ compacting' = compacting
      /\ served' = served /\ nextOwn' = nextOwn /\ faults' = faults /\ logged' = logged
  BY DEF Upload, disk, ui, tab, apply, world
<1>3. /\ KnowType' /\ FeedType' /\ UiType' /\ PassedInv'
  BY <1>1, <1>2, Frame
<1>4. /\ stage = "upload" /\ stage' = "idle"
      /\ rows' = rows \/ rows' = [s \in DOMAIN rows |-> [rows[s] EXCEPT !.synced = TRUE]]
  BY DEF Upload, Go
<1>5. mode = "download"
  BY <1>1, <1>4 DEF StageInv, BootStages, ApplyStages
<1>6. /\ DOMAIN rows' = DOMAIN rows /\ rows' \in [DOMAIN rows -> Row]
      /\ \A s \in DOMAIN rows : /\ rows'[s].op = rows[s].op /\ rows'[s].status = rows[s].status
                               /\ rows'[s].rejected = rows[s].rejected
  <2>1. \A s \in DOMAIN rows : rows[s] \in Row
    BY <1>1 DEF LogType
  <2>2. CASE rows' = rows
    BY <1>1, <2>2 DEF LogType
  <2>3. CASE rows' = [s \in DOMAIN rows |-> [rows[s] EXCEPT !.synced = TRUE]]
    <3>1. ASSUME NEW s \in DOMAIN rows
          PROVE  /\ [rows[s] EXCEPT !.synced = TRUE] \in Row
                 /\ [rows[s] EXCEPT !.synced = TRUE].op = rows[s].op
                 /\ [rows[s] EXCEPT !.synced = TRUE].status = rows[s].status
                 /\ [rows[s] EXCEPT !.synced = TRUE].rejected = rows[s].rejected
      BY <2>1 DEF Row
    <3> QED
      BY <2>3, <3>1
  <2> QED
    BY <1>4, <2>2, <2>3
<1>7. LogType'
  BY <1>1, <1>2, <1>6 DEF LogType
<1>8. LogInv'
  BY <1>1, <1>2, <1>6 DEF LogInv
<1>9. WorkType' /\ StageInv'
  BY <1>1, <1>2, <1>4 DEF WorkType, StageInv, Running, Stages, BootStages, ApplyStages
<1>10. WorkInv' /\ GateInv' /\ FirstInv' /\ TargetInv'
  BY <1>2, <1>4, <1>5 DEF WorkInv, GateInv, FirstInv, TargetInv, ApplyStages
<1>11. KnownInv'
  <2>1. Ids' = Ids
    BY <1>6 DEF Ids
  <2> QED
    BY <1>1, <1>2, <2>1, KnownStays
<1> QED
  BY <1>3, <1>7, <1>8, <1>9, <1>10, <1>11 DEF Inv

LEMMA DeleteOldInv == Inv /\ DeleteOld => Inv'
<1> SUFFICES ASSUME Inv, DeleteOld PROVE Inv'
  OBVIOUS
<1>1. /\ LogType /\ KnowType /\ FeedType /\ UiType /\ WorkType /\ LogInv /\ StageInv
      /\ WorkInv /\ GateInv /\ PassedInv /\ FirstInv /\ TargetInv /\ KnownInv
  BY DEF Inv
<1>2. /\ nextSeq' = nextSeq /\ cache' = cache /\ clock' = clock /\ archived' = archived
      /\ cursor' = cursor /\ live' = live /\ captured' = captured
      /\ deferred' = deferred /\ lost' = lost /\ frontier' = frontier
      /\ foreign' = foreign /\ stage' = stage /\ mode' = mode /\ first' = first
      /\ target' = target /\ work' = work /\ done' = done /\ failed' = failed
      /\ served' = served /\ nextOwn' = nextOwn /\ faults' = faults /\ logged' = logged
  BY DEF DeleteOld, disk, ui, tab, apply, world
<1>3. /\ KnowType' /\ FeedType' /\ UiType' /\ PassedInv' /\ FirstInv'
  BY <1>1, <1>2, Frame
<1>4. PICK age : rows' = [s \in {t \in DOMAIN rows : ~(t \in Old(age) /\ Deletable(t))} |-> rows[s]]
  BY DEF DeleteOld
<1>5. compacting /\ compacting' = FALSE /\ ~(mode = "download" /\ stage \in ApplyStages)
  BY <1>1 DEF DeleteOld, StageInv
<1>6. PICK S \in SUBSET (DOMAIN rows) :
        rows' = [s \in DOMAIN rows \ S |-> rows[s]] /\ \A s \in S : Deletable(s)
  <2> DEFINE S == {t \in DOMAIN rows : t \in Old(age) /\ Deletable(t)}
  <2>1. DOMAIN rows \ S = {t \in DOMAIN rows : ~(t \in Old(age) /\ Deletable(t))}
    OBVIOUS
  <2>2. S \in SUBSET (DOMAIN rows) /\ \A s \in S : Deletable(s)
    OBVIOUS
  <2> HIDE DEF S
  <2> QED
    BY <1>4, <2>1, <2>2
<1>7. \A s \in S : s \notin Pending \cup Unfinished
  BY <1>6 DEF Deletable, Pending, Unfinished
<1>8. /\ LogType' /\ LogInv' /\ KnownInv' /\ DOMAIN rows' \subseteq DOMAIN rows
      /\ \A s \in DOMAIN rows' : rows'[s] = rows[s]
      /\ Pending' = Pending /\ Unfinished' = Unfinished
  BY <1>1, <1>2, <1>6, <1>7, DeletedOf
<1>9. LogType' /\ LogInv' /\ KnownInv'
  BY <1>8
<1>10. WorkType'
  <2>1. compacting' \in BOOLEAN
    BY <1>5
  <2> QED
    BY <1>1, <1>2, <2>1 DEF WorkType
<1>11. StageInv' /\ GateInv'
  BY <1>1, <1>2, <1>5, <1>8 DEF StageInv, GateInv
<1>12. WorkInv'
  <2>1. \A i \in 1..Len(work) : work[i] \in Unfinished => rows'[work[i]] = rows[work[i]]
    <3>1. \A s \in Unfinished : s \in DOMAIN rows'
      <4>1. \A s \in Unfinished' : s \in DOMAIN rows'
        BY DEF Unfinished
      <4> QED
        BY <1>8, <4>1
    <3> QED
      BY <1>8, <3>1
  <2>2. \A i \in 1..done : i \in 1..Len(work)
    BY <1>1 DEF WorkType
  <2>3. stage \in {"effects", "mark"} => \A i \in 1..done : rows'[work[i]].op \in archived'
    BY <1>1, <1>2, <2>1, <2>2 DEF WorkInv
  <2>4. stage \in {"clear", "quarantine"} =>
          \A i \in 1..Len(work) : work[i] \in DOMAIN rows' => rows'[work[i]].op \in Remote
    BY <1>1, <1>8 DEF WorkInv
  <2> QED
    BY <1>1, <1>2, <1>8, <2>3, <2>4 DEF WorkInv
<1>13. TargetInv'
  <2>1. \A i : Complete(i) => Complete(i)'
    BY <1>2, CompleteStays
  <2> QED
    BY <1>1, <1>2, <1>5, <2>1 DEF TargetInv, ApplyStages
<1> QED
  BY <1>3, <1>9, <1>10, <1>11, <1>12, <1>13 DEF Inv

-----------------------------------------------------------------------------
(* The theorems *)

LEMMA NextInv == Inv /\ [Next]_vars => Inv'
<1> SUFFICES ASSUME Inv, [Next]_vars PROVE Inv'
  OBVIOUS
<1>1. CASE Start
  BY <1>1, LoadInv, ReplayInv, SettleInv, EndStartInv DEF Start
<1>2. CASE User
  BY <1>2, DispatchInv, WriteCapturedInv, LoseCapturedInv, WriteElsewhereInv DEF User
<1>3. CASE Buffer
  BY <1>3, WriteDeferredInv, FailDeferredInv DEF Buffer
<1>4. CASE Publish
  BY <1>4, PublishInv
<1>5. CASE Fetch
  BY <1>5, SyncInv, GateStepInv, FirstPageInv, LastPageInv, RefuseInv, StoreBatchInv DEF Fetch
<1>6. CASE Stage
  BY <1>6, MergeClocksInv, RunReducersInv, CommitReducersInv, ThrowInv DEF Stage
<1>7. CASE Effects
  BY <1>7, RunEffectInv, FailEffectInv, EndEffectsInv DEF Effects
<1>8. CASE Finish
  BY <1>8, MarkAppliedInv, ClearOlderInv, MarkFailedInv, EndDrainInv, AdvanceInv, UploadInv DEF Finish
<1>9. CASE Compact
  BY <1>9, SaveSnapshotInv, DeleteOldInv DEF Compact
<1>10. CASE Crash
  BY <1>10, CrashInv
<1>11. CASE UNCHANGED vars
  <2>1. /\ rows' = rows /\ nextSeq' = nextSeq /\ cache' = cache /\ clock' = clock
        /\ archived' = archived /\ cursor' = cursor /\ live' = live
        /\ captured' = captured /\ deferred' = deferred /\ lost' = lost
        /\ frontier' = frontier /\ foreign' = foreign /\ stage' = stage /\ mode' = mode
        /\ first' = first /\ target' = target /\ work' = work /\ done' = done
        /\ failed' = failed /\ compacting' = compacting /\ served' = served
        /\ nextOwn' = nextOwn /\ faults' = faults /\ logged' = logged
    BY <1>11 DEF vars, disk, ui, tab, apply, world
  <2> QED
    BY <2>1, Frame DEF Inv
<1> QED
  BY <1>1, <1>2, <1>3, <1>4, <1>5, <1>6, <1>7, <1>8, <1>9, <1>10, <1>11 DEF Next

LEMMA InvHolds == Spec => []Inv
<1>1. Init => Inv
  BY InitInv
<1>2. Inv /\ [Next]_vars => Inv'
  BY NextInv
<1> QED
  BY <1>1, <1>2, PTL DEF Spec

\* Every variable of a device keeps its type, whatever fails between two steps: nothing
\* points past the last sequence number of the log (operation-log-store.service.ts).
THEOREM RemoteApplyTypes == Spec => []TypeOK
<1>1. Inv => TypeOK
  BY InvTypeOK
<1> QED
  BY <1>1, InvHolds, PTL

\* Whatever the cursor has passed has its archive side effects, is refused by its reducer
\* or was replaced by a later full-state operation: for every feed, batch, failure and
\* crash (remote-apply.ts, setLastServerSeq in operation-log-sync.service.ts).
THEOREM PassedIsFinished == Spec => []NothingPassedIsUnfinished
<1>1. Inv => NothingPassedIsUnfinished
  BY DEF Inv, PassedInv, Complete, NothingPassedIsUnfinished
<1> QED
  BY <1>1, InvHolds, PTL

\* No archive side effect runs for an operation while a row of it still waits for the
\* durable outcome of its reducers (the order that remote-apply.ts documents).
THEOREM EffectsAfterReducers == Spec => EffectsFollowReducers
<1>1. Inv /\ [Next]_vars => [\A s \in Pending : rows[s].op \notin archived' \ archived]_vars
  <2> SUFFICES ASSUME Inv, Next, NEW s \in Pending, archived' # archived
               PROVE  rows[s].op \notin archived' \ archived
    OBVIOUS
  <2>1. RunEffect
    <3>1. ASSUME Start PROVE FALSE
      BY <3>1 DEF Start, Load, Replay, Settle, EndStart, disk
    <3>2. ASSUME User PROVE FALSE
      BY <3>2 DEF User, Dispatch, WriteCaptured, LoseCaptured, WriteElsewhere, WriteLocal, disk
    <3>3. ASSUME Buffer PROVE FALSE
      BY <3>3 DEF Buffer, WriteDeferred, FailDeferred, WriteLocal, disk
    <3>4. ASSUME Publish PROVE FALSE
      BY <3>4 DEF Publish, disk
    <3>5. ASSUME Fetch PROVE FALSE
      BY <3>5 DEF Fetch, Sync, Gate, FirstPage, LastPage, Refuse, StoreBatch, disk
    <3>6. ASSUME Stage PROVE FALSE
      BY <3>6 DEF Stage, MergeClocks, RunReducers, CommitReducers, Throw, disk
    <3>7. ASSUME Effects PROVE RunEffect
      BY <3>7 DEF Effects, FailEffect, EndEffects, disk
    <3>8. ASSUME Finish PROVE FALSE
      BY <3>8 DEF Finish, MarkApplied, ClearOlder, MarkFailed, EndDrain, Advance, Upload, disk
    <3>9. ASSUME Compact PROVE FALSE
      BY <3>9 DEF Compact, SaveSnapshot, DeleteOld, disk
    <3>10. ASSUME Crash PROVE FALSE
      BY <3>10 DEF Crash, disk
    <3> QED
      BY <3>1, <3>2, <3>3, <3>4, <3>5, <3>6, <3>7, <3>8, <3>9, <3>10 DEF Next
  <2>2. LogInv /\ WorkInv /\ WorkType
    BY DEF Inv
  <2>3. /\ stage = "effects" /\ done < Len(work)
        /\ archived' = archived \cup {rows[work[done + 1]].op}
    BY <2>1 DEF RunEffect
  <2>4. done + 1 \in 1..Len(work)
    BY <2>2, <2>3 DEF WorkType
  <2>5. work[done + 1] \in Unfinished
    BY <2>2, <2>3, <2>4 DEF WorkInv
  <2>6. rows[work[done + 1]].op \in Remote /\ work[done + 1] # s
    BY <2>2, <2>5 DEF LogInv, Pending, Unfinished
  <2> QED
    BY <2>2, <2>3, <2>5, <2>6 DEF LogInv, Pending, Unfinished
<1> QED
  BY <1>1, InvHolds, PTL DEF Spec, EffectsFollowReducers
=============================================================================
