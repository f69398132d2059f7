---------------------------- MODULE SyncClockProofs ----------------------------
(***************************************************************************)
(* Facts about the clock algorithms of SyncClock, for every set of client  *)
(* ids and every bound.                                                    *)
(***************************************************************************)
EXTENDS SyncClock, FiniteSetTheorems, WellFoundedInduction, TLAPS

-----------------------------------------------------------------------------
(* Finite sets of numbers *)

\* A finite set of numbers that is not empty has a greatest element.
LEMMA FiniteMax ==
  ASSUME NEW S \in SUBSET Int, IsFiniteSet(S), S # {}
  PROVE  \E s \in S : \A t \in S : t <= s
<1> DEFINE Above(x) == {y \in S : y > x}
           T == {A \in SUBSET S : \E x \in S : A = Above(x)}
<1>1. T \subseteq FiniteSubsetsOf(S)
  BY FS_Subset DEF FiniteSubsetsOf
<1>2. T # {}
  <2>1. PICK x \in S : TRUE
    OBVIOUS
  <2>2. Above(x) \in T
    OBVIOUS
  <2> QED
    BY <2>2
<1>3. PICK A \in T : \A B \in T : <<B, A>> \notin StrictSubsetOrdering(S)
  <2> HIDE DEF T
  <2> QED
    BY <1>1, <1>2, WFMin, FS_StrictSubsetOrderingWellFounded
<1>4. PICK s \in S : A = Above(s)
  OBVIOUS
<1>5. ASSUME NEW t \in S, t > s PROVE FALSE
  <2>1. Above(t) \in T
    OBVIOUS
  <2>2. ASSUME NEW y \in Above(t) PROVE y \in A
    <3>1. y \in Int /\ t \in Int /\ s \in Int /\ y > t
      OBVIOUS
    <3> QED
      BY <1>4, <1>5, <3>1
  <2>3. t \in A /\ t \notin Above(t)
    BY <1>4, <1>5
  <2> QED
    BY <1>3, <2>1, <2>2, <2>3 DEF StrictSubsetOrdering
<1> QED
  BY <1>5

-----------------------------------------------------------------------------
(* Clocks *)

\* Pruning a clock yields a clock (limitVectorClockSize).
LEMMA LimitClockType ==
  ASSUME NEW v \in Clock, NEW preserve
  PROVE  LimitClock(v, preserve) \in Clock
BY DEF LimitClock, Clock

\* Pruning only removes entries: no counter grows, and one that stays is unchanged.
LEMMA LimitClockOnlyRemoves ==
  ASSUME NEW v \in Clock, NEW preserve, NEW c \in Client
  PROVE  LimitClock(v, preserve)[c] \in {0, v[c]}
BY DEF LimitClock, Clock

\* The first preserved id survives pruning with its counter: the uploader's own
\* entry is never lost, which is what conflict detection later relies on.
LEMMA LimitClockKeepsFirst ==
  ASSUME NEW v \in Clock, NEW w \in Client, NEW rest \in Seq(Client)
  PROVE  LimitClock(v, <<w>> \o rest)[w] = v[w]
<1> DEFINE p == <<w>> \o rest
<1>1. p \in Seq(Client) /\ 1 \in 1..Len(p) /\ p[1] = w
  OBVIOUS
<1>2. ASSUME v[w] > 0 PROVE w \in KeptPreserved(v, p)
  <2>1. w \in Entries(v)
    BY <1>2 DEF Entries
  <2>2. PreservedBefore(v, p, 1) \ {w} = {}
    BY DEF PreservedBefore
  <2> HIDE DEF p
  <2>3. Cardinality({}) < MaxClockSize
    BY FS_EmptySet, MaxClockSizeAssumption
  <2>4. Cardinality(PreservedBefore(v, p, 1) \ {w}) < MaxClockSize
    BY <2>2, <2>3
  <2> QED
    BY <1>1, <2>1, <2>4 DEF KeptPreserved
<1> HIDE DEF p
<1>3. v[w] \in Nat
  BY DEF Clock
<1>4. LimitClock(v, p)[w] = v[w]
  BY <1>2, <1>3 DEF LimitClock
<1> QED
  BY <1>4 DEF p

\* The second preserved id survives too, unless the bound is a single entry: the
\* author of the import an operation is filtered against stays in its clock.
LEMMA LimitClockKeepsSecond ==
  ASSUME NEW v \in Clock, NEW w \in Client, NEW a \in Client, MaxClockSize > 1
  PROVE  LimitClock(v, <<w>> \o <<a>>)[a] = v[a]
<1> DEFINE p == <<w>> \o <<a>>
<1>1. 2 \in 1..Len(p) /\ p[2] = a /\ p[1] = w
  OBVIOUS
<1>2. ASSUME v[a] > 0 PROVE a \in KeptPreserved(v, p)
  <2>1. a \in Entries(v)
    BY <1>2 DEF Entries
  <2>2. PreservedBefore(v, p, 2) \ {a} \subseteq {w}
    <3> HIDE DEF p
    <3>1. \A j \in 1..(2 - 1) : p[j] = w
      BY <1>1
    <3> QED
      BY <3>1 DEF PreservedBefore
  <2> HIDE DEF p
  <2>3. Cardinality(PreservedBefore(v, p, 2) \ {a}) <= Cardinality({w})
    BY <2>2, FS_Singleton, FS_Subset
  <2>4. Cardinality({w}) = 1
    BY FS_Singleton
  <2>5. PreservedBefore(v, p, 2) \ {a} \in SUBSET {w} /\ IsFiniteSet({w})
    BY <2>2, FS_Singleton
  <2>6. Cardinality(PreservedBefore(v, p, 2) \ {a}) \in Nat
    BY <2>5, FS_Subset, FS_CardinalityType
  <2>7. Cardinality(PreservedBefore(v, p, 2) \ {a}) < MaxClockSize
    BY <2>3, <2>4, <2>6, MaxClockSizeAssumption
  <2> QED
    BY <1>1, <2>1, <2>7 DEF KeptPreserved
<1> HIDE DEF p
<1>3. v[a] \in Nat
  BY DEF Clock
<1>4. LimitClock(v, p)[a] = v[a]
  BY <1>2, <1>3 DEF LimitClock
<1> QED
  BY <1>4 DEF p

\* The clock {id: 1} of a new baseline.
LEMMA BaselineClock ==
  ASSUME NEW id \in Client
  PROVE  /\ Increment(EmptyClock, id) \in Clock
         /\ Increment(EmptyClock, id)[id] = 1
         /\ \A c \in Client \ {id} : Increment(EmptyClock, id)[c] = 0
         /\ \A p : LimitClock(Increment(EmptyClock, id), p) = Increment(EmptyClock, id)
<1> DEFINE v == Increment(EmptyClock, id)
<1>1. /\ v \in Clock
      /\ v[id] = 1
      /\ \A c \in Client \ {id} : v[c] = 0
  BY DEF Increment, EmptyClock, Clock
<1> HIDE DEF v
<1>2. Entries(v) = {id}
  BY <1>1 DEF Entries
<1>3. Cardinality(Entries(v)) <= MaxClockSize
  <2>1. Cardinality({id}) = 1
    BY FS_Singleton
  <2> QED
    BY <1>2, <2>1, MaxClockSizeAssumption
<1>4. ASSUME NEW p PROVE LimitClock(v, p) = v
  BY <1>3 DEF LimitClock
<1> QED
  BY <1>1, <1>4 DEF v

\* The filter against such a baseline keeps what has an entry of its author
\* (classifyOpAgainstSyncImport).
LEMMA SurvivesBaseline ==
  ASSUME NEW opClient \in Client, NEW v \in Clock, NEW id \in Client
  PROVE  SurvivesImport(opClient, v, id, Increment(EmptyClock, id)) <=> v[id] >= 1
<1> DEFINE w == Increment(EmptyClock, id)
<1>1. /\ w \in Clock
      /\ w[id] = 1
      /\ \A c \in Client \ {id} : w[c] = 0
  BY BaselineClock
<1>2. v[id] \in Nat /\ \A c \in Client : v[c] \in Nat
  BY DEF Clock
<1> HIDE DEF w
<1>3. AheadOf(w, v) <=> v[id] < 1
  BY <1>1, <1>2 DEF AheadOf
<1>4. CASE v[id] >= 1
  <2>1. Compare(v, w) \in {"GREATER_THAN", "EQUAL"}
    BY <1>2, <1>3, <1>4 DEF Compare
  <2> QED
    BY <1>4, <2>1 DEF SurvivesImport, w
<1>5. CASE ~(v[id] >= 1)
  <2>1. Compare(v, w) \in {"CONCURRENT", "LESS_THAN"}
    BY <1>2, <1>3, <1>5 DEF Compare
  <2>2. ~SurvivesImport(opClient, v, id, w)
    BY <1>1, <1>2, <1>5, <2>1 DEF SurvivesImport
  <2> QED
    BY <1>5, <2>2 DEF w
<1> QED
  BY <1>4, <1>5

\* A clock that compares as newer or equal covers every counter of the other.
LEMMA ComparedCovers ==
  ASSUME NEW a \in Clock, NEW b \in Clock,
         Compare(a, b) \in {"GREATER_THAN", "EQUAL"}
  PROVE  \A c \in Client : a[c] >= b[c]
BY DEF Compare, AheadOf, Clock

\* Merging covers both clocks (mergeVectorClocks).
LEMMA MergeCovers ==
  ASSUME NEW a \in Clock, NEW b \in Clock
  PROVE  /\ Merge(a, b) \in Clock
         /\ \A c \in Client : Merge(a, b)[c] >= a[c] /\ Merge(a, b)[c] >= b[c]
BY DEF Merge, Larger, Clock

(***************************************************************************)
(* Pruning hides no conflict: an edit whose clock lacks the counter of a   *)
(* stored edit's author does not compare as newer than, or equal to, the   *)
(* clock that was stored for it, however small the bound                   *)
(* (operation-upload.service.ts prunes keeping the uploader's id first).   *)
(***************************************************************************)
THEOREM PruningHidesNoConflict ==
  ASSUME NEW stored \in Clock, NEW edit \in Clock, NEW w \in Client,
         NEW rest \in Seq(Client), edit[w] < stored[w]
  PROVE  Compare(edit, LimitClock(stored, <<w>> \o rest))
           \notin {"GREATER_THAN", "EQUAL"}
<1> DEFINE kept == LimitClock(stored, <<w>> \o rest)
<1>1. kept[w] = stored[w] /\ kept \in Clock
  <2>1. <<w>> \o rest \in Seq(Client)
    OBVIOUS
  <2> QED
    BY LimitClockKeepsFirst, LimitClockType
<1>2. edit[w] \in Nat /\ stored[w] \in Nat
  BY DEF Clock
<1> HIDE DEF kept
<1>3. Compare(edit, kept) \notin {"GREATER_THAN", "EQUAL"}
  BY <1>1, <1>2, ComparedCovers
<1> QED
  BY <1>3 DEF kept
=============================================================================
