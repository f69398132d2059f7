------------------------------ MODULE SyncClock ------------------------------
(***************************************************************************)
(* The vector-clock algorithms shared by the clients and the server:       *)
(* packages/sync-core/src/vector-clock.ts, sync-import-filter.ts, and the  *)
(* pure clock calculation of the client's operation-log store.             *)
(*                                                                         *)
(* A clock is a total function from client ids to counters; counter 0      *)
(* stands for "no entry" (the code reads a missing key as 0 and never      *)
(* writes a 0: counters start at 1 and calculateRemoteClockMerge omits an  *)
(* entry whose value would be 0).  Client ids are integers, so that the    *)
(* lexicographic tie-break of limitVectorClockSize is <.                   *)
(***************************************************************************)
EXTENDS Integers, FiniteSets, Sequences

CONSTANTS Client,        \* client ids
          MaxClockSize   \* MAX_VECTOR_CLOCK_SIZE

ASSUME ClientAssumption == Client \subseteq Int /\ IsFiniteSet(Client)
ASSUME MaxClockSizeAssumption == MaxClockSize \in Nat \ {0}

Clock == [Client -> Nat]
EmptyClock == [c \in Client |-> 0]

\* The keys of a clock object.
Entries(v) == {c \in Client : v[c] > 0}

-----------------------------------------------------------------------------
(* compareVectorClocks *)

AheadOf(a, b) == \E c \in Client : a[c] > b[c]

Compare(a, b) ==
  CASE AheadOf(a, b) /\ AheadOf(b, a)   -> "CONCURRENT"
    [] AheadOf(a, b) /\ ~AheadOf(b, a)  -> "GREATER_THAN"
    [] ~AheadOf(a, b) /\ AheadOf(b, a)  -> "LESS_THAN"
    [] ~AheadOf(a, b) /\ ~AheadOf(b, a) -> "EQUAL"

(* mergeVectorClocks, and the increment every operation starts with *)

Larger(m, n) == IF m > n THEN m ELSE n

Merge(a, b) == [c \in Client |-> Larger(a[c], b[c])]

Increment(v, own) == [v EXCEPT ![own] = @ + 1]

-----------------------------------------------------------------------------
(***************************************************************************)
(* limitVectorClockSize(clock, preserveClientIds): an oversized clock keeps*)
(* the preserved ids it has, in the order given and at most MaxClockSize   *)
(* of them, and fills the remaining places with the other entries of the   *)
(* largest counters, the smaller id first among equals.                    *)
(***************************************************************************)
Ids(s) == {s[i] : i \in 1..Len(s)}

PreservedBefore(v, preserve, i) ==
  {preserve[j] : j \in 1..(i - 1)} \cap Entries(v)

KeptPreserved(v, preserve) ==
  {c \in Entries(v) : \E i \in 1..Len(preserve) :
      /\ preserve[i] = c
      /\ Cardinality(PreservedBefore(v, preserve, i) \ {c}) < MaxClockSize}

MoreActive(v, c, d) == v[c] > v[d] \/ (v[c] = v[d] /\ c < d)

KeptActive(v, preserve) ==
  LET others == Entries(v) \ Ids(preserve)
      free   == MaxClockSize - Cardinality(KeptPreserved(v, preserve))
  IN  {c \in others : Cardinality({d \in others : MoreActive(v, d, c)}) < free}

LimitClock(v, preserve) ==
  IF Cardinality(Entries(v)) <= MaxClockSize
  THEN v
  ELSE LET kept == KeptPreserved(v, preserve) \cup KeptActive(v, preserve)
       IN  [c \in Client |-> IF c \in kept THEN v[c] ELSE 0]

-----------------------------------------------------------------------------
(***************************************************************************)
(* classifyOpAgainstSyncImport: does an operation survive the clean-slate  *)
(* boundary of a full-state import?                                        *)
(***************************************************************************)
SurvivesImport(opClient, opClock, importClient, importClock) ==
  LET comparison == Compare(opClock, importClock)
      importCounter == importClock[importClient]
  IN  \/ comparison \in {"GREATER_THAN", "EQUAL"}
      \/ /\ comparison = "CONCURRENT"
         /\ opClient = importClient
         /\ opClock[opClient] > importCounter
      \/ /\ comparison = "CONCURRENT"
         /\ opClient # importClient
         /\ opClock[importClient] >= importCounter
         /\ importCounter > 0

-----------------------------------------------------------------------------
(***************************************************************************)
(* calculateRemoteClockMerge, one operation at a time: a full-state        *)
(* operation resets the clock to its author's counter and the own one,     *)
(* any other operation is merged.  The store prunes once, after the batch, *)
(* preserving the own id and the latest full-state author.                 *)
(***************************************************************************)
ResetByImport(v, own, author, importClock) ==
  [c \in Client |->
     CASE c = own                -> Larger(v[own], importClock[own])
       [] c = author /\ c # own  -> importClock[author]
       [] OTHER                  -> 0]

\* importAuthor is a sequence of at most one id: no full-state operation, no author.
BoundOwnClock(v, own, importAuthor) == LimitClock(v, <<own>> \o importAuthor)

=============================================================================
