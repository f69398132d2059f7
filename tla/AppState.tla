------------------------------- MODULE AppState -------------------------------
(***************************************************************************)
(* What the reducers make of a sequence of operations, as far as the log   *)
(* of a device is concerned: how often the effect of each operation is in  *)
(* the application state.  A full-state operation replaces the state; an   *)
(* operation whose reducer throws has no effect                            *)
(* (bulk-hydration.meta-reducer.ts).                                       *)
(***************************************************************************)
EXTENDS Selection, FiniteSets

CONSTANTS OwnOps,    \* what the user of this tab does
          TabOps,    \* what another tab of this device does
          Feed,      \* the other devices' operations, in the server's order
          Imports,   \* those of them that replace the whole state
          Broken     \* those of them whose reducer throws

Remote == {Feed[i] : i \in DOMAIN Feed}
Local == OwnOps \cup TabOps
Op == Local \cup Remote

ASSUME OpsAssumption ==
  /\ Op \subseteq Nat
  /\ Feed \in Seq(Nat)
  /\ \A i, j \in DOMAIN Feed : Feed[i] = Feed[j] => i = j
  /\ OwnOps \cap TabOps = {} /\ Local \cap Remote = {}
\* A full-state operation whose reducer throws stops every boot; it is left out.
ASSUME ReducerAssumption ==
  Imports \subseteq Remote /\ Broken \subseteq Remote /\ Imports \cap Broken = {}

Empty == [o \in Op |-> 0]

\* The position of the last full-state operation in s, or 0.
LastImport(s) ==
  LET at == {i \in DOMAIN s : s[i] \in Imports}
  IN IF at = {} THEN 0 ELSE CHOOSE i \in at : \A j \in at : j <= i

FromImport(s) == IF LastImport(s) = 0 THEN s ELSE SubSeq(s, LastImport(s), Len(s))

\* The state after the operations of s, in order, on state st.
Reduce(st, s) ==
  LET from == LastImport(s)
      count(o) == IF o \in Broken THEN 0
                  ELSE Cardinality({i \in DOMAIN s : s[i] = o /\ i >= from})
  IN IF from = 0 THEN [o \in Op |-> st[o] + count(o)] ELSE [o \in Op |-> count(o)]

\* What survives the import filter of a download: the full-state operations and
\* what follows the last one.
Admitted(s) == Kept(s, {s[i] : i \in {j \in DOMAIN s : s[j] \in Imports \/ j >= LastImport(s)}})
=============================================================================
