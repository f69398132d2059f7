------------------------------ MODULE DurableLog ------------------------------
(***************************************************************************)
(* What the operation log of a device promises: the state its next start   *)
(* rebuilds changes only when an operation is written, by exactly that     *)
(* operation, and no operation is ever taken in twice.  Crashes, restarts, *)
(* snapshots, compaction, failed and repeated downloads, retries of        *)
(* archive work: nothing else touches it.                                  *)
(***************************************************************************)
EXTENDS AppState

VARIABLES state,     \* the state the next start rebuilds
          received   \* the operations written so far

Init == state = Empty /\ received = {}

Write(o) ==
  /\ o \in Local \ received
  /\ received' = received \cup {o}
  /\ state' = Reduce(state, <<o>>)

\* The server's operations from the m-th to the n-th arrive, those that are news.
Receive(m, n) ==
  LET news == Kept(Admitted(SubSeq(Feed, m, n)), Op \ received)
  IN /\ news # <<>>
     /\ received' = received \cup {news[i] : i \in DOMAIN news}
     /\ state' = Reduce(state, news)

Next == (\E o \in Local : Write(o)) \/ (\E n \in DOMAIN Feed : \E m \in 1..n : Receive(m, n))

Spec == Init /\ [][Next]_<<state, received>>
=============================================================================
