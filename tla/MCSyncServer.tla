---------------------------- MODULE MCSyncServer ----------------------------
(***************************************************************************)
(* Model values of SyncServer for TLC.  Clients 1 and 2 edit entities t1   *)
(* and t2: a2 touches both entities, b1 knows nothing of client 1, the     *)
(* timer batches da and db do not know each other, db knows a1.            *)
(***************************************************************************)
EXTENDS SyncServer, TLC

CONSTANTS r1, r2, p1, p2

ClockOf(x, y) == [c \in Client |-> CASE c = 1 -> x [] c = 2 -> y [] OTHER -> 0]
Entry(c, kind, es, v) == [client |-> c, kind |-> kind, entities |-> es, clock |-> v]

Table ==
  [a1  |-> Entry(1, "UPDATE", {"t1"}, ClockOf(1, 0)),
   a2  |-> Entry(1, "UPDATE", {"t1", "t2"}, ClockOf(2, 0)),
   b1  |-> Entry(2, "UPDATE", {"t2"}, ClockOf(0, 1)),
   da  |-> Entry(1, "TIME_DELTA", {"t1"}, ClockOf(3, 0)),
   db  |-> Entry(2, "TIME_DELTA", {"t1"}, ClockOf(1, 3)),
   sync   |-> Entry(1, "SYNC_IMPORT", {}, ClockOf(4, 0)),
   backup |-> Entry(2, "BACKUP_IMPORT", {}, ClockOf(0, 4)),
   fix    |-> Entry(1, "REPAIR", {}, ClockOf(5, 0))]

MCContent == [o \in Op |-> Table[o]]
TwoProcesses == (r1 :> p1) @@ (r2 :> p2)

\* Handlers, with their processes, are interchangeable.
Swap == {(r1 :> r1) @@ (r2 :> r2) @@ (p1 :> p1) @@ (p2 :> p2),
         (r1 :> r2) @@ (r2 :> r1) @@ (p1 :> p2) @@ (p2 :> p1)}

NoHistory == Nothing

\* Retained from before: a repair that stands in for the pruned import 1.
RepairedHistory ==
  (2 :> [id |-> "fix", known |-> 1, clock |-> ClockOf(5, 0)]) @@
  (3 :> [id |-> "b1", known |-> NoCursor, clock |-> ClockOf(0, 1)])

Singles == {<<o>> : o \in {x \in Op : Content[x].kind \notin FullStateKinds}}
Edits == {<<"a1", "a2">>, <<"b1", "db">>, <<"da">>}
=============================================================================
