----------------------------- MODULE SyncFolder -----------------------------
(***************************************************************************)
(* What sync through a shared folder promises, whatever the files look     *)
(* like: replicas and a folder that hold edits, and only ever gain them,   *)
(* except for those a user's decision gives up.                            *)
(***************************************************************************)
EXTENDS Naturals

CONSTANTS Client, Edit    \* an edit is a pair whose first part is its author

VARIABLES replica, folder, waived

vars == <<replica, folder, waived>>

Init == replica = [d \in Client |-> {}] /\ folder = {} /\ waived = {}

\* Holds everything that `old` held, but for edits given up.
Keeps(new, old) == old \ new \subseteq waived'

\* Every edit made so far.
Held == folder \cup waived \cup UNION {replica[d] : d \in Client}

MakeEdit(d) ==
  /\ \E e \in Edit : /\ e[1] = d /\ e \notin Held
                     /\ replica' = [replica EXCEPT ![d] = @ \cup {e}]
  /\ UNCHANGED <<folder, waived>>

\* A replica sends what it holds.
Push(d) ==
  /\ folder' \subseteq folder \cup replica[d] /\ Keeps(folder', folder)
  /\ UNCHANGED <<replica, waived>>

\* A replica takes what others hold, straight or by way of the folder.
Take(d) ==
  /\ replica' = [replica EXCEPT ![d] = replica'[d]]
  /\ replica'[d] \subseteq Held /\ Keeps(replica'[d], replica[d])

Pull(d) == Take(d) /\ UNCHANGED <<folder, waived>>

\* A user overwrites the folder, or lets the folder overwrite the replica.
Overwrite(d) ==
  /\ folder' \subseteq folder \cup replica[d] /\ Keeps(folder', folder)
  /\ waived \subseteq waived' /\ waived' \subseteq waived \cup folder
  /\ UNCHANGED replica

GiveIn(d) ==
  /\ Take(d)
  /\ waived \subseteq waived' /\ waived' \subseteq waived \cup replica[d]
  /\ UNCHANGED folder

Next == \E d \in Client : MakeEdit(d) \/ Push(d) \/ Pull(d) \/ Overwrite(d) \/ GiveIn(d)

Spec == Init /\ [][Next]_vars

=============================================================================
