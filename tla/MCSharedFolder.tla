--------------------------- MODULE MCSharedFolder ---------------------------
(***************************************************************************)
(* FileSync in two kinds of folder, chosen at the start: one that a user   *)
(* may overwrite, where nothing crashes or is cut short; and one that      *)
(* nobody overwrites, where everything may happen.  What fails where both  *)
(* meet is in README, section 5.                                           *)
(***************************************************************************)
EXTENDS MCFileSync

VARIABLE replaceable

\* No tab ends, and no write is cut short.
GentleNext ==
  /\ \E d \in Client : Write(d) \/ Prune(d) \/ Expire(d) \/ Sync(d)
  /\ primary'.kind = "torn" => primary.kind = "torn"

\* No full-state operation is ever written.
UnreplacedNext == Next /\ import' = import

FolderInit == Init /\ replaceable \in BOOLEAN

Step == IF replaceable THEN GentleNext ELSE UnreplacedNext

FolderVars == <<vars, replaceable>>

FolderSpec ==
  /\ FolderInit
  /\ [][Step /\ UNCHANGED replaceable]_FolderVars
  /\ \A d \in Client : WF_FolderVars(Sync(d) /\ Step /\ UNCHANGED replaceable)
=============================================================================
