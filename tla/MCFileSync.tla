----------------------------- MODULE MCFileSync -----------------------------
(***************************************************************************)
(* Instances of FileSync for TLC: how many edits each device makes.        *)
(***************************************************************************)
EXTENDS FileSync

TwoOfFirst  == [d \in Client |-> IF d = 1 THEN 2 ELSE 1]
TwoOfSecond == [d \in Client |-> IF d = 2 THEN 2 ELSE 1]
=============================================================================
