---------------------------- MODULE MCRemoteApply ----------------------------
(***************************************************************************)
(* Feeds of RemoteApply for TLC.  Operations 1..9 are the user's, 11..19   *)
(* the other tab's, 21..29 the other devices'.                             *)
(***************************************************************************)
EXTENDS RemoteApply

OneOp == <<21>>
TwoOps == <<21, 22>>
ThreeOps == <<21, 22, 23>>
=============================================================================
