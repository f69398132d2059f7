----------------------------- MODULE MCConflict -----------------------------
(* Instances of Conflict: what the users of the devices are going to do. *)
EXTENDS Conflict

a == {"a"}
b == {"b"}
ab == {"a", "b"}
deleted == {}
Nobody == <<>>

OneEach(x, y, z) == <<<<x>>, <<y>>, <<z>>>>
TwoWriters(x, y) == <<x, y, Nobody>>

Mixed == {OneEach(a, a, a), TwoWriters(<<a, a>>, <<a>>)}
         \cup {TwoWriters(<<x>>, <<y>>) : x, y \in {a, b, ab}}
         \cup {TwoWriters(<<a, deleted>>, <<a>>), TwoWriters(<<deleted>>, <<ab>>),
               TwoWriters(<<deleted>>, <<deleted>>)}
PendingResend == {<<<<a, a>>, <<b>>>>}
=============================================================================
