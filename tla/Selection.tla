------------------------------ MODULE Selection ------------------------------
(***************************************************************************)
(* Array.prototype.filter, its test given as the set of what passes it.    *)
(***************************************************************************)
EXTENDS Naturals, Sequences

\* The elements of s that are in T, in the order of s.
Kept(s, T) ==
  LET n == Len(s)
      upTo[i \in 0..n] ==
        IF i = 0 THEN <<>>
        ELSE IF s[i] \in T THEN Append(upTo[i - 1], s[i]) ELSE upTo[i - 1]
  IN upTo[n]
=============================================================================
