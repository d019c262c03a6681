---------------------------- MODULE MCChangeFeed ----------------------------
(* Small instances of ChangeFeed for TLC.                                  *)
EXTENDS ChangeFeed, TLC

CONSTANTS e1, e2, t1, t2, d1, d2

OneRow  == e1 :> 1
TwoRows == e1 :> 1 @@ e2 :> 2

\* Transactions are interchangeable, and so are devices.
Symmetry == Permutations({t1, t2}) \cup Permutations({d1, d2})
=============================================================================
