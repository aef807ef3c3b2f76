--------------------------- MODULE MCClaimHandoff ---------------------------
(* ClaimHandoff on a small instance. *)
EXTENDS ClaimHandoff, TLC

CONSTANTS h1, h2, p1, p2, e1, e2, c1, c2

Symmetry == Permutations({h1, h2}) \cup Permutations({p1, p2})
=============================================================================
