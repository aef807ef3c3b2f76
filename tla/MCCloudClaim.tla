---------------------------- MODULE MCCloudClaim ----------------------------
(* CloudClaim on a small instance. *)
EXTENDS CloudClaim, TLC

CONSTANTS h1, h2, i1, i2, t1

MCSize == [i \in Images |-> IF i = i1 THEN 1 ELSE 2]
Symmetry == Permutations({h1, h2})
=============================================================================
