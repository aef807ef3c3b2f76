------------------------- MODULE MCManualLifecycle -------------------------
(* ManualLifecycle on a small instance. *)
EXTENDS ManualLifecycle, TLC

CONSTANTS p1, p2

Symmetry == Permutations({p1, p2})
=============================================================================
