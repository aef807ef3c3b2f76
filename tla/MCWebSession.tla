---------------------------- MODULE MCWebSession ----------------------------
(* The login of a browser with two tabs. *)
EXTENDS WebSession, TLC

Symmetry == Permutations(Tabs) \cup Permutations(Users)
=============================================================================
