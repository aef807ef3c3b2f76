----------------------------- MODULE MCDraftShare -----------------------------
EXTENDS DraftShare, TLC

CONSTANTS ann, bob, c1, c2

(* The places for requests differ in nothing.                              *)
Places == Permutations(Calls)
=============================================================================
