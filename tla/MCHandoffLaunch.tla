--------------------------- MODULE MCHandoffLaunch ---------------------------
(* Two launches of the same handoff, one after the other or overlapping.   *)
EXTENDS HandoffLaunch
=============================================================================
