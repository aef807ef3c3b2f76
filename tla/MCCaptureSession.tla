-------------------------- MODULE MCCaptureSession --------------------------
(* CaptureSession on a small instance. *)
EXTENDS CaptureSession, TLC

CONSTANTS e1, e2, e3

Symmetry == Permutations(Events)
=============================================================================
