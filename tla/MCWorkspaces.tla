---------------------------- MODULE MCWorkspaces ----------------------------
EXTENDS Workspaces, TLC

CONSTANTS p1, p2, o1, o2

\* One person's client sends one operation, then or meanwhile another.
MCSends == {<<p1, o1>>, <<p1, o2>>}

Symmetry ==
  Permutations(Spaces) \cup Permutations(Operations)
  \cup Permutations(Codes) \cup Permutations(Calls)
=============================================================================
