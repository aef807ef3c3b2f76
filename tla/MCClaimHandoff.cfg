SPECIFICATION Spec
CONSTANTS
  h1 = h1
  h2 = h2
  p1 = p1
  p2 = p2
  e1 = e1
  e2 = e2
  c1 = c1
  c2 = c2
  None = None
  Handoffs = {h1}
  Pages = {p1, p2}
  Editors = {e1}
  Contents = {c1, c2}
  Own = e1
  Claimable = {c1}
  MaxRestores = 1
  MaxVersion = 1
  MaxFaults = 1
SYMMETRY Symmetry
CHECK_DEADLOCK FALSE
INVARIANTS
  Consistent
  FinalizeIsRecoverable
PROPERTIES
  DeletedDraftIsSaved
  PendingIsKept
