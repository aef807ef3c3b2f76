SPECIFICATION Spec
CONSTANTS
  p1 = p1
  p2 = p2
  None = None
  Pages = {p1, p2}
  MaxRevisions = 3
  MaxWrites = 3
  MaxForms = 1
  MaxLoads = 1
  MaxFaults = 1
  StepLimit = 2
SYMMETRY Symmetry
CHECK_DEADLOCK FALSE
INVARIANTS
  Consistent
  ReadsOwnWrites
PROPERTIES
  PublishedIsFinal
  ChangesAreInformed
  UnsavedIsKept
