SPECIFICATION Spec
CONSTANTS
  MaxImages = 2
  MaxActs = 4
  MaxFaults = 1
CHECK_DEADLOCK FALSE
INVARIANTS
  Consistent
  SavedIsStored
  DraftIsWhatWasDone
