SPECIFICATION Spec
CONSTANTS
  e1 = e1
  e2 = e2
  e3 = e3
  Events = {e1, e2}
  NoEvent = NoEvent
  MaxSteps = 2
  MaxImages = 1
  Modes = {"pc", "mobile"}
  Faults = {"session", "journal", "live", "draft", "page", "window", "worker", "browser"}
  MaxFaults = 1
SYMMETRY Symmetry
INVARIANTS
  Consistent
  AckedIsKept
PROPERTIES
  NothingIsLost
