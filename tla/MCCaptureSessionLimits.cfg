SPECIFICATION LiveSpec
CONSTANTS
  e1 = e1
  e2 = e2
  e3 = e3
  Events = {e1, e2}
  NoEvent = NoEvent
  MaxSteps = 1
  MaxImages = 1
  Modes = {"mobile"}
  Faults = {"live", "journal", "window", "browser"}
  MaxFaults = 1
INVARIANTS
  WithinLimits
PROPERTIES
  CancelEnds
