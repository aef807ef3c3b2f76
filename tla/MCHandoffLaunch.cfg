SPECIFICATION Spec
CONSTANTS
  Actions = {"save"}
  MaxLaunches = 2
  MaxRestores = 1
  MaxFaults = 1
CHECK_DEADLOCK FALSE
INVARIANTS
  Consistent
PROPERTIES
  CancelHolds
  LaunchEnds
