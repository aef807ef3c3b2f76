SPECIFICATION Spec
CONSTANTS
  ann = ann
  bob = bob
  c1 = c1
  c2 = c2
  Tabs = {ann, bob}
  Managers = {ann}
  Calls = {c1, c2}
  Nobody = Nobody
  MaxActs = 3
  MaxEdits = 1
  Typists = {bob}
  MaxShares = 2
  MaxFaults = 1
CHECK_DEADLOCK FALSE
SYMMETRY Places
INVARIANTS
  OneLiveLink
  LinkShowsItsVersion
  StoppedIsUnreadable
  Consistent
