SPECIFICATION Spec
CONSTANTS
  ann = ann
  bob = bob
  c1 = c1
  c2 = c2
  Tabs = {ann, bob}
  Managers = {ann}
  Calls = {c1, c2}
  Nobody = Nobody
  MaxActs = 5
  MaxEdits = 1
  Typists = {ann, bob}
  MaxShares = 0
  MaxFaults = 0
CHECK_DEADLOCK FALSE
SYMMETRY Places
INVARIANTS
  NoLostEdit
