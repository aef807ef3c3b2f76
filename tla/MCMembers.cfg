SPECIFICATION Spec
CONSTANTS
  ann = ann
  bob = bob
  cat = cat
  dan = dan
  w1 = w1
  w2 = w2
  Users = {ann, bob, cat, dan}
  Workspaces = {w1, w2}
  c1 = c1
  c2 = c2
  Calls = {c1, c2}
  None = None
  Owner <- MCOwner
  Joined <- MCJoined
  Held <- MCHeld
  Offers <- MCOffers
  Saves <- MCSaves
  Opener = ann
  Logins = {ann, bob}
  MaxMembers = 3
  Lifetime = 1
  MaxClock = 1
  MaxSteps = 3
  MaxLogins = 1
  MaxLosses = 1
SYMMETRY SamePlaces
CHECK_DEADLOCK FALSE
INVARIANTS
  TableIsSound
  SettledIsListed
  ShownCodeIsAskers
PROPERTIES
  CodeAdmitsOnce
  ChangesAreManaged
