CONSTANTS
  Users = {u1, u2}
  Tabs = {t1, t2}
  MaxCalls = 2
  MaxLogins = 2
  MaxVersion = 4
  MaxRenewals = 1
  MaxCreates = 2
  MaxSteps = 3
  None = None
SPECIFICATION Spec
SYMMETRY Symmetry
CHECK_DEADLOCK FALSE
INVARIANTS
  Consistent
  ScreensAgree
  OneUnknownCreation
PROPERTIES
  LoginIsKept
