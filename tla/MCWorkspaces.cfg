SPECIFICATION Spec
CONSTANTS
  p1 = p1
  p2 = p2
  s1 = s1
  s2 = s2
  s3 = s3
  o1 = o1
  o2 = o2
  k1 = k1
  k2 = k2
  c1 = c1
  c2 = c2
  None = None
  People = {p1, p2}
  Spaces = {s1, s2, s3}
  Operations = {o1, o2}
  Sends <- MCSends
  Slugs = {"team"}
  Codes = {k1, k2}
  Calls = {c1, c2}
  MemberLimit = 2
  Roles = {"admin", "viewer"}
  MaxActs = 3
  MaxFaults = 1
SYMMETRY Symmetry
INVARIANTS
  Consistent
  SignupOnce
  AnswersConverge
