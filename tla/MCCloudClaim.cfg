SPECIFICATION Spec
CONSTANTS
  h1 = h1
  h2 = h2
  i1 = i1
  i2 = i2
  t1 = t1
  Handlers = {h1, h2}
  MaxSlots = 1
  Images = {i1, i2}
  Size <- MCSize
  TotalLimit = 2
  Texts = {t1}
  NoImage = NoImage
  NoText = NoText
SYMMETRY Symmetry
INVARIANTS
  IInv
  ClaimedAnswerIsTrue
PROPERTIES
  NoWriteForInactiveOwner
  ImplementsClaimOnce
