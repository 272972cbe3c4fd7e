CONSTANTS
  m1 = m1
  m2 = m2
  m3 = m3
  Nil = Nil
  Panic = Panic
  Members <- ThreeMembers
  Scores <- WithZeros
  Value <- ValueOf
  Ranges <- AllRanges
  Limits <- AllLimits
SPECIFICATION SetSpec
INVARIANTS
  IndexesAgree
  RangeIsSound
PROPERTY ImplementsGo
