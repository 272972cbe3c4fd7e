CONSTANTS
  c1 = c1
  c2 = c2
  Absent = Absent
  Calls <- TwoCalls
  MaxRetries = 1
  MaxResends = 1
SYMMETRY Symmetry2
SPECIFICATION Spec
INVARIANTS
  TypeOK
  RejectedHasNoEffect
  TrueMeansCreated
  ReadIsCurrent
  Accounted
  EffectsAreMeasured
  SuccessHappened
