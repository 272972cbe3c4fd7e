CONSTANTS
  m1 = m1
  m2 = m2
  m3 = m3
  v1 = v1
  v2 = v2
  None = None
  Migrators <- ThreeMigrators
  Versions <- TwoVersions
  List <- ThreeLists
  MaxRetries = 1
SPECIFICATION FairSpec
INVARIANTS
  TypeOK
  AppliedOnce
  AppliedInOrder
  SuccessMeansApplied
PROPERTY EveryMigrateReturns
