CONSTANTS
  t1 = t1
  t2 = t2
  NoTask = NoTask
  Tasks <- TwoTasks
  CfgThreshold = 2
  CfgMaxRetries = 1
  MaxCalls <- UnevenCalls
SPECIFICATION FairSpec
INVARIANTS
  TypeOK
  HalfOpenHasTrial
  ClosedBelowThreshold
PROPERTIES
  ImplementsBreaker
  EveryCallReturns
