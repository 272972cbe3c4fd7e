CONSTANTS
  t1 = t1
  t2 = t2
  NoTask = NoTask
  Tasks <- TwoTasks
  Threshold = 1
  MaxRetries = 1
  MaxCalls = 1
  MayDrop = FALSE
SPECIFICATION FairSpec
PROPERTY EveryCallReturns
CHECK_DEADLOCK FALSE
