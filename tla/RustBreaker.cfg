CONSTANTS
  t1 = t1
  t2 = t2
  NoTask = NoTask
  Tasks <- TwoTasks
  Threshold = 2
  MaxRetries = 1
  MaxCalls = 2
  MayDrop = TRUE
SYMMETRY Symmetry2
SPECIFICATION Spec
INVARIANTS
  TypeOK
  OpenHasTimestamp
  NotLeftClosed
