CONSTANTS
  c1 = c1
  c2 = c2
  c3 = c3
  Absent = Absent
  Empty = Empty
  Mixed = Mixed
  Calls <- ThreeCalls
SYMMETRY Symmetry3
SPECIFICATION Spec
INVARIANTS
  TypeOK
  SettledIsStored
  ReadersSeeSettled
  ProbeCleared
