SPECIFICATION Spec
CONSTANTS
  A = A
  B = B
  a1 = a1
  a2 = a2
  b1 = b1
  Reporters = {A, B}
  Smackers = {a1, a2, b1}
  ReporterOf <- TwoParents
  Leftovers = {}
INVARIANTS
  PairsNotInterleaved
CHECK_DEADLOCK FALSE
