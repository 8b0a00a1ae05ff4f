SPECIFICATION FairSpec
CONSTANTS
  A = A
  B = B
  a1 = a1
  a2 = a2
  b1 = b1
  Reporters = {A, B}
  Smackers = {a1, a2, b1}
  ReporterOf <- TwoParents
  Leftovers = {0, 1}
INVARIANTS
  TokenNotLost
  TokensBounded
PROPERTIES
  EveryoneEnds
CHECK_DEADLOCK FALSE
