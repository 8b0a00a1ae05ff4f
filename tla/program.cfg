SPECIFICATION FairSpec
CONSTANTS
  Clients = {"A", "B"}
  Smackers = 2
  Scripts <- TwoClients
INVARIANTS
  ExecutesItsLines
  MainEndsLast
PROPERTIES
  ProgramEnds
CHECK_DEADLOCK FALSE
