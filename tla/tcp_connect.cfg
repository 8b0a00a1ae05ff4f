SPECIFICATION TcpFairSpec
CONSTANTS
  Last = 3
  MaxChunks = 3
INVARIANTS
  NoLateJump
  StatusIsTrue
PROPERTIES
  TimeoutsWork
  ReceiveEnds
CHECK_DEADLOCK FALSE
