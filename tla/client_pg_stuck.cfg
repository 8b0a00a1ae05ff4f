SPECIFICATION FairSpec
CONSTANTS
  r = r
  s1 = s1
  s2 = s2
  s3 = s3
  Reporter = r
  Smackers <- TwoSmackers
  ConnectTimes = {0}
  QueriesPerClient = 1
  PipeSlots = 2
  Setups <- PgSetup
PROPERTIES
  SmackersFinish
CHECK_DEADLOCK FALSE
