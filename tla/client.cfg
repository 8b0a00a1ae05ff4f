SPECIFICATION FairSpec
CONSTANTS
  r = r
  s1 = s1
  s2 = s2
  s3 = s3
  Reporter = r
  Smackers <- ThreeSmackers
  ConnectTimes = {0, 2}
  QueriesPerClient = 1
  PipeSlots = 3
  Setups <- AllSetups
INVARIANTS
  MutualExclusion
  StreamPaired
  ReaderAligned
  NoReportLost
  CountsAgree
  ExtremesAreMeasured
PROPERTIES
  CollectsReports
  ReporterFinishes
  MysqlSmackersFinish
CHECK_DEADLOCK FALSE
