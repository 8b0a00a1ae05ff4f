SPECIFICATION Spec
CONSTANTS
  r = r
  s1 = s1
  s2 = s2
  t1 = t1
  t2 = t2
  Reporter = r
  Smackers = {s1, s2}
  Types = {t1, t2}
  Times = {1, 3}
  MaxShots = 2
  Namings <- MCNamings
  ByteSize = 4
  ReportLen = 15
SYMMETRY Symmetry
INVARIANTS
  CountsAreExact
  MergeIsOrderFree
  ExtremesWereObserved
PROPERTY
  ReportsArrive
CHECK_DEADLOCK FALSE
