SPECIFICATION FairSpec
CONSTANTS
  Tables <- TwoTables
  min_rows <- TwoMinRows
  FileRows = 2
  MaxFaults = 2
  DiskFills = TRUE
INVARIANTS
  OnlyShortFilesHurt
PROPERTIES
  GoodTableKept
  RecoversWithFiles
