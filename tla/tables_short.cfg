SPECIFICATION Spec
CONSTANTS
  Tables <- TwoTables
  min_rows <- TwoMinRows
  FileRows = 2
  MaxFaults = 2
  DiskFills = FALSE
INVARIANTS
  TestHasItsRows
