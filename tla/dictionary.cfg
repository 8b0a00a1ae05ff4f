SPECIFICATION FairSpec
CONSTANTS
  Lists <- SomeLists
  TemplateChars = {"d", "x", "%"}
  Templates <- SomeTemplates
  Files <- SomeFiles
  Equivs = {0, 2, 20}
  MAX_FILE_LINE = 4
  MaxWords = 5
  Procs = {0, 1}
  MaxDraws = 4
INVARIANTS
  
  FileGivesItsWords
  TemplateHasOneField
  WordsInTurn
PROPERTIES
  FileLoadEnds
CHECK_DEADLOCK FALSE
