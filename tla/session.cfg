SPECIFICATION SessionSpec
CONSTANTS
  Queries = {"a", "b"}
  Unknown = {"x"}
  Numbers <- SomeNumbers
  Sleeps = {1}
  MaxTokens = 4
  Rounds <- SomeRounds
  MaxUnloads = 2
  Built = {"mysql", "pg"}
  OtherHandles = {"oracle"}
  MAX_ENGINES = 3
  QueryKinds <- SomeKinds
INVARIANTS
  ParsedAsWritten
  ActionsFollowText
  FiredAsMeant
  ChosenEngine
  NoResultLeaks
  FailuresHaveTheirCause
CHECK_DEADLOCK FALSE
