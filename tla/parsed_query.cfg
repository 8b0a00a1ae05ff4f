SPECIFICATION Spec
CONSTANTS
  NameChars = {"a", "b"}
  OtherChars = {" "}
  Dicts <- SomeDicts
  Words <- SomeWords
  MaxQuery = 10
  MaxVarBuf = 3
  MaxLen = 5
INVARIANTS
  InBounds
  TruncatesWholePieces
  RegularExpands
CHECK_DEADLOCK FALSE
